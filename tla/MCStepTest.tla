----------------------------- MODULE MCStepTest -----------------------------
(* An SQL test beside a request's test; by themselves a test whose text    *)
(* ends its transaction and a transformation; a preview beside a connection *)
(* test, one that reads the catalogue and one that is refused.              *)
EXTENDS StepTest, TLC

CONSTANTS s1, x1, a1, t1, v1, v2, v3, g1

Types == s1 :> "DB_QUERY" @@ x1 :> "DB_QUERY" @@ a1 :> "HTTP_REQUEST"
           @@ t1 :> "DATA_TRANSFORM"
Texts == s1 :> "write" @@ x1 :> "chain" @@ v1 :> "write" @@ v2 :> "returning"
           @@ v3 :> "catalogue" @@ a1 :> "read" @@ t1 :> "read" @@ g1 :> "read"
Bound(cs, crash, fault) == [calls |-> cs, crashes |-> crash, faults |-> fault]
Together ==
  {Bound({s1, a1}, 1, 0), Bound({s1}, 2, 1), Bound({a1}, 2, 1), Bound({x1}, 2, 1),
   Bound({t1}, 1, 1), Bound({v1, g1}, 0, 1), Bound({v3}, 0, 1), Bound({v2}, 0, 0)}
=============================================================================
