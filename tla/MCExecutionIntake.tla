-------------------------- MODULE MCExecutionIntake --------------------------
(***************************************************************************)
(* Instances of ExecutionIntake for TLC: a sender that posts the same      *)
(* event twice (p1, p2), a manual run (m1) and a retry (t1).               *)
(***************************************************************************)
EXTENDS ExecutionIntake, TLC

CONSTANTS p1, p2, m1, t1, k1

PairPosts  == {p1, p2}
PairKeyOf  == (p1 :> k1) @@ (p2 :> k1)
MixedPosts == {p1, m1}
MixedKeyOf == (p1 :> k1) @@ (m1 :> NoKey)

\* The two posts of k1 differ in nothing but their names.
SamePosts == Permutations({p1, p2})
=============================================================================
