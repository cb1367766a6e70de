--------------------------- MODULE IdempotentIntake ---------------------------
(***************************************************************************)
(* What the intake of a workflow promises to those who post events to it,  *)
(* without database rows, jobs or workers: a registry in which each        *)
(* idempotency key has at most one owner.  A call that is told "created"   *)
(* owns its key for as long as the workflow exists; a call is told         *)
(* "duplicate" only of a key that another call owns; only the owner itself *)
(* may give its key back, and then it is told of an error; a call that     *)
(* died may leave its key taken for ever (the loss DEC-006 accepts).       *)
(***************************************************************************)
CONSTANTS Calls, Keys, Key(_), NoCall

VARIABLES
  open,     \* the workflow exists
  owner,    \* the call whose execution holds each key
  verdict   \* what each call was told

vars == <<open, owner, verdict>>

Keyed(r) == Key(r) \in Keys

Init ==
  /\ open = TRUE
  /\ owner = [k \in Keys |-> NoCall]
  /\ verdict = [r \in Calls |-> "none"]

Tell(r, word) ==
  /\ verdict[r] = "none"
  /\ verdict' = [verdict EXCEPT ![r] = word]

Accept(r) ==
  /\ open
  /\ Keyed(r)
  /\ verdict[r] = "none"
  /\ owner[Key(r)] = NoCall
  /\ owner' = [owner EXCEPT ![Key(r)] = r]
  /\ UNCHANGED <<open, verdict>>

Confirm(r) ==
  /\ Keyed(r) => owner[Key(r)] = r
  /\ Tell(r, "created")
  /\ UNCHANGED <<open, owner>>

Ignore(r) ==
  /\ Keyed(r)
  /\ owner[Key(r)] \notin {NoCall, r}
  /\ Tell(r, "duplicate")
  /\ UNCHANGED <<open, owner>>

Withdraw(r) ==
  /\ Keyed(r)
  /\ owner[Key(r)] = r
  /\ owner' = [owner EXCEPT ![Key(r)] = NoCall]
  /\ Tell(r, "error")
  /\ UNCHANGED open

Refuse(r) ==
  /\ \E word \in {"rejected", "error"} : Tell(r, word)
  /\ UNCHANGED <<open, owner>>

Crash ==
  /\ \E S \in SUBSET {r \in Calls : verdict[r] = "none"} :
       verdict' = [r \in Calls |-> IF r \in S THEN "lost" ELSE verdict[r]]
  /\ UNCHANGED <<open, owner>>

Close ==
  /\ open' = FALSE
  /\ owner' = [k \in Keys |-> NoCall]
  /\ UNCHANGED verdict

Next ==
  \/ \E r \in Calls :
       \/ Accept(r)
       \/ Confirm(r)
       \/ Ignore(r)
       \/ Withdraw(r)
       \/ Refuse(r)
  \/ Crash
  \/ Close

Spec == Init /\ [][Next]_vars
=============================================================================
