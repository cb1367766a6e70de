------------------------------- MODULE ChainRun -------------------------------
(***************************************************************************)
(* What running an execution means, without logs, retries, timeouts or     *)
(* failing calls: each delivery of the job works through the chain from    *)
(* its first step, one step after the other, and the execution may become  *)
(* SUCCESS only at the end of the chain.  The redelivery of a job forgets  *)
(* how far the delivery before it had come.                                *)
(***************************************************************************)
EXTENDS Naturals

CONSTANTS N, MaxStalledCount

VARIABLES
  status,    \* of the execution, or "deleted"
  delivery,  \* redeliveries so far
  done       \* the steps that this delivery has completed

vars == <<status, delivery, done>>

Init ==
  /\ status = "PENDING"
  /\ delivery = 0
  /\ done = {}

\* Only a first delivery finds PENDING, only a later one anything else.
Begin ==
  /\ status # "deleted"
  /\ status = "PENDING" \/ delivery > 0
  /\ done = {}
  /\ status' = "RUNNING"
  /\ UNCHANGED <<delivery, done>>

Advance ==
  /\ status = "RUNNING"
  /\ \E s \in 1..N : done = 1..(s - 1) /\ done' = 1..s
  /\ UNCHANGED <<status, delivery>>

Succeed ==
  /\ status = "RUNNING"
  /\ done = 1..N
  /\ status' = "SUCCESS"
  /\ UNCHANGED <<delivery, done>>

\* Also of an execution whose SUCCESS the worker does not know of.
Fail ==
  /\ status \in {"RUNNING", "SUCCESS"}
  /\ status' = "FAILED"
  /\ UNCHANGED <<delivery, done>>

Redeliver ==
  /\ delivery < MaxStalledCount
  /\ delivery' = delivery + 1
  /\ done' = {}
  /\ UNCHANGED status

Vanish ==
  /\ status # "deleted"
  /\ status' = "deleted"
  /\ done' = {}
  /\ UNCHANGED delivery

Next ==
  \/ Begin
  \/ Advance
  \/ Succeed
  \/ Fail
  \/ Redeliver
  \/ Vanish

Spec == Init /\ [][Next]_vars
=============================================================================
