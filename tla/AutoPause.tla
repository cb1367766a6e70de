------------------------------ MODULE AutoPause ------------------------------
(***************************************************************************)
(* Auto-pause: markExecutionFailed counts the latest executions of the     *)
(* workflow and pauses it when all of them are FAILED.  The transaction is *)
(* not one step: PostgreSQL runs it at READ COMMITTED, so it sees its own  *)
(* update and whatever others have committed when it reads.  Meanwhile the *)
(* api creates executions and deletes those whose enqueue it takes for     *)
(* failed, whatever has become of them; a worker that dies has its job     *)
(* delivered again; the owner pauses and activates the workflow.           *)
(*                                                                         *)
(* Executions are numbered by createdAt.  A worker of this module is one   *)
(* slot of a BullMQ Worker: the deployed system has one.                   *)
(***************************************************************************)
EXTENDS Naturals, FiniteSets

CONSTANTS
  Workers,         \* worker processes
  Threshold,       \* AUTO_PAUSE_FAILURE_THRESHOLD
  MaxExecutions,   \* bound: executions created
  MaxActivations,  \* bound: activations by the owner
  MaxFaults        \* bound: failing calls and deaths of a worker

ASSUME AutoPauseAssumption ==
  /\ Threshold \in Nat \ {0}
  /\ MaxExecutions \in Nat
  /\ MaxActivations \in Nat
  /\ MaxFaults \in Nat

Ids == 1..MaxExecutions

VARIABLES
  workflow,     \* Workflow.status
  created,      \* executions created so far
  execution,    \* WorkflowExecution.status of each
  enqueued,     \* the executions that have had a job
  waiting,      \* those whose job waits
  redelivered,  \* those whose job was found stalled
  at,           \* the execution each worker processes, or 0
  pc,           \* where that worker is
  outer,        \* whether it is in the outer catch block of execute()
  streak,       \* whether its transaction read failures only
  excused,      \* an activation, deletion or lost count since the last count
  activations,  \* activations so far
  faults        \* faults so far

rowVars    == <<created, execution>>
jobVars    == <<enqueued, waiting, redelivered>>
workerVars == <<at, pc, outer, streak>>
pauseVars == <<workflow, created, execution, enqueued, waiting, redelivered,
               at, pc, outer, streak, excused, activations, faults>>

Statuses == {"PENDING", "RUNNING", "SUCCESS", "FAILED"}

PauseTypeOK ==
  /\ workflow \in {"ACTIVE", "PAUSED"}
  /\ created \in 0..MaxExecutions
  /\ execution \in [Ids -> {"none", "deleted", "withdrawn"} \cup Statuses]
  /\ enqueued \in SUBSET Ids /\ waiting \in SUBSET Ids
  /\ redelivered \in SUBSET Ids
  /\ at \in [Workers -> Ids \cup {0}]
  /\ pc \in [Workers ->
              {"idle", "running", "erred", "failing", "counted", "done"}]
  /\ outer \in [Workers -> BOOLEAN]
  /\ streak \in [Workers -> BOOLEAN]
  /\ excused \in BOOLEAN
  /\ activations \in 0..MaxActivations
  /\ faults \in 0..MaxFaults

PauseInit ==
  /\ workflow = "ACTIVE"
  /\ created = 0
  /\ execution = [e \in Ids |-> "none"]
  /\ enqueued = {} /\ waiting = {} /\ redelivered = {}
  /\ at = [w \in Workers |-> 0]
  /\ pc = [w \in Workers |-> "idle"]
  /\ outer = [w \in Workers |-> FALSE]
  /\ streak = [w \in Workers |-> FALSE]
  /\ excused = FALSE
  /\ activations = 0
  /\ faults = 0

-----------------------------------------------------------------------------
(* What the transaction reads.                                             *)

Exists(rows, e) == rows[e] \in Statuses

Newer(rows, e) == {f \in Ids : f > e /\ Exists(rows, f)}

\* findMany: take Threshold, orderBy createdAt desc.
Latest(rows) ==
  {e \in Ids : Exists(rows, e) /\ Cardinality(Newer(rows, e)) < Threshold}

\* Mutation of AllFailed: that there are Threshold rows is not asked.
AllFailedOfFewer(rows) == \A e \in Latest(rows) : rows[e] = "FAILED"

AllFailed(rows) ==
  /\ Cardinality(Latest(rows)) = Threshold
  /\ \A e \in Latest(rows) : rows[e] = "FAILED"

Fault ==
  /\ faults < MaxFaults
  /\ faults' = faults + 1

Idle(w) ==
  /\ at' = [at EXCEPT ![w] = 0]
  /\ pc' = [pc EXCEPT ![w] = "idle"]
  /\ outer' = [outer EXCEPT ![w] = FALSE]
  /\ streak' = [streak EXCEPT ![w] = FALSE]

Goto(w, place) ==
  /\ pc' = [pc EXCEPT ![w] = place]
  /\ UNCHANGED at

\* A transaction that has updated a row holds the row until it ends.
Locked(e) == \E w \in Workers : at[w] = e /\ pc[w] \in {"failing", "counted"}

-----------------------------------------------------------------------------
(* Mutations: plausible slips in the code.  The specification uses none.   *)

\* The window is read before the row is updated.
CountBeforeUpdate(w) ==
  /\ pc[w] = "failing"
  /\ Goto(w, "counted")
  /\ streak' = [streak EXCEPT ![w] = AllFailed(execution)]
  /\ excused' = FALSE
  /\ UNCHANGED <<workflow, rowVars, jobVars, outer, activations, faults>>

\* Pausing cancels what is waiting: the schema has no such status.
PauseCancels ==
  /\ workflow = "ACTIVE"
  /\ workflow' = "PAUSED"
  /\ execution' = [e \in Ids |-> IF execution[e] = "PENDING"
                                  THEN "CANCELLED" ELSE execution[e]]
  /\ UNCHANGED <<created, jobVars, workerVars, excused, activations, faults>>

-----------------------------------------------------------------------------
(* The api creates executions and queues them.                             *)

Create ==
  /\ created < MaxExecutions
  /\ created' = created + 1
  /\ execution' = [execution EXCEPT ![created + 1] = "PENDING"]
  /\ UNCHANGED <<workflow, jobVars, workerVars, excused, activations, faults>>

\* Calls overtake each other between their transaction and their enqueue; an
\* api that dies in between never enqueues.
Enqueue(e) ==
  /\ execution[e] = "PENDING"
  /\ e \notin enqueued
  /\ enqueued' = enqueued \cup {e}
  /\ waiting' = waiting \cup {e}
  /\ UNCHANGED <<workflow, rowVars, redelivered, workerVars, excused,
                 activations, faults>>

\* The catch block of startExecution or retryExecution: the row is deleted
\* whatever its status, and a job that was not enqueued to the caller's
\* knowledge is left.  A call may come here at any time after its enqueue: the
\* reply or the update that follows is late and lost.
Withdraw(e) ==
  /\ Exists(execution, e)
  /\ ~ Locked(e)
  /\ Fault
  /\ execution' = [execution EXCEPT
                     ![e] = IF @ = "FAILED" THEN "withdrawn" ELSE "deleted"]
  /\ waiting' \in {waiting, waiting \ {e}}
  /\ excused' = TRUE
  /\ UNCHANGED <<workflow, created, enqueued, redelivered, workerVars,
                 activations>>

-----------------------------------------------------------------------------
(* The worker.                                                             *)

\* A job whose row is gone is done; any other row becomes RUNNING, one that a
\* delivery before has made SUCCESS or FAILED too.
Take(w) ==
  /\ pc[w] = "idle"
  /\ \E e \in waiting :
       /\ waiting' = waiting \ {e}
       /\ IF Exists(execution, e)
            THEN /\ at' = [at EXCEPT ![w] = e]
                 /\ pc' = [pc EXCEPT ![w] = "running"]
                 /\ execution' = [execution EXCEPT ![e] = "RUNNING"]
            ELSE UNCHANGED <<at, pc, execution>>
  /\ UNCHANGED <<workflow, created, enqueued, redelivered, outer, streak,
                 excused, activations, faults>>

\* The final update; if its reply is lost, the catch block follows.
Succeed(w) ==
  /\ pc[w] = "running"
  /\ Exists(execution, at[w])
  /\ execution' = [execution EXCEPT ![at[w]] = "SUCCESS"]
  /\ \/ Goto(w, "done") /\ UNCHANGED <<outer, faults>>
     \/ Goto(w, "erred") /\ outer' = [outer EXCEPT ![w] = TRUE] /\ Fault
  /\ UNCHANGED <<workflow, created, jobVars, streak, excused, activations>>

\* markExecutionFailed updates the own row, which nobody else sees yet: called
\* for a failed step, or by the outer catch block.
Fail(w) ==
  /\ pc[w] \in {"running", "erred"}
  /\ Exists(execution, at[w])
  /\ Goto(w, "failing")
  /\ \E o \in BOOLEAN : /\ outer[w] => o
                        /\ outer' = [outer EXCEPT ![w] = o]
  /\ UNCHANGED <<workflow, rowVars, jobVars, streak, excused, activations,
                 faults>>

\* findMany sees the own update and what is committed.
Count(w) ==
  /\ pc[w] = "failing"
  /\ Goto(w, "counted")
  /\ streak' = [streak EXCEPT
       ![w] = AllFailed([execution EXCEPT ![at[w]] = "FAILED"])]
  /\ excused' = FALSE
  /\ UNCHANGED <<workflow, rowVars, jobVars, outer, activations, faults>>

\* An error of markExecutionFailed: the outer catch block calls it again, and
\* from there it is the job's.
Errs(w) ==
  IF outer[w]
    THEN Idle(w)
    ELSE /\ Goto(w, "erred")
         /\ outer' = [outer EXCEPT ![w] = TRUE]
         /\ streak' = [streak EXCEPT ![w] = FALSE]

\* updateMany where ACTIVE looks at the latest committed workflow.
CommitFailure(w) ==
  /\ pc[w] = "counted"
  /\ execution' = [execution EXCEPT ![at[w]] = "FAILED"]
  /\ workflow' = IF streak[w] THEN "PAUSED" ELSE workflow
  /\ \/ /\ Goto(w, "done")
        /\ streak' = [streak EXCEPT ![w] = FALSE]
        /\ UNCHANGED <<outer, faults>>
     \/ Errs(w) /\ Fault
  /\ UNCHANGED <<created, jobVars, excused, activations>>

\* The transaction fails.
RollBack(w) ==
  /\ pc[w] \in {"failing", "counted"}
  /\ Fault
  /\ Errs(w)
  /\ excused' = (excused \/ pc[w] = "counted")
  /\ UNCHANGED <<workflow, rowVars, jobVars, activations>>

\* The row was deleted meanwhile: both updates throw, and the job fails.
RowGone(w) ==
  /\ pc[w] \in {"running", "erred"}
  /\ ~ Exists(execution, at[w])
  /\ Idle(w)
  /\ UNCHANGED <<workflow, rowVars, jobVars, excused, activations, faults>>

Acknowledge(w) ==
  /\ pc[w] = "done"
  /\ Idle(w)
  /\ UNCHANGED <<workflow, rowVars, jobVars, excused, activations, faults>>

\* The worker dies, a transaction it is in with it: its job is delivered once
\* more, and is failed when found stalled again.
Crash(w) ==
  /\ pc[w] # "idle"
  /\ Fault
  /\ Idle(w)
  /\ redelivered' = redelivered \cup {at[w]}
  /\ waiting' = waiting \cup ({at[w]} \ redelivered)
  /\ excused' = (excused \/ pc[w] = "counted")
  /\ UNCHANGED <<workflow, rowVars, enqueued, activations>>

-----------------------------------------------------------------------------
(* The owner.                                                              *)

Activate ==
  /\ workflow = "PAUSED"
  /\ activations < MaxActivations
  /\ activations' = activations + 1
  /\ workflow' = "ACTIVE"
  /\ excused' = TRUE
  /\ UNCHANGED <<rowVars, jobVars, workerVars, faults>>

Pause ==
  /\ workflow = "ACTIVE"
  /\ workflow' = "PAUSED"
  /\ UNCHANGED <<rowVars, jobVars, workerVars, excused, activations, faults>>

WorkerStep(w) ==
  \/ Take(w)
  \/ Succeed(w)
  \/ Fail(w)
  \/ Count(w)
  \/ CommitFailure(w)
  \/ RollBack(w)
  \/ RowGone(w)
  \/ Acknowledge(w)
  \/ Crash(w)

PauseNext ==
  \/ Create
  \/ \E e \in Ids : Enqueue(e) \/ Withdraw(e)
  \/ \E w \in Workers : WorkerStep(w)
  \/ Activate
  \/ Pause

PauseSpec == PauseInit /\ [][PauseNext]_pauseVars

-----------------------------------------------------------------------------
(* Properties.                                                             *)

\* Threshold executions in a row have failed: FAILED, or deleted after they
\* were, and no other that exists stands between them.
FailedInRow(rows, row) ==
  /\ Cardinality(row) = Threshold
  /\ \A e \in row : rows[e] \in {"FAILED", "withdrawn"}
  /\ \A e \in Ids : \A f, g \in row :
       f <= e /\ e <= g /\ Exists(rows, e) => e \in row

\* The worker pauses a workflow only when Threshold executions in a row have
\* failed and no success, waiting or running execution is skipped over at the
\* commit, whatever was created, deleted or delivered again between the count
\* of markExecutionFailed and its commit.
PauseIsJustified ==
  [][workflow = "ACTIVE" /\ workflow' = "PAUSED" /\ pc' # pc =>
       \E row \in SUBSET Ids : FailedInRow(execution', row)]_pauseVars

Quiet ==
  /\ waiting = {}
  /\ \A w \in Workers : pc[w] = "idle"

\* spec-v1.md: auto-pause after 5 FAILED in a row.  Once no job waits and the
\* worker is idle, a workflow whose latest Threshold executions are all
\* FAILED is PAUSED, unless since the last count its owner activated it, an
\* execution was deleted or the transaction of the count was lost.
StreakIsPaused ==
  Quiet /\ ~ excused /\ AllFailed(execution) => workflow = "PAUSED"

\* The same sentence taken at its word: Threshold executions in a row that
\* are FAILED pause the workflow, whatever was created after them.
RowOfFailuresPauses ==
  activations = 0 /\ faults = 0 =>
    \A first \in Ids :
      first + Threshold - 1 \in Ids
        /\ (\A e \in first..(first + Threshold - 1) : execution[e] = "FAILED")
          => workflow = "PAUSED"
=============================================================================
