--------------------------- MODULE ExecutionIntake ---------------------------
(***************************************************************************)
(* How one workflow accepts work: ExecutionService.startExecution and      *)
(* retryExecution (apps/api), the BullMQ queue between the two processes,  *)
(* and the life of a job in the one worker process, whose engine is kept   *)
(* here to the steps that other parties can observe.                       *)
(*                                                                         *)
(* A "call" is one invocation of the API: a post (webhook, inbound e-mail, *)
(* cron occurrence, manual run) or a retry.  A call creates at most one    *)
(* execution and at most one job, so both are named after the call.        *)
(* A sender that posts the same event again is another call with the same  *)
(* key.  Every database transaction is one step: TriggerEvent's unique     *)
(* index orders the transactions that insert the same key.                 *)
(***************************************************************************)
EXTENDS Naturals, FiniteSets

CONSTANTS
  Posts,            \* calls of startExecution
  Retries,          \* calls of retryExecution
  Manual,           \* the posts that come from POST /workflows/:id/execute
  Keys,             \* idempotency keys, each with its source
  NoKey,            \* a post that carries no idempotency key
  KeyOf,            \* the key of each post
  NoCall,           \* the idle worker
  MaxStalledCount,  \* BullMQ: redeliveries of a job whose lock expired
  MaxCrashes,       \* bound: crashes of the worker process
  MaxRestarts,      \* bound: crashes of the api process
  MaxFaults         \* bound: calls to PostgreSQL or Redis that fail

Calls == Posts \cup Retries

ASSUME IntakeAssumption ==
  /\ Posts \cap Retries = {}
  /\ Manual \subseteq Posts
  /\ NoKey \notin Keys
  /\ NoCall \notin Calls
  /\ KeyOf \in [Posts -> Keys \cup {NoKey}]
  /\ \A r \in Manual : KeyOf[r] = NoKey
  /\ MaxStalledCount \in Nat
  /\ MaxCrashes \in Nat
  /\ MaxRestarts \in Nat
  /\ MaxFaults \in Nat

VARIABLES
  workflow,   \* Workflow.status, or "deleted" once the row is gone
  pc,         \* where each call is
  answer,     \* what its caller was told
  execution,  \* WorkflowExecution.status of the row the call created
  event,      \* the TriggerEvent row of each key
  job,        \* the BullMQ job of each call
  stalls,     \* BullMQ's stalled counter of that job
  runs,       \* how often the chain of the execution was run (history)
  worker,     \* the call whose job the worker processes
  stage,      \* how far ExecutionEngine.execute has come with it
  crashes,    \* worker crashes so far
  restarts,   \* api crashes so far
  faults      \* failed database and queue calls so far

callVars   == <<pc, answer>>
workerVars == <<worker, stage, runs>>
jobVars    == <<job, stalls>>
faultVars  == <<crashes, restarts, faults>>
vars == <<workflow, pc, answer, execution, event, job, stalls, runs,
          worker, stage, crashes, restarts, faults>>

Statuses   == {"PENDING", "RUNNING", "SUCCESS", "FAILED"}
Terminal   == {"SUCCESS", "FAILED"}
InProgress == {"checked", "committed", "queued", "removing", "cleaning"}

Key(r)     == IF r \in Posts THEN KeyOf[r] ELSE NoKey
Keyed(r)   == Key(r) \in Keys
Present(r) == execution[r] \in Statuses

TypeOK ==
  /\ workflow \in {"ACTIVE", "PAUSED", "deleted"}
  /\ pc \in [Calls -> {"idle", "done"} \cup InProgress]
  /\ answer \in [Calls -> {"none", "created", "duplicate", "rejected",
                           "error", "lost"}]
  /\ execution \in [Calls -> {"none", "deleted"} \cup Statuses]
  /\ event \in [Keys -> {"none", "unprocessed", "processed"}]
  /\ job \in [Calls -> {"none", "waiting", "active", "stalled", "completed",
                        "failed", "removed"}]
  /\ stalls \in [Calls -> 0..MaxStalledCount]
  /\ runs \in [Calls -> Nat]
  /\ worker \in Calls \cup {NoCall}
  /\ stage \in {"none", "find", "start", "run", "finish", "unseen"}
  /\ crashes \in 0..MaxCrashes
  /\ restarts \in 0..MaxRestarts
  /\ faults \in 0..MaxFaults

Init ==
  /\ workflow = "ACTIVE"
  /\ pc = [r \in Calls |-> "idle"]
  /\ answer = [r \in Calls |-> "none"]
  /\ execution = [r \in Calls |-> "none"]
  /\ event = [k \in Keys |-> "none"]
  /\ job = [r \in Calls |-> "none"]
  /\ stalls = [r \in Calls |-> 0]
  /\ runs = [r \in Calls |-> 0]
  /\ worker = NoCall
  /\ stage = "none"
  /\ crashes = 0
  /\ restarts = 0
  /\ faults = 0

-----------------------------------------------------------------------------
(* The API side of a call.                                                 *)

Finish(r, verdict) ==
  /\ pc' = [pc EXCEPT ![r] = "done"]
  /\ answer' = [answer EXCEPT ![r] = verdict]

Goto(r, place) ==
  /\ pc' = [pc EXCEPT ![r] = place]
  /\ UNCHANGED answer

\* A call to the database or to Redis fails.
Fault ==
  /\ faults < MaxFaults
  /\ faults' = faults + 1
  /\ UNCHANGED <<crashes, restarts>>

-----------------------------------------------------------------------------
(* Mutations: plausible slips in the code, one per property.  The           *)
(* specification uses none of them.                                        *)

\* The transaction without skipDuplicates' count.
CreateWithoutDedupe(r) ==
  /\ pc[r] = "checked"
  /\ workflow # "deleted"
  /\ execution' = [execution EXCEPT ![r] = "PENDING"]
  /\ event' = IF Keyed(r) THEN [event EXCEPT ![Key(r)] = "unprocessed"]
                          ELSE event
  /\ Goto(r, "committed")
  /\ UNCHANGED <<workflow, jobVars, workerVars, faultVars>>

\* A retry that resets the failed execution beside creating its own.
CreateResetsFailed(r) ==
  /\ pc[r] = "checked"
  /\ workflow # "deleted"
  /\ Keyed(r) => event[Key(r)] = "none"
  /\ execution' = [q \in Calls |->
       IF q = r \/ (r \in Retries /\ execution[q] = "FAILED")
         THEN "PENDING" ELSE execution[q]]
  /\ event' = IF Keyed(r) THEN [event EXCEPT ![Key(r)] = "unprocessed"]
                          ELSE event
  /\ Goto(r, "committed")
  /\ UNCHANGED <<workflow, jobVars, workerVars, faultVars>>

\* The error of queue.add is logged and swallowed.
EnqueueFailsSilently(r) ==
  /\ pc[r] = "committed"
  /\ Fault
  /\ job' \in {job, [job EXCEPT ![r] = "waiting"]}
  /\ Finish(r, "created")
  /\ UNCHANGED <<workflow, execution, event, stalls, workerVars>>

\* The clean-up forgets triggerEventCreated.
CleanupKeepsEvent(r) ==
  /\ pc[r] = "cleaning"
  /\ Present(r)
  /\ execution' = [execution EXCEPT ![r] = "deleted"]
  /\ Finish(r, "error")
  /\ UNCHANGED <<workflow, event, jobVars, workerVars, faultVars>>

\* Nothing catches a clean-up whose row is gone.
CleanupFailsByFault(r) ==
  /\ pc[r] = "cleaning"
  /\ Finish(r, "error")
  /\ Fault
  /\ UNCHANGED <<workflow, execution, event, jobVars, workerVars>>

\* The job options ask for a second attempt after a failure.
CompleteWithAttempts(r) ==
  /\ worker = r
  /\ stage = "finish"
  /\ Present(r)
  /\ \E outcome \in Terminal :
       /\ execution' = [execution EXCEPT ![r] = outcome]
       /\ job' = [job EXCEPT ![r] = IF outcome = "FAILED" THEN "waiting"
                                                        ELSE "completed"]
  /\ worker' = NoCall
  /\ stage' = "none"
  /\ UNCHANGED <<workflow, callVars, event, stalls, runs, faultVars>>

\* Deliveries of an execution that is not PENDING are taken for duplicates.
FindPendingOnly(r) ==
  /\ worker = r
  /\ stage = "find"
  /\ IF execution[r] = "PENDING"
       THEN stage' = "start" /\ UNCHANGED <<job, worker>>
       ELSE /\ job' = [job EXCEPT ![r] = "completed"]
            /\ worker' = NoCall
            /\ stage' = "none"
  /\ UNCHANGED <<workflow, callVars, execution, event, stalls, runs, faultVars>>

-----------------------------------------------------------------------------
(* The steps of a call.                                                    *)

\* retryExecution retries an execution that is FAILED when it is read.
Retriable == \E failed \in Calls : execution[failed] = "FAILED"

\* A trigger accepts only an ACTIVE workflow, a manual run any that exists.
Admissible(r) ==
  CASE r \in Manual  -> workflow # "deleted"
    [] r \in Retries -> Retriable
    [] OTHER         -> workflow = "ACTIVE"

Receive(r) ==
  /\ pc[r] = "idle"
  /\ Admissible(r)
  /\ Goto(r, "checked")
  /\ UNCHANGED <<workflow, execution, event, jobVars, workerVars, faultVars>>

Reject(r) ==
  /\ pc[r] = "idle"
  /\ ~ Admissible(r)
  /\ Finish(r, "rejected")
  /\ UNCHANGED <<workflow, execution, event, jobVars, workerVars, faultVars>>

\* The transaction of startExecution, and the single insert of
\* retryExecution.  The workflow's status is not read again here.
Create(r) ==
  /\ pc[r] = "checked"
  /\ workflow # "deleted"
  /\ Keyed(r) => event[Key(r)] = "none"
  /\ execution' = [execution EXCEPT ![r] = "PENDING"]
  /\ event' = IF Keyed(r) THEN [event EXCEPT ![Key(r)] = "unprocessed"]
                          ELSE event
  /\ Goto(r, "committed")
  /\ UNCHANGED <<workflow, jobVars, workerVars, faultVars>>

Duplicate(r) ==
  /\ pc[r] = "checked"
  /\ workflow # "deleted"
  /\ Keyed(r)
  /\ event[Key(r)] # "none"
  /\ Finish(r, "duplicate")
  /\ UNCHANGED <<workflow, execution, event, jobVars, workerVars, faultVars>>

\* The workflow is gone, or the database rejects the transaction.
CreateFails(r) ==
  /\ pc[r] = "checked"
  /\ Finish(r, "error")
  /\ (workflow = "deleted" /\ UNCHANGED faultVars) \/ Fault
  /\ UNCHANGED <<workflow, execution, event, jobVars, workerVars>>

Enqueue(r) ==
  /\ pc[r] = "committed"
  /\ job' = [job EXCEPT ![r] = "waiting"]
  /\ IF Keyed(r) THEN Goto(r, "queued") ELSE Finish(r, "created")
  /\ UNCHANGED <<workflow, execution, event, stalls, workerVars, faultVars>>

\* queue.add throws: the command never reached Redis, or it did and only the
\* reply was lost.  No job id is known, so nothing is removed from the queue.
EnqueueFails(r) ==
  /\ pc[r] = "committed"
  /\ Fault
  /\ job' \in {job, [job EXCEPT ![r] = "waiting"]}
  /\ Goto(r, "cleaning")
  /\ UNCHANGED <<workflow, execution, event, stalls, workerVars>>

MarkProcessed(r) ==
  /\ pc[r] = "queued"
  /\ event[Key(r)] # "none"
  /\ event' = [event EXCEPT ![Key(r)] = "processed"]
  /\ Finish(r, "created")
  /\ UNCHANGED <<workflow, execution, jobVars, workerVars, faultVars>>

\* The row is gone (count 0) or the update itself fails.
MarkProcessedFails(r) ==
  /\ pc[r] = "queued"
  /\ Goto(r, "removing")
  /\ (event[Key(r)] = "none" /\ UNCHANGED faultVars) \/ Fault
  /\ UNCHANGED <<workflow, execution, event, jobVars, workerVars>>

\* job.remove() refuses only a job whose lock a worker holds.
RemoveJob(r) ==
  /\ pc[r] = "removing"
  /\ job[r] # "active"
  /\ job' = [job EXCEPT ![r] = "removed"]
  /\ Goto(r, "cleaning")
  /\ UNCHANGED <<workflow, execution, event, stalls, workerVars, faultVars>>

\* job.remove() throws inside the catch block: the clean-up is skipped.
RemoveJobFails(r) ==
  /\ pc[r] = "removing"
  /\ Finish(r, "error")
  /\ (job[r] = "active" /\ UNCHANGED faultVars) \/ Fault
  /\ UNCHANGED <<workflow, execution, event, jobVars, workerVars>>

Cleanup(r) ==
  /\ pc[r] = "cleaning"
  /\ Present(r)
  /\ execution' = [execution EXCEPT ![r] = "deleted"]
  /\ event' = IF Keyed(r) THEN [event EXCEPT ![Key(r)] = "none"] ELSE event
  /\ Finish(r, "error")
  /\ UNCHANGED <<workflow, jobVars, workerVars, faultVars>>

\* The row was already gone, or the database fails: both deletes roll back.
CleanupFails(r) ==
  /\ pc[r] = "cleaning"
  /\ Finish(r, "error")
  /\ (~ Present(r) /\ UNCHANGED faultVars) \/ Fault
  /\ UNCHANGED <<workflow, execution, event, jobVars, workerVars>>

CallStep(r) ==
  \/ Receive(r)
  \/ Reject(r)
  \/ Create(r)
  \/ Duplicate(r)
  \/ CreateFails(r)
  \/ Enqueue(r)
  \/ EnqueueFails(r)
  \/ MarkProcessed(r)
  \/ MarkProcessedFails(r)
  \/ RemoveJob(r)
  \/ RemoveJobFails(r)
  \/ Cleanup(r)
  \/ CleanupFails(r)

-----------------------------------------------------------------------------
(* The worker process: one job at a time.                                  *)

Settle(r, state) ==
  /\ job' = [job EXCEPT ![r] = state]
  /\ worker' = NoCall
  /\ stage' = "none"

Take(r) ==
  /\ worker = NoCall
  /\ job[r] = "waiting"
  /\ job' = [job EXCEPT ![r] = "active"]
  /\ worker' = r
  /\ stage' = "find"
  /\ UNCHANGED <<workflow, callVars, execution, event, stalls, runs, faultVars>>

\* findUnique: an execution that is gone ends the job quietly.
Find(r) ==
  /\ worker = r
  /\ stage = "find"
  /\ IF Present(r)
       THEN stage' = "start" /\ UNCHANGED <<job, worker>>
       ELSE Settle(r, "completed")
  /\ UNCHANGED <<workflow, callVars, execution, event, stalls, runs, faultVars>>

\* status := RUNNING whatever it was; a row deleted since makes it throw.
Start(r) ==
  /\ worker = r
  /\ stage = "start"
  /\ IF Present(r)
       THEN /\ execution' = [execution EXCEPT ![r] = "RUNNING"]
            /\ stage' = "run"
            /\ UNCHANGED <<job, worker>>
       ELSE Settle(r, "failed") /\ UNCHANGED execution
  /\ UNCHANGED <<workflow, callVars, event, stalls, runs, faultVars>>

\* The actions of the chain; the first step log needs the execution's row.
Run(r) ==
  /\ worker = r
  /\ stage = "run"
  /\ IF Present(r)
       THEN /\ runs' = [runs EXCEPT ![r] = @ + 1]
            /\ stage' = "finish"
            /\ UNCHANGED <<job, worker>>
       ELSE Settle(r, "failed") /\ UNCHANGED runs
  /\ UNCHANGED <<workflow, callVars, execution, event, stalls, faultVars>>

\* What the last write of execute() may leave: over a SUCCESS whose reply was
\* lost, its catch block writes FAILED.
Outcomes ==
  CASE stage = "finish" -> Terminal
    [] stage = "unseen" -> {"FAILED"}
    [] OTHER            -> {}

Complete(r) ==
  /\ worker = r
  /\ stage \in {"finish", "unseen"}
  /\ IF Present(r)
       THEN /\ \E outcome \in Outcomes :
                 execution' = [execution EXCEPT ![r] = outcome]
            /\ Settle(r, "completed")
       ELSE Settle(r, "failed") /\ UNCHANGED execution
  /\ UNCHANGED <<workflow, callVars, event, stalls, runs, faultVars>>

\* A call to the database fails outside execute()'s try block (find, start),
\* or the last write and then markExecutionFailed do: the job fails, and the
\* execution keeps the status it has, or only the reply was lost.  A failure
\* inside the chain only makes the outcome FAILED, which Complete covers.
WorkerFault(r) ==
  /\ worker = r
  /\ stage # "run"
  /\ Fault
  /\ \/ UNCHANGED execution
     \/ stage = "start" /\ Present(r) /\ execution' = [execution EXCEPT ![r] = "RUNNING"]
     \/ Outcomes # {} /\ Present(r) /\ execution' = [execution EXCEPT ![r] = "FAILED"]
  /\ Settle(r, "failed")
  /\ UNCHANGED <<workflow, callVars, event, stalls, runs>>

\* SUCCESS is written and the reply is lost: execute() goes to its catch block.
SuccessUnseen(r) ==
  /\ worker = r
  /\ stage = "finish"
  /\ Present(r)
  /\ Fault
  /\ execution' = [execution EXCEPT ![r] = "SUCCESS"]
  /\ stage' = "unseen"
  /\ UNCHANGED <<workflow, callVars, event, jobVars, worker, runs>>

\* The process dies and is restarted.  It may die between the last write of
\* execute() and the acknowledgement of the job.
WorkerCrash(r) ==
  /\ crashes < MaxCrashes
  /\ worker = r
  /\ \/ UNCHANGED execution
     \/ /\ Present(r)
        /\ \E outcome \in Outcomes :
             execution' = [execution EXCEPT ![r] = outcome]
  /\ Settle(r, "stalled")
  /\ crashes' = crashes + 1
  /\ UNCHANGED <<workflow, callVars, event, stalls, runs, restarts,
                 faults>>

\* BullMQ finds an active job without a lock.
RecoverStalled(r) ==
  /\ job[r] = "stalled"
  /\ IF stalls[r] < MaxStalledCount
       THEN /\ job' = [job EXCEPT ![r] = "waiting"]
            /\ stalls' = [stalls EXCEPT ![r] = @ + 1]
       ELSE /\ job' = [job EXCEPT ![r] = "failed"]
            /\ UNCHANGED stalls
  /\ UNCHANGED <<workflow, callVars, execution, event, workerVars, faultVars>>

WorkerStep(r) ==
  \/ Take(r)
  \/ Find(r)
  \/ Start(r)
  \/ Run(r)
  \/ Complete(r)

-----------------------------------------------------------------------------
(* The workflow's owner, and the death of the api process.                 *)

ChangeStatus ==
  /\ workflow # "deleted"
  /\ workflow' = IF workflow = "ACTIVE" THEN "PAUSED" ELSE "ACTIVE"
  /\ UNCHANGED <<callVars, execution, event, jobVars, workerVars, faultVars>>

\* Every row of the workflow goes with it (onDelete: Cascade).
DeleteWorkflow ==
  /\ workflow # "deleted"
  /\ workflow' = "deleted"
  /\ execution' = [r \in Calls |-> IF Present(r) THEN "deleted"
                                                 ELSE execution[r]]
  /\ event' = [k \in Keys |-> "none"]
  /\ UNCHANGED <<callVars, jobVars, workerVars, faultVars>>

ApiCrash ==
  /\ restarts < MaxRestarts
  /\ \E r \in Calls : pc[r] \in InProgress
  /\ restarts' = restarts + 1
  /\ pc' = [r \in Calls |-> IF pc[r] \in InProgress THEN "done" ELSE pc[r]]
  /\ answer' = [r \in Calls |-> IF pc[r] \in InProgress THEN "lost"
                                                       ELSE answer[r]]
  /\ UNCHANGED <<workflow, execution, event, jobVars, workerVars, crashes,
                 faults>>

Next ==
  \/ \E r \in Calls :
       \/ CallStep(r)
       \/ WorkerStep(r)
       \/ WorkerFault(r)
       \/ SuccessUnseen(r)
       \/ WorkerCrash(r)
       \/ RecoverStalled(r)
  \/ ChangeStatus
  \/ DeleteWorkflow
  \/ ApiCrash

Spec == Init /\ [][Next]_vars

\* A call in flight goes on, the worker works, the stalled check repeats:
\* timers and sockets of live processes.  Neither the owner nor a crash is
\* ever owed, and no sender has to post.
Fairness ==
  \A r \in Calls :
    /\ WF_vars(pc[r] # "idle" /\ CallStep(r))
    /\ WF_vars(WorkerStep(r))
    /\ WF_vars(RecoverStalled(r))

FairSpec == Spec /\ Fairness

-----------------------------------------------------------------------------
(* What the intake promises its senders, and how its rows show it.         *)

\* The call whose execution is in the database under key k.
Holds(rows, r, k) == Key(r) = k /\ rows[r] \in Statuses

OwnerIn(rows) ==
  [k \in Keys |->
     IF \E r \in Calls : Holds(rows, r, k)
       THEN CHOOSE r \in Calls : Holds(rows, r, k)
       ELSE NoCall]

Owner == OwnerIn(execution)

Promise == INSTANCE IdempotentIntake
             WITH open <- workflow # "deleted", owner <- Owner,
                  verdict <- answer

\* The rows, the queue and the compensating clean-up implement the registry
\* of keys that IdempotentIntake describes.
KeepsPromise == Promise!Spec

-----------------------------------------------------------------------------
(* Properties.                                                             *)

\* No interleaving of posts, clean-ups, crashes and deletions lets two
\* executions of one idempotency key be in the database at once
\* (startExecution, DEC-005).
OneExecutionPerKey ==
  \A q, r \in Calls :
    Keyed(q) /\ Key(q) = Key(r) /\ Present(q) /\ Present(r) => q = r

\* A TriggerEvent row and an execution of its key appear and vanish together:
\* no key is taken without an execution, none is free while one exists
\* (the two transactions of startExecution and cleanupFailedEnqueue).
EventIffExecution ==
  \A k \in Keys :
    event[k] # "none" <=> \E r \in Calls : Key(r) = k /\ Present(r)

\* A key that is taken has one execution, and has it as long as it is taken.
KeyHasItsExecution == OneExecutionPerKey /\ EventIffExecution

\* What "202 accepted" promises: unless the owner deleted the workflow, the
\* execution is in the database, its job reached the queue and was not
\* removed again, and the key is marked processed, so that no later call can
\* start it a second time.
CreatedIsKept ==
  \A r \in Calls :
    answer[r] = "created" /\ workflow # "deleted" =>
      /\ Present(r)
      /\ job[r] \notin {"none", "removed"}
      /\ Keyed(r) => event[Key(r)] = "processed"

\* The chain of one execution is run again only when BullMQ redelivers its
\* job after a worker died, so at most 1 + MaxStalledCount times.
RerunOnlyAfterStall == \A r \in Calls : runs[r] <= 1 + stalls[r]

\* Two executions of one key that both ran mean that the caller of one of
\* them was told its post had failed: the api compensated after the worker
\* was already through.
DoubleRunWasReported ==
  \A q, r \in Calls :
    q # r /\ Keyed(q) /\ Key(q) = Key(r) /\ runs[q] > 0 /\ runs[r] > 0
      => "error" \in {answer[q], answer[r]}

\* Whenever actions run more often than once, for one execution or for one key,
\* a worker had died or a caller was told of an error.
RunsAreAccounted == RerunOnlyAfterStall /\ DoubleRunWasReported

\* An execution leaves SUCCESS or FAILED only for a redelivered job, or with
\* its row, or as a SUCCESS that the worker, its reply lost, takes for a failure.
TerminalLeftOnlyByRedelivery ==
  [][\A r \in Calls :
       execution[r] \in Terminal /\ execution'[r] # execution[r] =>
         \/ execution'[r] = "deleted"
         \/ stalls[r] > 0
         \/ /\ worker = r /\ faults > 0
            /\ execution[r] = "SUCCESS" /\ execution'[r] = "FAILED"]_vars

\* Every accepted post is eventually through with the worker for good, as
\* long as the worker does not crash more often than BullMQ redelivers; only
\* a database that fails the worker can leave it PENDING or RUNNING.
AcceptedRunsToEnd ==
  \A r \in Calls :
    answer[r] = "created" ~>
      []\/ execution[r] \in Terminal \cup {"deleted"}
        \/ job[r] = "failed" /\ faults > 0

\* Every call that is being served is answered, or dies with the api.
EveryCallEnds == \A r \in Calls : pc[r] \in InProgress ~> pc[r] = "done"

\* test-checklist.md: a second POST with the same Idempotency-Key is a no-op.
\* Stated of effects: the actions of one key are run by one execution only.
EffectsOncePerKey ==
  \A q, r \in Calls :
    q # r /\ Keyed(q) /\ Key(q) = Key(r) => ~ (runs[q] > 0 /\ runs[r] > 0)
=============================================================================
