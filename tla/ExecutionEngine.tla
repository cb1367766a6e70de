--------------------------- MODULE ExecutionEngine ---------------------------
(***************************************************************************)
(* One workflow execution in the worker: ExecutionEngine.execute, its step *)
(* logs (LogService), the retries and timeouts around each action, and the *)
(* deliveries of its BullMQ job.  ExecutionIntake sees this module as the  *)
(* four steps Find, Start, Run and Complete.                               *)
(*                                                                         *)
(* Every await is a step.  Each write to the database may fail, or be      *)
(* applied and its reply be lost; a write to an execution that was deleted *)
(* with its workflow fails.  An invocation of an action is named by its   *)
(* delivery, step and attempt; what it returns is represented by that      *)
(* name, so that a step log shows where its data came from.                *)
(***************************************************************************)
EXTENDS Naturals

CONSTANTS
  N,                \* length of the action chain in the snapshot
  RetryCount,       \* retryCount of each step
  Timed,            \* the steps that have a timeoutMs
  TriggerData,      \* the payload of the trigger
  NoData,           \* a JSON column that is null
  MaxStalledCount,  \* BullMQ: redeliveries of a job whose lock expired
  MaxCrashes,       \* bound: crashes of the worker process
  MaxFaults         \* bound: database calls that fail

Steps      == 1..N
Deliveries == 0..MaxStalledCount
Attempts   == {t \in Deliveries \X Steps \X Nat : t[3] <= RetryCount[t[2]]}
Data       == Attempts \cup {TriggerData, NoData}

ASSUME EngineAssumption ==
  /\ N \in Nat \ {0}
  /\ RetryCount \in [1..N -> Nat]
  /\ Timed \subseteq 1..N
  /\ TriggerData # NoData
  /\ TriggerData \notin Attempts
  /\ NoData \notin Attempts
  /\ MaxStalledCount \in Nat
  /\ MaxCrashes \in Nat
  /\ MaxFaults \in Nat

VARIABLES
  linear,     \* ChainResolver accepts the definition snapshot
  status,     \* WorkflowExecution.status, or "deleted"
  job,        \* the BullMQ job
  delivery,   \* redeliveries of the job so far
  pc,         \* the await that execute() is at
  step,       \* position in the chain
  attempt,    \* attempt at that step
  context,    \* dataContext: the input of the step
  result,     \* outputData of the step, or NoData
  retry,      \* retryAttempt of the caught error
  log,        \* the ExecutionStepLog rows of each delivery
  called,     \* invocations of actions so far (history)
  inflight,   \* those whose promise is still pending
  answered,   \* those that returned while they were awaited (history)
  crashes,    \* worker crashes so far
  faults      \* failed database calls so far

rowVars    == <<linear, status, log>>
jobVars    == <<job, delivery>>
localVars  == <<step, attempt, context, result, retry>>
actionVars == <<called, inflight, answered>>
vars == <<linear, status, job, delivery, pc, step, attempt, context, result,
          retry, log, called, inflight, answered, crashes, faults>>

Statuses == {"PENDING", "RUNNING", "SUCCESS", "FAILED"}
Terminal == {"SUCCESS", "FAILED"}
Rows     == [status : {"none", "RUNNING", "SUCCESS", "FAILED"},
             input : Data, output : Data, retry : Nat]
NoRow    == [status |-> "none", input |-> NoData, output |-> NoData,
             retry |-> 0]
Current  == <<delivery, step, attempt>>

TypeOK ==
  /\ linear \in BOOLEAN
  /\ status \in Statuses \cup {"deleted"}
  /\ job \in {"waiting", "active", "stalled", "completed", "failed"}
  /\ delivery \in Deliveries
  /\ pc \in {"idle", "find", "start", "resolve", "open", "credentials",
             "call", "wait", "backoff", "store", "stepFailed", "fail",
             "succeed", "giveUp", "ack"}
  /\ step \in Steps
  /\ attempt \in 0..RetryCount[step]
  /\ context \in Data
  /\ result \in Data
  /\ retry \in Nat
  /\ log \in [Deliveries -> [Steps -> Rows]]
  /\ called \in SUBSET Attempts
  /\ inflight \in SUBSET Attempts
  /\ answered \in SUBSET Attempts
  /\ crashes \in 0..MaxCrashes
  /\ faults \in 0..MaxFaults

Init ==
  /\ linear \in BOOLEAN
  /\ status = "PENDING"
  /\ job = "waiting"
  /\ delivery = 0
  /\ pc = "idle"
  /\ step = 1
  /\ attempt = 0
  /\ context = NoData
  /\ result = NoData
  /\ retry = 0
  /\ log = [d \in Deliveries |-> [s \in Steps |-> NoRow]]
  /\ called = {}
  /\ inflight = {}
  /\ answered = {}
  /\ crashes = 0
  /\ faults = 0

-----------------------------------------------------------------------------
(* Database calls.                                                         *)

Fault ==
  /\ faults < MaxFaults
  /\ faults' = faults + 1

\* A write is rejected: its row is gone, or the database fails.
WriteFails == (status = "deleted" /\ UNCHANGED faults) \/ Fault

Goto(place) == pc' = place /\ UNCHANGED jobVars

EndJob(state) ==
  /\ pc' = "idle"
  /\ job' = state
  /\ UNCHANGED delivery

\* The writes: to the row of the current step, and to the execution.
RowOpens ==
  /\ log' = [log EXCEPT ![delivery][step] =
               [NoRow EXCEPT !.status = "RUNNING", !.input = context]]
  /\ UNCHANGED status

RowSucceeds ==
  /\ log' = [log EXCEPT ![delivery][step] =
               [@ EXCEPT !.status = "SUCCESS", !.output = result]]
  /\ UNCHANGED status

RowFails ==
  /\ log' = [log EXCEPT ![delivery][step] =
               [@ EXCEPT !.status = "FAILED", !.retry = retry]]
  /\ UNCHANGED status

Becomes(value) == status' = value /\ UNCHANGED log

-----------------------------------------------------------------------------
(* Mutations: plausible slips in the code, one per property.  The           *)
(* specification uses none of them.                                        *)

\* loadCredentials stands before the step's try block.
CredentialsFailOutside ==
  /\ pc = "credentials"
  /\ Goto("giveUp")
  /\ retry' = 0
  /\ UNCHANGED <<rowVars, step, attempt, context, result, actionVars, crashes,
                 faults>>

\* attempt > retryCount.
NextAttemptTooMany ==
  IF attempt > RetryCount[step]
    THEN /\ Goto("stepFailed")
         /\ retry' = attempt
         /\ UNCHANGED attempt
    ELSE /\ Goto("backoff")
         /\ attempt' = attempt + 1
         /\ UNCHANGED retry

\* attempt + 1 >= retryCount.
NextAttemptTooFew ==
  IF attempt + 1 >= RetryCount[step]
    THEN /\ Goto("stepFailed")
         /\ retry' = attempt
         /\ UNCHANGED attempt
    ELSE /\ Goto("backoff")
         /\ attempt' = attempt + 1
         /\ UNCHANGED retry

\* The timer resolves the race instead of rejecting it.
TimeoutResolves ==
  /\ pc = "wait"
  /\ step \in Timed
  /\ result' = Current
  /\ Goto("store")
  /\ UNCHANGED <<rowVars, step, attempt, context, retry, actionVars, crashes,
                 faults>>

\* The timer aborts the signal and rejects nothing.
TimeoutOnlyAborts ==
  /\ pc = "wait"
  /\ step \in Timed
  /\ UNCHANGED vars

\* The timeout is taken for an error of the engine, not of the step.
TimeoutEndsExecution ==
  /\ pc = "wait"
  /\ step \in Timed
  /\ Goto("giveUp")
  /\ UNCHANGED <<rowVars, localVars, actionVars, crashes, faults>>

\* The promise logs its own result when it settles.
LateAnswerStores ==
  \E t \in inflight :
    /\ pc = "wait" => t # Current
    /\ inflight' = inflight \ {t}
    /\ log' = IF log[t[1]][t[2]].status = "none" THEN log
              ELSE [log EXCEPT ![t[1]][t[2]].status = "SUCCESS",
                               ![t[1]][t[2]].output = t]
    /\ UNCHANGED <<linear, status, jobVars, pc, localVars, called, answered,
                   crashes, faults>>

\* dataContext is not handed on.
StoreKeepsContext ==
  /\ pc = "store"
  /\ status # "deleted"
  /\ RowSucceeds
  /\ IF step = N
       THEN Goto("succeed") /\ UNCHANGED <<step, attempt>>
       ELSE Goto("open") /\ step' = step + 1 /\ attempt' = 0
  /\ UNCHANGED <<linear, context, result, retry, actionVars, crashes, faults>>

\* The loop ends one step early.
StoreEndsEarly ==
  /\ pc = "store"
  /\ status # "deleted"
  /\ RowSucceeds
  /\ context' = result
  /\ IF step + 1 >= N
       THEN Goto("succeed") /\ UNCHANGED <<step, attempt>>
       ELSE Goto("open") /\ step' = step + 1 /\ attempt' = 0
  /\ UNCHANGED <<linear, result, retry, actionVars, crashes, faults>>

\* A step that ran is passed over when its row cannot be written.
StoreFailsSilently ==
  /\ pc = "store"
  /\ WriteFails
  /\ context' = result
  /\ IF step = N
       THEN Goto("succeed") /\ UNCHANGED <<step, attempt>>
       ELSE Goto("open") /\ step' = step + 1 /\ attempt' = 0
  /\ UNCHANGED <<rowVars, result, retry, actionVars, crashes>>

\* The step's catch block returns without markExecutionFailed.
StepFailedReturns ==
  /\ pc = "stepFailed"
  /\ status # "deleted"
  /\ RowFails
  /\ Goto("ack")
  /\ UNCHANGED <<linear, localVars, actionVars, crashes, faults>>

-----------------------------------------------------------------------------
(* execute() up to the chain.                                              *)

Take ==
  /\ job = "waiting"
  /\ job' = "active"
  /\ pc' = "find"
  /\ UNCHANGED <<rowVars, delivery, localVars, actionVars, crashes, faults>>

Find ==
  /\ pc = "find"
  /\ IF status = "deleted" THEN EndJob("completed") ELSE Goto("start")
  /\ UNCHANGED <<rowVars, localVars, actionVars, crashes, faults>>

\* Whatever the status was: a redelivery starts from SUCCESS or FAILED too.
Start ==
  /\ pc = "start"
  /\ status # "deleted"
  /\ Becomes("RUNNING")
  /\ Goto("resolve")
  /\ UNCHANGED <<linear, localVars, actionVars, crashes, faults>>

\* Both calls are made before the try block: an error is the job's error.
FindOrStartFails ==
  /\ \/ pc = "find" /\ Fault
     \/ pc = "start" /\ WriteFails
  /\ EndJob("failed")
  /\ UNCHANGED <<rowVars, localVars, actionVars, crashes>>

Resolve ==
  /\ pc = "resolve"
  /\ step' = 1
  /\ attempt' = 0
  /\ context' = TriggerData
  /\ result' = NoData
  /\ retry' = 0
  /\ Goto(IF linear THEN "open" ELSE "giveUp")
  /\ UNCHANGED <<rowVars, actionVars, crashes, faults>>

-----------------------------------------------------------------------------
(* One step of the chain.                                                  *)

OpenLog ==
  /\ pc = "open"
  /\ status # "deleted"
  /\ RowOpens
  /\ Goto("credentials")
  /\ UNCHANGED <<linear, localVars, actionVars, crashes, faults>>

\* createStepLog is outside the step's own try block.
OpenLogFails ==
  /\ pc = "open"
  /\ WriteFails
  /\ Goto("giveUp")
  /\ UNCHANGED <<rowVars, localVars, actionVars, crashes>>

LoadCredentials ==
  /\ pc = "credentials"
  /\ Goto("call")
  /\ attempt' = 0
  /\ UNCHANGED <<rowVars, step, context, result, retry, actionVars, crashes,
                 faults>>

\* The connection was deleted, or its credentials do not decrypt.
CredentialsFail ==
  /\ pc = "credentials"
  /\ Goto("stepFailed")
  /\ retry' = 0
  /\ UNCHANGED <<rowVars, step, attempt, context, result, actionVars, crashes,
                 faults>>

Call ==
  /\ pc = "call"
  /\ called' = called \cup {Current}
  /\ inflight' = inflight \cup {Current}
  /\ Goto("wait")
  /\ UNCHANGED <<rowVars, localVars, answered, crashes, faults>>

Answer ==
  /\ pc = "wait"
  /\ inflight' = inflight \ {Current}
  /\ answered' = answered \cup {Current}
  /\ result' = Current
  /\ Goto("store")
  /\ UNCHANGED <<rowVars, step, attempt, context, retry, called, crashes,
                 faults>>

\* The catch block of executeActionWithRetry.
NextAttempt ==
  IF attempt >= RetryCount[step]
    THEN /\ Goto("stepFailed")
         /\ retry' = attempt
         /\ UNCHANGED attempt
    ELSE /\ Goto("backoff")
         /\ attempt' = attempt + 1
         /\ UNCHANGED retry

\* The action throws.
AnswerFails ==
  /\ pc = "wait"
  /\ inflight' = inflight \ {Current}
  /\ NextAttempt
  /\ UNCHANGED <<rowVars, step, context, result, called, answered, crashes,
                 faults>>

\* The timer wins Promise.race: the signal is aborted and the promise is
\* left to itself.
Timeout ==
  /\ pc = "wait"
  /\ step \in Timed
  /\ NextAttempt
  /\ UNCHANGED <<rowVars, step, context, result, actionVars, crashes, faults>>

Backoff ==
  /\ pc = "backoff"
  /\ Goto("call")
  /\ UNCHANGED <<rowVars, localVars, actionVars, crashes, faults>>

\* A promise that lost its race settles: nobody looks at it.
LateAnswer ==
  \E t \in inflight :
    /\ pc = "wait" => t # Current
    /\ inflight' = inflight \ {t}
    /\ UNCHANGED <<rowVars, jobVars, pc, localVars, called, answered, crashes,
                   faults>>

Store ==
  /\ pc = "store"
  /\ status # "deleted"
  /\ RowSucceeds
  /\ context' = result
  /\ IF step = N
       THEN Goto("succeed") /\ UNCHANGED <<step, attempt>>
       ELSE Goto("open") /\ step' = step + 1 /\ attempt' = 0
  /\ UNCHANGED <<linear, result, retry, actionVars, crashes, faults>>

\* markStepSuccess throws inside the step's try block: its action is through,
\* but the step counts as failed at attempt 0.  It throws without a fault for
\* an output that is no JSON value, as a member that is undefined makes it.
StoreFails ==
  /\ pc = "store"
  /\ WriteFails \/ UNCHANGED faults
  /\ Goto("stepFailed")
  /\ retry' = 0
  /\ UNCHANGED <<rowVars, step, attempt, context, result, actionVars, crashes>>

StepFailed ==
  /\ pc = "stepFailed"
  /\ status # "deleted"
  /\ RowFails
  /\ Goto("fail")
  /\ UNCHANGED <<linear, localVars, actionVars, crashes, faults>>

\* markStepFailed and the first markExecutionFailed are inside the outer try.
StepFailedFails ==
  /\ pc \in {"stepFailed", "fail"}
  /\ WriteFails
  /\ Goto("giveUp")
  /\ UNCHANGED <<rowVars, localVars, actionVars, crashes>>

-----------------------------------------------------------------------------
(* The end of an execution.                                                *)

\* markExecutionFailed, from the step's catch block or from the outer one.
MarkFailed ==
  /\ pc \in {"fail", "giveUp"}
  /\ status # "deleted"
  /\ Becomes("FAILED")
  /\ Goto("ack")
  /\ UNCHANGED <<linear, localVars, actionVars, crashes, faults>>

GiveUpFails ==
  /\ pc = "giveUp"
  /\ WriteFails
  /\ EndJob("failed")
  /\ UNCHANGED <<rowVars, localVars, actionVars, crashes>>

Succeed ==
  /\ pc = "succeed"
  /\ status # "deleted"
  /\ Becomes("SUCCESS")
  /\ Goto("ack")
  /\ UNCHANGED <<linear, localVars, actionVars, crashes, faults>>

SucceedFails ==
  /\ pc = "succeed"
  /\ WriteFails
  /\ Goto("giveUp")
  /\ UNCHANGED <<rowVars, localVars, actionVars, crashes>>

Acknowledge ==
  /\ pc = "ack"
  /\ EndJob("completed")
  /\ UNCHANGED <<rowVars, localVars, actionVars, crashes, faults>>

\* A write is applied and its reply is lost: execute() takes it for failed.  A
\* step, or the whole execution, that is SUCCESS in the database is then FAILED.
ReplyLost ==
  /\ status # "deleted"
  /\ Fault
  /\ \/ pc = "start"      /\ Becomes("RUNNING") /\ EndJob("failed")   /\ UNCHANGED retry
     \/ pc = "open"       /\ RowOpens           /\ Goto("giveUp")     /\ UNCHANGED retry
     \/ pc = "store"      /\ RowSucceeds        /\ Goto("stepFailed") /\ retry' = 0
     \/ pc = "stepFailed" /\ RowFails           /\ Goto("giveUp")     /\ UNCHANGED retry
     \/ pc = "fail"       /\ Becomes("FAILED")  /\ Goto("giveUp")     /\ UNCHANGED retry
     \/ pc = "giveUp"     /\ Becomes("FAILED")  /\ EndJob("failed")   /\ UNCHANGED retry
     \/ pc = "succeed"    /\ Becomes("SUCCESS") /\ Goto("giveUp")     /\ UNCHANGED retry
  /\ UNCHANGED <<linear, step, attempt, context, result, actionVars, crashes>>

-----------------------------------------------------------------------------
(* The surroundings.                                                       *)

\* The process dies, and the promises with it.
Crash ==
  /\ pc # "idle"
  /\ crashes < MaxCrashes
  /\ crashes' = crashes + 1
  /\ EndJob("stalled")
  /\ inflight' = {}
  /\ UNCHANGED <<rowVars, localVars, called, answered, faults>>

RecoverStalled ==
  /\ job = "stalled"
  /\ IF delivery < MaxStalledCount
       THEN job' = "waiting" /\ delivery' = delivery + 1
       ELSE job' = "failed" /\ UNCHANGED delivery
  /\ UNCHANGED <<rowVars, pc, localVars, actionVars, crashes, faults>>

\* The workflow is deleted, its executions and their step logs with it.
Delete ==
  /\ status # "deleted"
  /\ status' = "deleted"
  /\ log' = [d \in Deliveries |-> [s \in Steps |-> NoRow]]
  /\ UNCHANGED <<linear, jobVars, pc, localVars, actionVars, crashes, faults>>

\* What the engine does by itself; actions answer when they please.
EngineStep ==
  \/ Take
  \/ Find
  \/ Start
  \/ FindOrStartFails
  \/ Resolve
  \/ OpenLog
  \/ OpenLogFails
  \/ LoadCredentials
  \/ CredentialsFail
  \/ Call
  \/ Timeout
  \/ Backoff
  \/ Store
  \/ StoreFails
  \/ StepFailed
  \/ StepFailedFails
  \/ MarkFailed
  \/ GiveUpFails
  \/ Succeed
  \/ SucceedFails
  \/ Acknowledge
  \/ ReplyLost
  \/ RecoverStalled

Environment ==
  \/ Answer
  \/ AnswerFails
  \/ LateAnswer
  \/ Crash
  \/ Delete

Next == EngineStep \/ Environment

Spec == Init /\ [][Next]_vars

\* Timers fire, the database answers or fails, BullMQ delivers: the worker
\* process runs.  No action is owed an answer.
FairSpec == Spec /\ WF_vars(EngineStep)

-----------------------------------------------------------------------------
(* The chain, as the rows of the database show it.                         *)

Succeeded(d) == {s \in Steps : log[d][s].status = "SUCCESS"}

\* How far the current delivery has come: not past a step that is SUCCESS in
\* the database and about to be marked FAILED.
Finished ==
  {s \in Succeeded(delivery) : pc = "stepFailed" => s # step}

Progress == INSTANCE ChainRun WITH done <- Finished

\* Retries, timeouts, failing writes and crashes make no step count twice,
\* none be skipped, and no execution succeed before its chain is through.
RunsTheChain == Progress!Spec

InputOf(d, s) == IF s = 1 THEN TriggerData ELSE log[d][s - 1].output

Whole(d) ==
  \A s \in Steps :
    log[d][s].status = "SUCCESS" /\ log[d][s].input = InputOf(d, s)

\* The attempts of a step that were made.
Made(d, s) == {t[3] : t \in {c \in called : c[1] = d /\ c[2] = s}}

-----------------------------------------------------------------------------
(* Properties.                                                             *)

\* SUCCESS is written only when the delivery that writes it has a SUCCESS row
\* for every step, each fed with the output of the one before it; rows of a
\* delivery that died count for nothing (execute()).
SuccessMeansWholeChain ==
  status = "SUCCESS" =>
    \E d \in 0..delivery :
      /\ Whole(d)
      /\ \A e \in (d + 1)..delivery, s \in Steps : log[e][s] = NoRow

\* A step is logged only after its predecessor succeeded, with the very data
\* that its predecessor returned (dataContext).
LogsFollowChain ==
  \A d \in Deliveries, s \in Steps :
    log[d][s].status # "none" =>
      /\ log[d][s].input = InputOf(d, s)
      /\ s > 1 => log[d][s - 1].status = "SUCCESS"

\* The log reads as the chain was run, up to the SUCCESS that crowns it.
LogsTellTheChain == SuccessMeansWholeChain /\ LogsFollowChain

\* The output of a step was returned by the last attempt at that step in that
\* delivery, while the engine awaited it: never by one that timed out and
\* answered late (Promise.race in executeActionWithTimeout).
OutputWasAwaited ==
  \A d \in Deliveries, s \in Steps :
    log[d][s].status = "SUCCESS" =>
      LET t == log[d][s].output IN
        /\ t \in answered
        /\ t[1] = d
        /\ t[2] = s
        /\ \A a \in Made(d, s) : a <= t[3]

\* A step is FAILED before its first attempt, or after all its attempts failed,
\* or because the output of the one that returned, the last one made, could not
\* be stored; retryAttempt counts retries in the second case only
\* (executeActionWithRetry, and the catch block around markStepSuccess).
RetriesExhausted ==
  \A d \in Deliveries, s \in Steps :
    log[d][s].status = "FAILED" =>
      LET returned == {a \in Made(d, s) : <<d, s, a>> \in answered} IN
        \/ Made(d, s) = {} /\ log[d][s].retry = 0
        \/ /\ Made(d, s) = 0..RetryCount[s]
           /\ log[d][s].retry = RetryCount[s]
           /\ returned = {}
        \/ \E a \in 0..RetryCount[s] :
             /\ Made(d, s) = 0..a
             /\ log[d][s].retry = 0
             /\ returned = {a}

\* What the log says of a step is what its attempts came to.
AttemptsAreTold == OutputWasAwaited /\ RetriesExhausted

\* An execution whose job is through is through itself; only failing
\* database calls, or more crashes than BullMQ redelivers, leave it PENDING
\* or RUNNING for ever.
SettledIsTerminal ==
  /\ job = "completed" => status \in Terminal \cup {"deleted"}
  /\ job = "failed" =>
       status = "deleted" \/ faults > 0 \/ crashes > MaxStalledCount

\* While the database works, FAILED has a reason that can be read: a broken
\* snapshot, or a step that failed.
FailedHasReason ==
  status = "FAILED" /\ faults = 0 =>
    ~ linear \/ \E d \in 0..delivery, s \in Steps :
                  log[d][s].status = "FAILED"

\* While the database works, the delivery that completes the job leaves no
\* row RUNNING.
NoRowLeftOpen ==
  job = "completed" /\ faults = 0 =>
    \A s \in Steps : log[delivery][s].status # "RUNNING"

\* What is left when the job has ended says how it ended.
EndIsTold == TypeOK /\ SettledIsTerminal /\ FailedHasReason /\ NoRowLeftOpen

\* A row that a step has finished is never rewritten, by a retry, by a late
\* answer or by a redelivery: it goes only with its workflow.  The exception is
\* the step in hand, whose SUCCESS the engine was not told of: FAILED replaces
\* it, and the output stays.
RowsAreFinal ==
  [][\A d \in Deliveries, s \in Steps :
       log[d][s].status \in Terminal /\ log'[d][s] # log[d][s] =>
         \/ status' = "deleted"
         \/ /\ faults > 0 /\ pc = "stepFailed"
            /\ d = delivery /\ s = step
            /\ log[d][s].status = "SUCCESS"
            /\ log'[d][s] = [log[d][s] EXCEPT !.status = "FAILED", !.retry = 0]]_vars

\* The job of every execution ends, though no action ever answers, unless the
\* worker waits for a step without timeoutMs.
EndsOrHangs ==
  \/ <>[](job \in {"completed", "failed"})
  \/ <>[](pc = "wait" /\ step \notin Timed)

=============================================================================
