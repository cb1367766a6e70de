------------------------ MODULE ExecutionEngineProofs ------------------------
(***************************************************************************)
(* Proofs, for chains of any length with any retries and timeouts, and for *)
(* any number of redeliveries, crashes and failing database calls, of what *)
(* MCExecutionEngine checks on a chain of two steps.                       *)
(***************************************************************************)
EXTENDS ExecutionEngine, FiniteSetTheorems, WellFoundedInduction, TLAPS

(* The inductive invariant: where execute() is says what it has written.   *)

InLoop == {"open", "credentials", "call", "wait", "backoff", "store", "stepFailed"}

\* No attempt at a step of a delivery has been made, or every one has.
Untried(d, s) == \A a \in Nat : <<d, s, a>> \notin called
Exhausted(d, s) == \A a \in 0..RetryCount[s] : <<d, s, a>> \in called

\* None returned while it was awaited, or the last one did.
Unanswered(d, s) == \A a \in Nat : <<d, s, a>> \notin answered
LastReturned(d, s, a) ==
  /\ \A b \in Nat : <<d, s, b>> \in called <=> b <= a
  /\ \A b \in Nat : <<d, s, b>> \in answered <=> b = a

\* Why a step counts as failed, and the number of retries that goes with it.
GivenUp(d, s, n) ==
  \/ Untried(d, s) /\ n = 0
  \/ Exhausted(d, s) /\ Unanswered(d, s) /\ n = RetryCount[s]
  \/ n = 0 /\ \E a \in 0..RetryCount[s] : LastReturned(d, s, a)

\* A delivery that has not come to its chain.
Untouched(d) == \A s \in Steps : log[d][s] = NoRow /\ Untried(d, s)

\* The job against the worker, the crashes and the status.
JobInv ==
  /\ job = "active" <=> pc # "idle"
  /\ delivery <= crashes /\ (job = "stalled" => delivery < crashes)
  /\ pc \in InLoop \cup {"resolve", "fail", "succeed"} => status \in {"RUNNING", "deleted"}
  /\ pc = "giveUp" => status # "PENDING"
  /\ pc = "ack" => status \in Terminal \cup {"deleted"}
  /\ delivery = 0 /\ (job = "waiting" \/ pc \in {"find", "start"})
       => status \in {"PENDING", "deleted"}

\* What has no rows: a deleted execution, and the deliveries to come.
PastInv ==
  /\ status = "deleted" => \A d \in Deliveries, s \in Steps : log[d][s] = NoRow
  /\ \A d \in Deliveries : delivery < d => Untouched(d)
  /\ job = "waiting" \/ pc \in {"find", "start", "resolve"} => Untouched(delivery)

\* The rows of the delivery in hand while it works through its chain,
LoopInv ==
  pc \in InLoop /\ status # "deleted" =>
    /\ \A s \in Steps : s < step => log[delivery][s].status = "SUCCESS"
    /\ \A s \in Steps : step < s => log[delivery][s] = NoRow
    /\ context = InputOf(delivery, step)
    /\ pc = "open" => log[delivery][step] = NoRow
    /\ pc # "open" => log[delivery][step].input = context
    /\ pc \notin {"open", "stepFailed"} => log[delivery][step].status = "RUNNING"
    /\ pc = "stepFailed" =>
         \/ log[delivery][step].status = "RUNNING"
         \/ log[delivery][step].status = "SUCCESS" /\ retry = 0 /\ faults > 0

\* and when it has left it.
AfterInv ==
  status # "deleted" =>
    /\ pc = "fail" =>
         /\ log[delivery][step].status = "FAILED"
         /\ \A s \in Steps : log[delivery][s].status # "RUNNING"
    /\ pc = "succeed" => \A s \in Steps : log[delivery][s].status = "SUCCESS"
    /\ pc = "giveUp" /\ faults = 0 =>
         ~ linear /\ \A s \in Steps : log[delivery][s] = NoRow
    /\ pc = "ack" /\ faults = 0 =>
         \A s \in Steps : log[delivery][s].status # "RUNNING"

\* The attempts at the current step: those before the current one were made.
CallInv ==
  /\ answered \subseteq called
  /\ pc \in InLoop => \A s \in Steps : step < s => Untried(delivery, s)
  /\ pc \in {"open", "credentials"} => Untried(delivery, step)
  /\ pc \in {"call", "backoff"} =>
       \A a \in Nat : <<delivery, step, a>> \in called <=> a < attempt
  /\ pc = "wait" => \A a \in Nat : <<delivery, step, a>> \in called <=> a <= attempt
  /\ pc \in {"call", "backoff", "wait"} => Unanswered(delivery, step)
  /\ pc = "store" => result = Current /\ LastReturned(delivery, step, attempt)
  /\ pc = "stepFailed" => GivenUp(delivery, step, retry)

\* OutputWasAwaited and RetriesExhausted, by attempts.
AwaitedInv ==
  \A d \in Deliveries, s \in Steps :
    log[d][s].status = "SUCCESS" =>
      LET t == log[d][s].output IN
        /\ t \in answered
        /\ t \in Attempts /\ t[1] = d /\ t[2] = s
        /\ \A a \in Nat : <<d, s, a>> \in called => a <= t[3]

TriedInv ==
  \A d \in Deliveries, s \in Steps :
    log[d][s].status = "FAILED" => GivenUp(d, s, log[d][s].retry)

IInv ==
  /\ TypeOK /\ JobInv /\ PastInv /\ LoopInv /\ AfterInv /\ CallInv
  /\ LogsFollowChain /\ SuccessMeansWholeChain
  /\ AwaitedInv /\ TriedInv
  /\ SettledIsTerminal /\ FailedHasReason /\ NoRowLeftOpen

-----------------------------------------------------------------------------
(* Attempts and rows.                                                      *)

\* An attempt is what its name says.
LEMMA AttemptParts ==
  ASSUME NEW t \in Attempts
  PROVE  /\ t = <<t[1], t[2], t[3]>>
         /\ t[1] \in Deliveries /\ t[2] \in Steps /\ t[3] \in 0..RetryCount[t[2]]
  BY EngineAssumption DEF Attempts, Steps

\* The current attempt is one of those that retryCount allows.
LEMMA CurrentIsAttempt ==
  ASSUME TypeOK
  PROVE  /\ Current \in Attempts
         /\ Current[1] = delivery /\ Current[2] = step /\ Current[3] = attempt
  BY EngineAssumption DEF TypeOK, Attempts, Current, Steps, Deliveries

\* Failures stay within their bound.
LEMMA FaultType == TypeOK /\ (Fault \/ UNCHANGED faults) => faults' \in 0..MaxFaults
  BY EngineAssumption DEF TypeOK, Fault

\* Type correctness of a step.
LEMMA TypeStep == TypeOK /\ [Next]_vars => TypeOK'
<1> SUFFICES ASSUME TypeOK, [Next]_vars PROVE TypeOK'
  OBVIOUS
<1> USE EngineAssumption
<1>0. Current \in Attempts /\ Current \in Data /\ TriggerData \in Data /\ NoData \in Data
  BY CurrentIsAttempt DEF Data
<1>1. ASSUME NextAttempt PROVE attempt' \in 0..RetryCount[step] /\ retry' \in Nat
                               /\ pc' \in {"stepFailed", "backoff"}
  BY <1>1 DEF NextAttempt, TypeOK, Goto, Steps
<1>2. ASSUME NEW x \in Rows
      PROVE  [log EXCEPT ![delivery][step] = x] \in [Deliveries -> [Steps -> Rows]]
  BY DEF TypeOK
<1>3. CASE Take \/ Find \/ Start \/ FindOrStartFails \/ Acknowledge \/ Resolve
  <2>1. CASE Take
    BY <2>1 DEF TypeOK, Take, rowVars, localVars, actionVars
  <2>2. CASE Find
    BY <2>2 DEF TypeOK, Find, Goto, EndJob, rowVars, jobVars, localVars, actionVars
  <2>3. CASE Start
    BY <2>3 DEF TypeOK, Start, Becomes, Goto, jobVars, localVars, actionVars, Statuses
  <2>4. CASE FindOrStartFails
    BY <2>4, FaultType DEF TypeOK, FindOrStartFails, EndJob, WriteFails, rowVars,
       localVars, actionVars
  <2>5. CASE Acknowledge
    BY <2>5 DEF TypeOK, Acknowledge, EndJob, rowVars, localVars, actionVars
  <2>6. CASE Resolve
    BY <1>0, <2>6 DEF TypeOK, Resolve, Goto, rowVars, jobVars, actionVars, Steps
  <2> QED
    BY <1>3, <2>1, <2>2, <2>3, <2>4, <2>5, <2>6
<1>a. /\ [NoRow EXCEPT !.status = "RUNNING", !.input = context] \in Rows
      /\ [log[delivery][step] EXCEPT !.status = "SUCCESS", !.output = result] \in Rows
      /\ [log[delivery][step] EXCEPT !.status = "FAILED", !.retry = retry] \in Rows
  <2>1. NoRow \in Rows /\ log[delivery][step] \in Rows
    BY <1>0 DEF TypeOK, NoRow, Rows
  <2> QED
    BY <2>1 DEF TypeOK, Rows
<1>b. ASSUME RowOpens \/ RowSucceeds \/ RowFails
      PROVE  log' \in [Deliveries -> [Steps -> Rows]] /\ status' = status
  BY <1>a, <1>b, <1>2 DEF RowOpens, RowSucceeds, RowFails
<1>4. CASE OpenLog
  BY <1>4, <1>b DEF TypeOK, OpenLog, Goto, jobVars, localVars, actionVars
<1>5. CASE OpenLogFails \/ LoadCredentials \/ CredentialsFail \/ Backoff \/ StoreFails
             \/ StepFailedFails \/ GiveUpFails \/ SucceedFails
  <2>1. CASE OpenLogFails \/ StepFailedFails \/ SucceedFails
    BY <2>1, FaultType DEF TypeOK, OpenLogFails, StepFailedFails, SucceedFails,
       WriteFails, Goto, rowVars, jobVars, localVars, actionVars
  <2>2. CASE LoadCredentials
    BY <2>2 DEF TypeOK, LoadCredentials, Goto, rowVars, jobVars, actionVars, Steps
  <2>3. CASE CredentialsFail \/ Backoff
    BY <2>3 DEF TypeOK, CredentialsFail, Backoff, Goto, rowVars, jobVars, localVars,
       actionVars
  <2>4. CASE StoreFails
    BY <2>4, FaultType DEF TypeOK, StoreFails, WriteFails, Goto, rowVars, jobVars, actionVars
  <2>5. CASE GiveUpFails
    BY <2>5, FaultType DEF TypeOK, GiveUpFails, WriteFails, EndJob, rowVars, localVars,
       actionVars
  <2> QED
    BY <1>5, <2>1, <2>2, <2>3, <2>4, <2>5
<1>6. CASE Call \/ LateAnswer \/ Delete \/ RecoverStalled
  <2>1. CASE Call
    BY <2>1, <1>0 DEF TypeOK, Call, Goto, rowVars, jobVars, localVars
  <2>2. CASE LateAnswer
    BY <2>2 DEF TypeOK, LateAnswer, rowVars, jobVars, localVars
  <2>3. CASE Delete
    <3>1. NoRow \in Rows
      BY <1>0 DEF NoRow, Rows
    <3> QED
      BY <2>3, <3>1 DEF TypeOK, Delete, jobVars, localVars, actionVars
  <2>4. CASE RecoverStalled
    BY <2>4 DEF TypeOK, RecoverStalled, rowVars, localVars, actionVars, Deliveries
  <2> QED
    BY <1>6, <2>1, <2>2, <2>3, <2>4
<1>7. CASE Answer
  BY <1>7, <1>0 DEF TypeOK, Answer, Goto, rowVars, jobVars
<1>8. CASE AnswerFails
  BY <1>8, <1>0, <1>1 DEF TypeOK, AnswerFails, NextAttempt, Goto, rowVars, jobVars
<1>9. CASE Timeout
  BY <1>9, <1>1 DEF TypeOK, Timeout, NextAttempt, Goto, rowVars, jobVars, actionVars
<1>10. CASE Store
  <2>1. step' \in Steps /\ attempt' \in 0..RetryCount[step']
    BY <1>10 DEF Store, TypeOK, Steps
  <2> QED
    BY <1>10, <1>b, <2>1 DEF TypeOK, Store, Goto, jobVars, actionVars
<1>11. CASE StepFailed
  BY <1>11, <1>b DEF TypeOK, StepFailed, Goto, jobVars, localVars, actionVars
<1>12. CASE MarkFailed \/ Succeed
  BY <1>12 DEF TypeOK, MarkFailed, Succeed, Becomes, Goto, jobVars, localVars, actionVars,
     Statuses
<1>13. CASE Crash
  BY <1>13 DEF TypeOK, Crash, EndJob, rowVars, localVars
<1>15. CASE ReplyLost
  <2>1. /\ log' \in [Deliveries -> [Steps -> Rows]] /\ status' \in Statuses \cup {"deleted"}
        /\ retry' \in Nat
    BY <1>15, <1>b DEF TypeOK, ReplyLost, Becomes, Statuses
  <2>2. job' \in {"active", "failed"} \cup {job} /\ delivery' = delivery
        /\ pc' \in {"idle", "giveUp", "stepFailed"}
    BY <1>15 DEF ReplyLost, Goto, EndJob, jobVars
  <2>3. faults' \in 0..MaxFaults
    BY <1>15, FaultType DEF ReplyLost
  <2> QED
    BY <1>15, <2>1, <2>2, <2>3 DEF TypeOK, ReplyLost, actionVars
<1>14. CASE UNCHANGED vars
  BY <1>14 DEF TypeOK, vars
<1> QED
  BY <1>3, <1>4, <1>5, <1>6, <1>7, <1>8, <1>9, <1>10, <1>11, <1>12, <1>13, <1>14,
     <1>15 DEF Next, EngineStep, Environment

-----------------------------------------------------------------------------
(* Each part of the invariant is kept by each action.                      *)

\* Before the first step nothing is written and nothing called.
LEMMA InitInv == Init => IInv
<1> SUFFICES ASSUME Init PROVE IInv
  OBVIOUS
<1> USE EngineAssumption
<1>1. TypeOK
  BY DEF Init, TypeOK, Rows, NoRow, Data, Statuses, Deliveries, Steps
<1>2. JobInv
  BY DEF Init, JobInv, InLoop
<1>3. \A d \in Deliveries, s \in Steps : log[d][s] = NoRow /\ log[d][s].status = "none"
  BY DEF Init, NoRow
<1>4. PastInv /\ LoopInv /\ AfterInv /\ CallInv
  BY <1>3 DEF Init, PastInv, Untouched, Untried, LoopInv, AfterInv, CallInv, InLoop, Deliveries
<1>5. /\ LogsFollowChain /\ SuccessMeansWholeChain /\ AwaitedInv /\ TriedInv
      /\ SettledIsTerminal /\ FailedHasReason /\ NoRowLeftOpen
  BY <1>3 DEF Init, LogsFollowChain, SuccessMeansWholeChain, AwaitedInv, TriedInv,
     SettledIsTerminal, FailedHasReason, NoRowLeftOpen
<1> QED
  BY <1>1, <1>2, <1>4, <1>5 DEF IInv

\* An attempt that failed is followed by another, or its step is given up.
LEMMA NextAttemptGoes ==
  ASSUME TypeOK, NextAttempt
  PROVE  /\ UNCHANGED jobVars
         /\ \/ pc' = "stepFailed" /\ attempt = RetryCount[step] /\ retry' = attempt
               /\ attempt' = attempt
            \/ pc' = "backoff" /\ attempt < RetryCount[step] /\ attempt' = attempt + 1
  BY EngineAssumption DEF NextAttempt, Goto, TypeOK, Steps

\* Each action keeps the place of execute() in step with its job.
LEMMA JobStep == IInv /\ [Next]_vars => JobInv'
<1> SUFFICES ASSUME IInv, [Next]_vars PROVE JobInv'
  OBVIOUS
<1> USE EngineAssumption DEF JobInv, InLoop
<1>1. TypeOK /\ JobInv
  BY DEF IInv
<1>2. CASE Take \/ Find
  BY <1>1, <1>2 DEF TypeOK, Deliveries, Take, Find, Goto, EndJob, rowVars, jobVars
<1>3. CASE Start \/ Resolve
  BY <1>1, <1>3 DEF Start, Resolve, Becomes, Goto, rowVars, jobVars
<1>4. CASE FindOrStartFails \/ GiveUpFails
  BY <1>1, <1>4 DEF FindOrStartFails, GiveUpFails, EndJob, rowVars
<1>5. CASE OpenLog \/ OpenLogFails \/ LoadCredentials \/ CredentialsFail \/ Call \/ Backoff
  BY <1>1, <1>5 DEF OpenLog, OpenLogFails, LoadCredentials, CredentialsFail, Call, Backoff,
     RowOpens, Goto, rowVars, jobVars
<1>6. CASE Timeout \/ AnswerFails
  <2>1. NextAttempt /\ UNCHANGED <<status, crashes>> /\ pc = "wait"
    BY <1>6 DEF Timeout, AnswerFails, rowVars
  <2> QED
    BY <1>1, <2>1, NextAttemptGoes DEF jobVars
<1>7. CASE Answer \/ LateAnswer \/ StoreFails \/ StepFailed \/ StepFailedFails \/ SucceedFails
  BY <1>1, <1>7 DEF Answer, LateAnswer, StoreFails, StepFailed, StepFailedFails,
     SucceedFails, RowFails, Goto, rowVars, jobVars
<1>8. CASE Store
  BY <1>1, <1>8 DEF Store, RowSucceeds, Goto, jobVars
<1>9. CASE MarkFailed \/ Succeed \/ Acknowledge
  BY <1>1, <1>9 DEF MarkFailed, Succeed, Acknowledge, Becomes, Goto, EndJob, Terminal, rowVars, jobVars
<1>10. CASE Crash
  BY <1>1, <1>10 DEF TypeOK, Deliveries, Crash, EndJob, rowVars
<1>11. CASE RecoverStalled
  BY <1>1, <1>11 DEF TypeOK, Deliveries, RecoverStalled, rowVars
<1>12. CASE Delete
  BY <1>1, <1>12 DEF Delete, jobVars
<1>13. CASE UNCHANGED vars
  BY <1>1, <1>13 DEF vars
<1>14. CASE ReplyLost
  BY <1>1, <1>14 DEF ReplyLost, RowOpens, RowSucceeds, RowFails, Becomes, Goto, EndJob, jobVars
<1> QED
  BY <1>2, <1>3, <1>4, <1>5, <1>6, <1>7, <1>8, <1>9, <1>10, <1>11, <1>12, <1>13, <1>14
     DEF Next, EngineStep, Environment

\* What a write to a step's row writes, and that it leaves the others.
LEMMA OpeningWrites ==
  ASSUME TypeOK, RowOpens
  PROVE  /\ log'[delivery][step].status = "RUNNING"
         /\ log'[delivery][step].input = context
         /\ \A d \in Deliveries, s \in Steps :
              d # delivery \/ s # step => log'[d][s] = log[d][s]
<1> DEFINE new == [NoRow EXCEPT !.status = "RUNNING", !.input = context]
<1>1. new.status = "RUNNING" /\ new.input = context
  BY DEF NoRow
<1>2. log' = [log EXCEPT ![delivery][step] = new]
  BY DEF RowOpens
<1> HIDE DEF new
<1>3. log'[delivery][step] = new /\ \A d \in Deliveries, s \in Steps :
              d # delivery \/ s # step => log'[d][s] = log[d][s]
  BY <1>2 DEF TypeOK
<1> QED
  BY <1>1, <1>3

\* A step that succeeds changes its own row only.
LEMMA SucceedingWrites ==
  ASSUME TypeOK, RowSucceeds
  PROVE  /\ log'[delivery][step].status = "SUCCESS"
         /\ log'[delivery][step].input = log[delivery][step].input
         /\ log'[delivery][step].output = result
         /\ \A d \in Deliveries, s \in Steps :
              d # delivery \/ s # step => log'[d][s] = log[d][s]
<1> DEFINE row == log[delivery][step]
           new == [row EXCEPT !.status = "SUCCESS", !.output = result]
<1>1. row \in Rows
  BY DEF TypeOK
<1>2. new.status = "SUCCESS" /\ new.input = row.input /\ new.output = result
  BY <1>1 DEF Rows
<1>3. log' = [log EXCEPT ![delivery][step] = new]
  BY DEF RowSucceeds
<1> HIDE DEF new
<1>4. log'[delivery][step] = new /\ \A d \in Deliveries, s \in Steps :
              d # delivery \/ s # step => log'[d][s] = log[d][s]
  BY <1>3 DEF TypeOK
<1> QED
  BY <1>2, <1>4

\* A step that fails changes its own row only.
LEMMA FailingWrites ==
  ASSUME TypeOK, RowFails
  PROVE  /\ log'[delivery][step].status = "FAILED"
         /\ log'[delivery][step].input = log[delivery][step].input
         /\ log'[delivery][step].retry = retry
         /\ \A d \in Deliveries, s \in Steps :
              d # delivery \/ s # step => log'[d][s] = log[d][s]
<1> DEFINE row == log[delivery][step]
           new == [row EXCEPT !.status = "FAILED", !.retry = retry]
<1>1. row \in Rows
  BY DEF TypeOK
<1>2. new.status = "FAILED" /\ new.input = row.input /\ new.retry = retry
  BY <1>1 DEF Rows
<1>3. log' = [log EXCEPT ![delivery][step] = new]
  BY DEF RowFails
<1> HIDE DEF new
<1>4. log'[delivery][step] = new /\ \A d \in Deliveries, s \in Steps :
              d # delivery \/ s # step => log'[d][s] = log[d][s]
  BY <1>3 DEF TypeOK
<1> QED
  BY <1>2, <1>4

\* Only a call of an action makes an attempt, the current one.
LEMMA CallTries ==
  ASSUME TypeOK, Call
  PROVE  \A d \in Deliveries, s \in Steps, a \in Nat :
           <<d, s, a>> \in called' <=>
             <<d, s, a>> \in called \/ (d = delivery /\ s = step /\ a = attempt)
  BY DEF Call, Current

\* Each action keeps what earlier deliveries left: their rows and their attempts.
LEMMA PastStep == IInv /\ [Next]_vars => PastInv'
<1> SUFFICES ASSUME IInv, [Next]_vars PROVE PastInv'
  OBVIOUS
<1> USE EngineAssumption
<1>1. TypeOK /\ PastInv /\ JobInv
  BY DEF IInv
<1>2. delivery \in Deliveries /\ step \in Steps /\ attempt \in Nat
  BY <1>1 DEF TypeOK, Steps
<1>3. ASSUME UNCHANGED <<log, called, delivery>>, status' = "deleted" => status = "deleted",
             job' = "waiting" \/ pc' \in {"find", "start", "resolve"}
               => job = "waiting" \/ pc \in {"find", "start", "resolve"}
      PROVE  PastInv'
  BY <1>1, <1>3 DEF PastInv, Untouched, Untried
<1>4. ASSUME status # "deleted", status' # "deleted", UNCHANGED <<called, delivery>>,
             pc' \notin {"find", "start", "resolve"}, job' # "waiting",
             \A d \in Deliveries, s \in Steps :
               d # delivery \/ s # step => log'[d][s] = log[d][s]
      PROVE  PastInv'
  BY <1>1, <1>2, <1>4 DEF PastInv, Untouched, Untried, Deliveries
<1>5. pc # "idle" => job # "waiting"
  BY <1>1 DEF JobInv
<1>6. CASE Take \/ Find \/ FindOrStartFails
  BY <1>3, <1>6 DEF Take, Find, FindOrStartFails, Goto, EndJob, rowVars, jobVars, actionVars
<1>7. CASE Start \/ Resolve \/ Acknowledge
  BY <1>3, <1>7 DEF Start, Resolve, Acknowledge, Becomes, Goto, EndJob, rowVars, jobVars, actionVars
<1>8. CASE OpenLogFails \/ LoadCredentials \/ CredentialsFail \/ Backoff \/ StoreFails
  BY <1>3, <1>8 DEF OpenLogFails, LoadCredentials, CredentialsFail, Backoff, StoreFails,
     Goto, rowVars, jobVars, actionVars
<1>9. CASE StepFailedFails \/ SucceedFails \/ GiveUpFails \/ MarkFailed \/ Succeed
  BY <1>3, <1>9 DEF StepFailedFails, SucceedFails, GiveUpFails, MarkFailed, Succeed,
     Becomes, Goto, EndJob, rowVars, jobVars, actionVars
<1>10. CASE Timeout \/ AnswerFails
  <2>1. NextAttempt /\ UNCHANGED <<log, status, called>>
    BY <1>10 DEF Timeout, AnswerFails, rowVars, actionVars
  <2> QED
    BY <1>1, <1>3, <2>1, NextAttemptGoes DEF jobVars
<1>11. CASE Answer \/ LateAnswer
  BY <1>3, <1>11 DEF Answer, LateAnswer, Goto, rowVars, jobVars
<1>12. CASE Crash
  BY <1>3, <1>12 DEF Crash, EndJob, rowVars
<1>13. CASE UNCHANGED vars
  BY <1>3, <1>13 DEF vars
<1>14. CASE OpenLog
  BY <1>1, <1>4, <1>5, <1>14, OpeningWrites DEF OpenLog, RowOpens, Goto, jobVars, actionVars
<1>15. CASE Store
  BY <1>1, <1>4, <1>5, <1>15, SucceedingWrites DEF Store, RowSucceeds, Goto, jobVars, actionVars
<1>16. CASE StepFailed
  BY <1>1, <1>4, <1>5, <1>16, FailingWrites DEF StepFailed, RowFails, Goto, jobVars, actionVars
<1>17. CASE Call
  <2>1. UNCHANGED <<log, status, delivery, job>> /\ pc' = "wait" /\ pc = "call"
    BY <1>17 DEF Call, Goto, rowVars, jobVars
  <2>2. \A d \in Deliveries : delivery < d => Untouched(d)'
    BY <1>1, <1>17, <2>1, CallTries DEF PastInv, Untouched, Untried, Deliveries
  <2> QED
    BY <1>1, <1>5, <2>1, <2>2 DEF PastInv
<1>18. CASE RecoverStalled
  <2>1. /\ UNCHANGED <<log, called, status, pc>> /\ pc = "idle"
        /\ delivery' = delivery \/ delivery' = delivery + 1
        /\ job' = "waiting" => delivery' = delivery + 1
    BY <1>1, <1>18 DEF RecoverStalled, rowVars, actionVars, JobInv
  <2>2. delivery' \in Nat /\ delivery \in Nat /\ delivery <= delivery'
    BY <1>2, <2>1 DEF Deliveries
  <2>3. \A d \in Deliveries : delivery < d => Untouched(d)'
    BY <1>1, <2>1 DEF PastInv, Untouched, Untried
  <2>4. \A d \in Deliveries : delivery' < d => delivery < d
    BY <2>1, <2>2 DEF Deliveries
  <2>5. job' = "waiting" => delivery' \in Deliveries /\ delivery < delivery'
    BY <1>2, <1>18, <2>1 DEF RecoverStalled, Deliveries
  <2> QED
    BY <1>1, <2>1, <2>3, <2>4, <2>5 DEF PastInv, Untouched, Untried
<1>19. CASE Delete
  <2>1. \A d \in Deliveries, s \in Steps : log'[d][s] = NoRow
    BY <1>19 DEF Delete
  <2> QED
    BY <1>1, <1>2, <1>19, <2>1 DEF Delete, PastInv, Untouched, Untried, jobVars, actionVars
<1>20. CASE ReplyLost
  <2>1. /\ status # "deleted" /\ status' # "deleted" /\ UNCHANGED <<called, delivery>>
        /\ pc' \notin {"find", "start", "resolve"} /\ job' # "waiting"
    BY <1>1, <1>5, <1>20 DEF ReplyLost, RowOpens, RowSucceeds, RowFails, Becomes, Goto, EndJob,
       jobVars, actionVars
  <2>2. RowOpens \/ RowSucceeds \/ RowFails \/ UNCHANGED log
    BY <1>20 DEF ReplyLost, Becomes
  <2> QED
    BY <1>1, <1>4, <2>1, <2>2, OpeningWrites, SucceedingWrites, FailingWrites
<1> QED
  BY <1>6, <1>7, <1>8, <1>9, <1>10, <1>11, <1>12, <1>13, <1>14, <1>15, <1>16, <1>17, <1>18,
     <1>19, <1>20 DEF Next, EngineStep, Environment

\* The rows are written, and the job redelivered, by these alone.
LEMMA OthersKeepRows ==
  ASSUME TypeOK, [Next]_vars
  PROVE  /\ OpenLog \/ Store \/ StepFailed \/ ReplyLost \/ Delete \/ log' = log
         /\ \/ Start \/ OpenLog \/ Store \/ StepFailed \/ MarkFailed \/ Succeed
            \/ ReplyLost \/ RecoverStalled \/ Delete
            \/ UNCHANGED <<log, status, delivery>>
<1>1. CASE Take \/ Find \/ FindOrStartFails \/ Resolve \/ Acknowledge \/ GiveUpFails
  BY <1>1 DEF Take, Find, FindOrStartFails, Resolve, Acknowledge, GiveUpFails, Goto, EndJob,
     rowVars, jobVars
<1>2. CASE OpenLogFails \/ LoadCredentials \/ CredentialsFail \/ Call \/ Answer \/ Backoff
  BY <1>2 DEF OpenLogFails, LoadCredentials, CredentialsFail, Call, Answer, Backoff, Goto,
     rowVars, jobVars
<1>3. CASE AnswerFails \/ Timeout
  BY <1>3, NextAttemptGoes DEF AnswerFails, Timeout, rowVars, jobVars
<1>4. CASE LateAnswer \/ StoreFails \/ StepFailedFails \/ SucceedFails \/ Crash
  BY <1>4 DEF LateAnswer, StoreFails, StepFailedFails, SucceedFails, Crash, Goto, EndJob,
     rowVars, jobVars
<1>5. CASE Start \/ MarkFailed \/ Succeed \/ RecoverStalled
  BY <1>5 DEF Start, MarkFailed, Succeed, RecoverStalled, Becomes, rowVars
<1>6. CASE UNCHANGED vars
  BY <1>6 DEF vars
<1> QED
  BY <1>1, <1>2, <1>3, <1>4, <1>5, <1>6 DEF Next, EngineStep, Environment

\* Attempts are made by Call and settled by four actions.
LEMMA OthersKeepAttempts ==
  ASSUME [Next]_vars
  PROVE  UNCHANGED actionVars \/ Call \/ Answer \/ AnswerFails \/ LateAnswer \/ Crash
<1>1. CASE Take \/ Find \/ Start \/ FindOrStartFails \/ Resolve \/ OpenLog \/ OpenLogFails
  BY <1>1 DEF Take, Find, Start, FindOrStartFails, Resolve, OpenLog, OpenLogFails
<1>2. CASE LoadCredentials \/ CredentialsFail \/ Timeout \/ Backoff \/ Store \/ StoreFails
  BY <1>2 DEF LoadCredentials, CredentialsFail, Timeout, Backoff, Store, StoreFails
<1>3. CASE StepFailed \/ StepFailedFails \/ MarkFailed \/ GiveUpFails \/ Succeed \/ SucceedFails
  BY <1>3 DEF StepFailed, StepFailedFails, MarkFailed, GiveUpFails, Succeed, SucceedFails
<1>4. CASE Acknowledge \/ ReplyLost \/ RecoverStalled \/ Delete \/ UNCHANGED vars
  BY <1>4 DEF Acknowledge, ReplyLost, RecoverStalled, Delete, vars, actionVars
<1> QED
  BY <1>1, <1>2, <1>3, <1>4 DEF Next, EngineStep, Environment

\* Failures and crashes are not forgotten.
LEMMA FaultsRemain ==
  ASSUME TypeOK, [Next]_vars
  PROVE  faults \in Nat /\ crashes \in Nat /\ faults <= faults' /\ crashes <= crashes'
<1>1. faults \in Nat /\ crashes \in Nat
  BY EngineAssumption DEF TypeOK
<1>2. (Fault \/ UNCHANGED faults) => faults <= faults'
  BY <1>1 DEF Fault
<1>3. CASE Take \/ Find \/ Start \/ Resolve \/ OpenLog \/ LoadCredentials \/ CredentialsFail
  BY <1>1, <1>3 DEF Take, Find, Start, Resolve, OpenLog, LoadCredentials, CredentialsFail
<1>4. CASE FindOrStartFails \/ OpenLogFails \/ StoreFails \/ StepFailedFails \/ GiveUpFails
             \/ SucceedFails
  BY <1>1, <1>2, <1>4 DEF FindOrStartFails, OpenLogFails, StoreFails, StepFailedFails,
     GiveUpFails, SucceedFails, WriteFails
<1>5. CASE Call \/ Answer \/ AnswerFails \/ Timeout \/ Backoff \/ LateAnswer \/ Store
  BY <1>1, <1>5 DEF Call, Answer, AnswerFails, Timeout, Backoff, LateAnswer, Store
<1>6. CASE StepFailed \/ MarkFailed \/ Succeed \/ Acknowledge \/ RecoverStalled \/ Delete
  BY <1>1, <1>6 DEF StepFailed, MarkFailed, Succeed, Acknowledge, RecoverStalled, Delete
<1>7. CASE Crash \/ ReplyLost \/ UNCHANGED vars
  BY <1>1, <1>7 DEF Crash, ReplyLost, Fault, vars
<1> QED
  BY <1>1, <1>3, <1>4, <1>5, <1>6, <1>7 DEF Next, EngineStep, Environment

\* The snapshot that was accepted stays the one.
LEMMA FlagRemains == ASSUME TypeOK, [Next]_vars PROVE linear' = linear
<1>1. CASE Take \/ Find \/ FindOrStartFails \/ Resolve \/ Acknowledge \/ GiveUpFails \/ Start
  BY <1>1 DEF Take, Find, FindOrStartFails, Resolve, Acknowledge, GiveUpFails, Start, rowVars
<1>2. CASE OpenLog \/ OpenLogFails \/ LoadCredentials \/ CredentialsFail \/ Call \/ Answer
             \/ Backoff \/ AnswerFails \/ Timeout
  BY <1>2 DEF OpenLog, OpenLogFails, LoadCredentials, CredentialsFail, Call, Answer, Backoff,
     AnswerFails, Timeout, rowVars
<1>3. CASE LateAnswer \/ Store \/ StoreFails \/ StepFailed \/ StepFailedFails \/ SucceedFails
             \/ Crash
  BY <1>3 DEF LateAnswer, Store, StoreFails, StepFailed, StepFailedFails, SucceedFails,
     Crash, rowVars
<1>4. CASE MarkFailed \/ Succeed \/ ReplyLost \/ RecoverStalled \/ Delete \/ UNCHANGED vars
  BY <1>4 DEF MarkFailed, Succeed, ReplyLost, RecoverStalled, Delete, rowVars, vars
<1> QED
  BY <1>1, <1>2, <1>3, <1>4 DEF Next, EngineStep, Environment

\* What ends a job.
LEMMA OthersKeepJob ==
  ASSUME TypeOK, [Next]_vars
  PROVE  \/ job' = job \/ job' \notin {"completed", "failed"}
         \/ FindOrStartFails \/ GiveUpFails \/ Find \/ Acknowledge \/ ReplyLost
         \/ RecoverStalled
<1>1. CASE Take \/ Start \/ Resolve \/ OpenLog \/ OpenLogFails \/ LoadCredentials
             \/ CredentialsFail \/ Call \/ Answer \/ Backoff
  BY <1>1 DEF Take, Start, Resolve, OpenLog, OpenLogFails, LoadCredentials, CredentialsFail,
     Call, Answer, Backoff, Goto, jobVars
<1>2. CASE AnswerFails \/ Timeout
  BY <1>2, NextAttemptGoes DEF AnswerFails, Timeout, jobVars
<1>3. CASE LateAnswer \/ Store \/ StoreFails \/ StepFailed \/ StepFailedFails \/ SucceedFails
             \/ Crash \/ MarkFailed \/ Succeed \/ Delete \/ UNCHANGED vars
  BY <1>3 DEF LateAnswer, Store, StoreFails, StepFailed, StepFailedFails, SucceedFails,
     Crash, MarkFailed, Succeed, Delete, Goto, EndJob, jobVars, vars
<1> QED
  BY <1>1, <1>2, <1>3 DEF Next, EngineStep, Environment

\* When the job is through, the engine writes nothing.
LEMMA SettledMoves ==
  ASSUME IInv, [Next]_vars, job \in {"completed", "failed"}
  PROVE  Delete \/ UNCHANGED <<log, status, delivery>>
<1>1. pc = "idle" /\ TypeOK
  BY DEF IInv, JobInv
<1>2. ~ (Start \/ OpenLog \/ Store \/ StepFailed \/ MarkFailed \/ Succeed \/ ReplyLost
         \/ RecoverStalled)
  BY <1>1 DEF Start, OpenLog, Store, StepFailed, MarkFailed, Succeed, ReplyLost, RecoverStalled
<1> QED
  BY <1>1, <1>2, OthersKeepRows

\* Each action keeps the rows of the current delivery in step with the loop's place.
LEMMA LoopStep == IInv /\ [Next]_vars => LoopInv'
<1> SUFFICES ASSUME IInv, [Next]_vars PROVE LoopInv'
  OBVIOUS
<1> USE EngineAssumption
<1>1. TypeOK /\ PastInv /\ LoopInv
  BY DEF IInv
<1>2. delivery \in Deliveries /\ step \in Steps
  BY <1>1 DEF TypeOK
<1>3. ASSUME UNCHANGED <<log, delivery, step, context, status>>,
             pc' \in InLoop => \/ pc' = pc /\ UNCHANGED <<retry, faults>>
                               \/ pc \in InLoop \ {"open", "stepFailed"} /\ pc' # "open"
      PROVE  LoopInv'
  BY <1>1, <1>3 DEF LoopInv, InputOf
<1>4. ASSUME pc' \notin InLoop \/ status' = "deleted" PROVE LoopInv'
  BY <1>4 DEF LoopInv
<1>5. CASE Take \/ Find \/ FindOrStartFails \/ Start \/ Acknowledge
  BY <1>4, <1>5 DEF Take, Find, FindOrStartFails, Start, Acknowledge, Goto, EndJob, InLoop
<1>6. CASE OpenLogFails \/ StepFailed \/ StepFailedFails \/ GiveUpFails \/ SucceedFails
  BY <1>4, <1>6 DEF OpenLogFails, StepFailed, StepFailedFails, GiveUpFails, SucceedFails,
     Goto, EndJob, InLoop
<1>7. CASE MarkFailed \/ Succeed \/ Crash \/ Delete
  BY <1>4, <1>7 DEF MarkFailed, Succeed, Crash, Delete, Goto, EndJob, InLoop
<1>8. CASE LoadCredentials \/ CredentialsFail \/ Call \/ Answer \/ Backoff \/ StoreFails
  BY <1>3, <1>8 DEF LoadCredentials, CredentialsFail, Call, Answer, Backoff, StoreFails,
     Goto, rowVars, jobVars, localVars, InLoop
<1>9. CASE Timeout \/ AnswerFails
  <2>1. NextAttempt /\ pc = "wait" /\ UNCHANGED <<log, step, context, status>>
    BY <1>9 DEF Timeout, AnswerFails, rowVars
  <2> QED
    BY <1>1, <1>3, <2>1, NextAttemptGoes DEF jobVars, InLoop
<1>10. CASE LateAnswer \/ RecoverStalled
  <2>1. CASE LateAnswer
    BY <1>3, <2>1 DEF LateAnswer, rowVars, jobVars, localVars
  <2>2. CASE RecoverStalled
    <3>1. pc = "idle"
      BY <2>2 DEF RecoverStalled, IInv, JobInv
    <3> QED
      BY <1>4, <2>2, <3>1 DEF RecoverStalled, InLoop
  <2> QED
    BY <1>10, <2>1, <2>2
<1>11. CASE UNCHANGED vars
  BY <1>3, <1>11 DEF vars
<1>12. CASE Resolve
  <2>1. \A s \in Steps : log'[delivery'][s] = NoRow
    BY <1>1, <1>12 DEF Resolve, Goto, PastInv, Untouched, rowVars, jobVars
  <2> QED
    BY <1>12, <2>1 DEF Resolve, Goto, LoopInv, InputOf, InLoop, Steps
<1>13. CASE OpenLog
  <2>1. pc' = "credentials" /\ pc = "open" /\ UNCHANGED <<delivery, step, context>>
        /\ status # "deleted" /\ status' # "deleted"
    BY <1>13 DEF OpenLog, RowOpens, Goto, jobVars, localVars
  <2>2. InputOf(delivery, step)' = InputOf(delivery, step)
    BY <1>1, <1>2, <1>13, <2>1, OpeningWrites DEF OpenLog, InputOf, Steps
  <2>3. /\ \A s \in Steps : s < step => log[delivery][s].status = "SUCCESS"
        /\ \A s \in Steps : step < s => log[delivery][s] = NoRow
        /\ context = InputOf(delivery, step)
    BY <1>1, <2>1 DEF LoopInv, InLoop
  <2>4. \A s \in Steps : s # step => log'[delivery][s] = log[delivery][s]
    BY <1>1, <1>2, <1>13, OpeningWrites DEF OpenLog
  <2>5. log'[delivery][step].status = "RUNNING" /\ log'[delivery][step].input = context
    BY <1>1, <1>13, OpeningWrites DEF OpenLog
  <2>6. step \in Nat /\ \A s \in Steps : s \in Nat
    BY <1>2 DEF Steps
  <2> QED
    BY <2>1, <2>2, <2>3, <2>4, <2>5, <2>6 DEF LoopInv
<1>14. CASE Store
  <2>1. CASE step = N
    BY <1>4, <1>14, <2>1 DEF Store, Goto, InLoop
  <2>2. CASE step # N
    <3>1. /\ pc = "store" /\ pc' = "open" /\ step' = step + 1 /\ step + 1 \in Steps
          /\ status # "deleted" /\ context' = result /\ delivery' = delivery
      BY <1>2, <1>14, <2>2 DEF Store, RowSucceeds, Goto, jobVars, Steps
    <3>2. \A s \in Steps : s < step => log'[delivery][s].status = "SUCCESS"
      BY <1>1, <1>2, <1>14, <3>1, SucceedingWrites DEF Store, LoopInv, InLoop, Steps
    <3>3. \A s \in Steps : step < s => log'[delivery][s] = NoRow
      BY <1>1, <1>2, <1>14, <3>1, SucceedingWrites DEF Store, LoopInv, InLoop, Steps
    <3>4. log'[delivery][step].status = "SUCCESS" /\ log'[delivery][step].output = result
      BY <1>1, <1>14, SucceedingWrites DEF Store
    <3>5. \A s \in Steps : s < step' => log'[delivery'][s].status = "SUCCESS"
      BY <1>2, <3>1, <3>2, <3>4 DEF Steps
    <3>6. context' = InputOf(delivery, step)'
      BY <1>2, <3>1, <3>4 DEF InputOf, Steps
    <3>7. \A s \in Steps : step' <= s => log'[delivery'][s] = NoRow
      BY <1>2, <3>1, <3>3 DEF Steps
    <3> QED
      BY <3>1, <3>5, <3>6, <3>7 DEF LoopInv, Steps
  <2> QED
    BY <2>1, <2>2
<1>15. CASE ReplyLost
  <2>1. CASE pc # "store"
    BY <1>4, <1>15, <2>1 DEF ReplyLost, Goto, EndJob, InLoop
  <2>2. CASE pc = "store"
    <3>1. /\ RowSucceeds /\ pc' = "stepFailed" /\ retry' = 0 /\ faults' > 0
          /\ status # "deleted" /\ UNCHANGED <<delivery, step, context, status>>
      BY <1>1, <1>15, <2>2 DEF ReplyLost, RowSucceeds, Fault, Goto, jobVars, TypeOK
    <3>2. InputOf(delivery, step)' = InputOf(delivery, step)
      BY <1>1, <1>2, <3>1, SucceedingWrites DEF InputOf, Steps
    <3>3. \A s \in Steps : s # step => log'[delivery][s] = log[delivery][s]
      BY <1>1, <1>2, <3>1, SucceedingWrites
    <3>4. log'[delivery][step].status = "SUCCESS"
          /\ log'[delivery][step].input = log[delivery][step].input
      BY <1>1, <3>1, SucceedingWrites
    <3>5. /\ \A s \in Steps : s < step => log[delivery][s].status = "SUCCESS"
          /\ \A s \in Steps : step < s => log[delivery][s] = NoRow
          /\ context = InputOf(delivery, step) /\ log[delivery][step].input = context
      BY <1>1, <2>2, <3>1 DEF LoopInv, InLoop
    <3>6. step \in Nat /\ \A s \in Steps : s \in Nat
      BY <1>2 DEF Steps
    <3> QED
      BY <3>1, <3>2, <3>3, <3>4, <3>5, <3>6 DEF LoopInv
  <2> QED
    BY <2>1, <2>2
<1> QED
  BY <1>5, <1>6, <1>7, <1>8, <1>9, <1>10, <1>11, <1>12, <1>13, <1>14, <1>15
     DEF Next, EngineStep, Environment

\* Each action keeps what holds after the loop, where success or failure is written.
LEMMA AfterStep == IInv /\ [Next]_vars => AfterInv'
<1> SUFFICES ASSUME IInv, [Next]_vars PROVE AfterInv'
  OBVIOUS
<1> USE EngineAssumption
<1>1. TypeOK /\ PastInv /\ LoopInv /\ AfterInv
  BY DEF IInv
<1>2. delivery \in Deliveries /\ step \in Steps /\ faults \in Nat
  BY <1>1 DEF TypeOK
<1>3. ASSUME UNCHANGED <<log, delivery, step, linear, status, pc, faults>> PROVE AfterInv'
  BY <1>1, <1>3 DEF AfterInv
<1>4. ASSUME pc' \notin {"fail", "succeed", "giveUp", "ack"} \/ status' = "deleted"
      PROVE AfterInv'
  BY <1>4 DEF AfterInv
<1>5. ASSUME WriteFails, status' = status, pc' = "giveUp" PROVE AfterInv'
  BY <1>2, <1>5 DEF WriteFails, Fault, AfterInv
<1>6. CASE Take \/ Find \/ FindOrStartFails \/ Start \/ Acknowledge \/ GiveUpFails
  BY <1>4, <1>6 DEF Take, Find, FindOrStartFails, Start, Acknowledge, GiveUpFails, Goto, EndJob
<1>7. CASE OpenLog \/ LoadCredentials \/ CredentialsFail \/ Call \/ Answer \/ Backoff
             \/ StoreFails
  BY <1>4, <1>7 DEF OpenLog, LoadCredentials, CredentialsFail, Call, Answer, Backoff,
     StoreFails, Goto
<1>8. CASE Timeout \/ AnswerFails
  BY <1>1, <1>4, <1>8, NextAttemptGoes DEF Timeout, AnswerFails
<1>9. CASE Crash \/ Delete
  BY <1>4, <1>9 DEF Crash, Delete, EndJob
<1>10. CASE OpenLogFails \/ StepFailedFails \/ SucceedFails
  BY <1>5, <1>10 DEF OpenLogFails, StepFailedFails, SucceedFails, Goto, rowVars
<1>11. CASE LateAnswer \/ UNCHANGED vars
  BY <1>3, <1>11 DEF LateAnswer, rowVars, jobVars, localVars, vars
<1>12. CASE RecoverStalled
  <2>1. pc = "idle"
    BY <1>12 DEF RecoverStalled, IInv, JobInv
  <2> QED
    BY <1>4, <1>12, <2>1 DEF RecoverStalled
<1>13. CASE Resolve
  BY <1>1, <1>4, <1>13 DEF Resolve, Goto, AfterInv, PastInv, Untouched, rowVars, jobVars
<1>14. CASE Store
  <2>1. CASE step = N
    <3>1. \A s \in Steps : log'[delivery'][s].status = "SUCCESS"
      BY <1>1, <1>2, <1>14, <2>1, SucceedingWrites
         DEF Store, RowSucceeds, Goto, jobVars, LoopInv, InLoop, Steps
    <3> QED
      BY <1>14, <2>1, <3>1 DEF Store, Goto, AfterInv
  <2>2. CASE step # N
    BY <1>4, <1>14, <2>2 DEF Store, Goto
  <2> QED
    BY <2>1, <2>2
<1>15. CASE StepFailed
  <2>1. \A s \in Steps : s # step => log[delivery][s].status # "RUNNING"
    BY <1>1, <1>2, <1>15 DEF StepFailed, LoopInv, InLoop, NoRow, Steps
  <2>2. \A s \in Steps : log'[delivery][s].status # "RUNNING"
    BY <1>1, <1>2, <1>15, <2>1, FailingWrites DEF StepFailed
  <2> QED
    BY <1>1, <1>15, <2>2, FailingWrites
       DEF StepFailed, RowFails, Goto, AfterInv, jobVars, localVars
<1>16. CASE MarkFailed
  BY <1>1, <1>2, <1>16 DEF MarkFailed, Becomes, Goto, AfterInv, NoRow, jobVars
<1>17. CASE Succeed
  BY <1>1, <1>2, <1>17 DEF Succeed, Becomes, Goto, AfterInv, jobVars
<1>18. CASE ReplyLost
  <2>1. faults' # 0 /\ pc' \in {"idle", "giveUp", "stepFailed"}
    BY <1>2, <1>18 DEF ReplyLost, Fault, Goto, EndJob
  <2> QED
    BY <2>1 DEF AfterInv
<1> QED
  BY <1>6, <1>7, <1>8, <1>9, <1>10, <1>11, <1>12, <1>13, <1>14, <1>15, <1>16, <1>17, <1>18
     DEF Next, EngineStep, Environment

\* Each action keeps the current attempt in step with the calls made.
LEMMA CallStep == IInv /\ [Next]_vars => CallInv'
<1> SUFFICES ASSUME IInv, [Next]_vars PROVE CallInv'
  OBVIOUS
<1> USE EngineAssumption
<1>1. TypeOK /\ PastInv /\ CallInv
  BY DEF IInv
<1>2. delivery \in Deliveries /\ step \in Steps /\ attempt \in Nat /\ faults \in Nat
      /\ RetryCount[step] \in Nat /\ attempt <= RetryCount[step]
  BY <1>1 DEF TypeOK, Steps
<1>3. ASSUME pc' \notin InLoop, UNCHANGED <<answered, called>> PROVE CallInv'
  BY <1>1, <1>3 DEF CallInv, InLoop
<1>4. ASSUME UNCHANGED <<called, answered, delivery, step, attempt, result, retry>>,
             pc' = pc
      PROVE  CallInv'
  BY <1>1, <1>4 DEF CallInv, InLoop, Untried, Exhausted, Unanswered, LastReturned, GivenUp,
     Current
<1>5. ASSUME UNCHANGED <<called, answered, delivery, step, attempt>>,
             \/ pc = "open" /\ pc' = "credentials"
             \/ pc = "backoff" /\ pc' = "call"
      PROVE  CallInv'
  BY <1>1, <1>2, <1>5 DEF CallInv, InLoop, Untried, Unanswered
<1>6. CASE Take \/ Find \/ FindOrStartFails \/ Start \/ Acknowledge \/ GiveUpFails
  BY <1>3, <1>6 DEF Take, Find, FindOrStartFails, Start, Acknowledge, GiveUpFails, Goto,
     EndJob, InLoop, actionVars
<1>7. CASE OpenLogFails \/ StepFailed \/ StepFailedFails \/ MarkFailed \/ Succeed \/ SucceedFails
  BY <1>3, <1>7 DEF OpenLogFails, StepFailed, StepFailedFails, MarkFailed, Succeed,
     SucceedFails, Goto, InLoop, actionVars
<1>8. CASE Resolve
  <2>1. 1 \in Steps /\ \A s \in Steps : Untried(delivery, s)'
    BY <1>1, <1>8 DEF Resolve, Goto, PastInv, Untouched, Untried, jobVars, actionVars, Steps
  <2>2. answered' \subseteq called' /\ pc' \in {"open", "giveUp"} /\ step' = 1
        /\ delivery' = delivery
    BY <1>1, <1>8 DEF Resolve, Goto, CallInv, jobVars, actionVars
  <2> QED
    BY <2>1, <2>2 DEF CallInv, Untried, InLoop
<1>9. CASE OpenLog \/ Backoff
  BY <1>5, <1>9 DEF OpenLog, Backoff, Goto, jobVars, localVars, actionVars
<1>10. CASE LoadCredentials
  <2>1. /\ pc = "credentials" /\ pc' = "call" /\ attempt' = 0
        /\ UNCHANGED <<called, answered, delivery, step>>
    BY <1>10 DEF LoadCredentials, Goto, jobVars, actionVars
  <2> QED
    BY <1>1, <1>2, <2>1 DEF CallInv, InLoop, Untried, Unanswered
<1>11. CASE CredentialsFail
  BY <1>1, <1>11 DEF CredentialsFail, Goto, CallInv, InLoop, Untried, GivenUp, jobVars,
     actionVars
<1>12. CASE Call
  <2>1. /\ pc = "call" /\ pc' = "wait" /\ UNCHANGED <<delivery, step, attempt>>
        /\ answered' = answered /\ answered' \subseteq called'
    BY <1>1, <1>12 DEF Call, Goto, CallInv, jobVars, localVars
  <2>2. \A a \in Nat : <<delivery, step, a>> \in called' <=> a <= attempt
    BY <1>1, <1>2, <1>12, <2>1, CallTries DEF CallInv
  <2>3. \A s \in Steps : step < s => \A a \in Nat : <<delivery, s, a>> \notin called'
    BY <1>1, <1>2, <1>12, <2>1, CallTries DEF CallInv, InLoop, Untried, Steps
  <2> QED
    BY <1>1, <2>1, <2>2, <2>3 DEF CallInv, InLoop, Untried, Unanswered
<1>13. CASE Answer
  <2>1. /\ pc = "wait" /\ pc' = "store" /\ UNCHANGED <<delivery, step, attempt, called>>
        /\ answered' = answered \cup {Current} /\ result' = Current
    BY <1>13 DEF Answer, Goto, jobVars
  <2>2. LastReturned(delivery, step, attempt)'
    BY <1>1, <1>2, <2>1 DEF CallInv, Unanswered, LastReturned, Current
  <2>3. answered' \subseteq called'
    BY <1>1, <1>2, <2>1 DEF CallInv, Current
  <2> QED
    BY <1>1, <2>1, <2>2, <2>3 DEF CallInv, InLoop, Untried, Current
<1>14. CASE AnswerFails \/ Timeout
  <2>1. NextAttempt /\ pc = "wait" /\ UNCHANGED <<step, called, answered>>
    BY <1>14 DEF AnswerFails, Timeout, actionVars
  <2>2. CASE pc' = "backoff" /\ attempt < RetryCount[step] /\ attempt' = attempt + 1
    BY <1>1, <1>2, <2>1, <2>2, NextAttemptGoes DEF CallInv, InLoop, Untried, Unanswered,
       jobVars
  <2>3. CASE pc' = "stepFailed" /\ attempt = RetryCount[step] /\ retry' = attempt
             /\ attempt' = attempt
    <3>1. delivery' = delivery
      BY <1>1, <2>1, NextAttemptGoes DEF jobVars
    <3>2. Exhausted(delivery, step)' /\ Unanswered(delivery, step)'
      BY <1>1, <1>2, <2>1, <2>3, <3>1 DEF CallInv, Exhausted, Unanswered
    <3> QED
      BY <1>1, <1>2, <2>1, <2>3, <3>1, <3>2 DEF CallInv, InLoop, Untried, GivenUp
  <2> QED
    BY <1>1, <2>1, <2>2, <2>3, NextAttemptGoes
<1>15. CASE LateAnswer
  BY <1>4, <1>15 DEF LateAnswer, jobVars, localVars
<1>16. CASE Store
  <2>1. CASE step = N
    BY <1>3, <1>16, <2>1 DEF Store, Goto, InLoop, actionVars
  <2>2. CASE step # N
    <3>1. /\ pc = "store" /\ pc' = "open" /\ step' = step + 1 /\ step' \in Steps
          /\ UNCHANGED <<called, answered, delivery>>
      BY <1>2, <1>16, <2>2 DEF Store, Goto, jobVars, actionVars, Steps
    <3>2. \A s \in Steps : step' <= s => Untried(delivery, s)'
      BY <1>1, <1>2, <3>1 DEF CallInv, InLoop, Untried, Steps
    <3> QED
      BY <1>1, <3>1, <3>2 DEF CallInv, InLoop, Untried, Steps
  <2> QED
    BY <2>1, <2>2
<1>17. CASE StoreFails \/ (ReplyLost /\ pc = "store")
  <2>1. /\ pc = "store" /\ pc' = "stepFailed" /\ retry' = 0
        /\ UNCHANGED <<called, answered, delivery, step>>
    BY <1>17 DEF StoreFails, ReplyLost, Goto, jobVars, actionVars
  <2>2. GivenUp(delivery, step, 0)'
    BY <1>1, <1>2, <2>1 DEF CallInv, GivenUp, LastReturned
  <2> QED
    BY <1>1, <2>1, <2>2 DEF CallInv, InLoop, Untried
<1>18. CASE Crash
  BY <1>1, <1>18 DEF Crash, EndJob, CallInv, InLoop
<1>19. CASE RecoverStalled
  <2>1. pc' \notin InLoop /\ UNCHANGED <<answered, called>>
    BY <1>19 DEF RecoverStalled, IInv, JobInv, InLoop, actionVars
  <2> QED
    BY <1>3, <2>1
<1>20. CASE Delete
  BY <1>4, <1>20 DEF Delete, jobVars, localVars, actionVars
<1>21. CASE UNCHANGED vars
  BY <1>4, <1>21 DEF vars
<1>22. CASE ReplyLost /\ pc # "store"
  BY <1>3, <1>22 DEF ReplyLost, Goto, EndJob, InLoop, actionVars
<1> QED
  BY <1>6, <1>7, <1>8, <1>9, <1>10, <1>11, <1>12, <1>13, <1>14, <1>15, <1>16, <1>17,
     <1>18, <1>19, <1>20, <1>21, <1>22 DEF Next, EngineStep, Environment

\* What the current row was before a write of its outcome.
LEMMA CurrentIsOpen ==
  ASSUME IInv, pc \in {"store", "stepFailed"}, status # "deleted"
  PROVE  \/ log[delivery][step].status = "RUNNING"
         \/ /\ pc = "stepFailed" /\ log[delivery][step].status = "SUCCESS"
            /\ retry = 0 /\ faults > 0
  BY DEF IInv, LoopInv, InLoop

\* Each action keeps the rows of a delivery a prefix of the chain.
LEMMA ChainStep == IInv /\ [Next]_vars => LogsFollowChain'
<1> SUFFICES ASSUME IInv, [Next]_vars PROVE LogsFollowChain'
  OBVIOUS
<1> USE EngineAssumption
<1>1. TypeOK /\ LoopInv /\ LogsFollowChain
  BY DEF IInv
<1>2. delivery \in Deliveries /\ step \in Steps /\ step \in Nat
  BY <1>1 DEF TypeOK, Steps
<1>3. CASE log' = log
  BY <1>1, <1>3 DEF LogsFollowChain, InputOf
<1>4. ASSUME RowOpens, pc = "open", status # "deleted" PROVE LogsFollowChain'
  <2>1. /\ context = InputOf(delivery, step) /\ log[delivery][step] = NoRow
        /\ \A s \in Steps : s < step => log[delivery][s].status = "SUCCESS"
        /\ \A s \in Steps : step < s => log[delivery][s] = NoRow
    BY <1>1, <1>4 DEF LoopInv, InLoop
  <2>2. \A d \in Deliveries, s \in Steps :
          log'[d][s].status # "none" =>
            /\ log'[d][s].input = IF s = 1 THEN TriggerData ELSE log'[d][s - 1].output
            /\ s > 1 => log'[d][s - 1].status = "SUCCESS"
    <3> SUFFICES ASSUME NEW d \in Deliveries, NEW s \in Steps, log'[d][s].status # "none"
                 PROVE  /\ log'[d][s].input = IF s = 1 THEN TriggerData
                                              ELSE log'[d][s - 1].output
                        /\ s > 1 => log'[d][s - 1].status = "SUCCESS"
      OBVIOUS
    <3>1. CASE d = delivery /\ s = step
      BY <1>1, <1>2, <1>4, <2>1, <3>1, OpeningWrites DEF InputOf, Steps
    <3>2. CASE ~(d = delivery /\ s = step)
      <4>1. log'[d][s] = log[d][s] /\ log[d][s].status # "none"
        BY <1>1, <1>4, <3>2, OpeningWrites
      <4>2. s = 1 \/ (s - 1 \in Steps /\ log[d][s - 1].status = "SUCCESS")
        BY <1>1, <4>1 DEF LogsFollowChain, Steps
      <4>3. s = 1 \/ log'[d][s - 1] = log[d][s - 1]
        <5>1. s = 1 \/ d # delivery \/ s - 1 # step
          BY <2>1, <4>2 DEF NoRow
        <5> QED
          BY <1>1, <1>4, <4>2, <5>1, OpeningWrites
      <4> QED
        BY <1>1, <4>1, <4>2, <4>3 DEF LogsFollowChain, InputOf, Steps
    <3> QED
      BY <3>1, <3>2
  <2> QED
    BY <2>2 DEF LogsFollowChain, InputOf
<1>5. ASSUME RowSucceeds \/ RowFails, pc \in {"store", "stepFailed"}, status # "deleted"
      PROVE  LogsFollowChain'
  <2>1. log[delivery][step].status \in {"RUNNING", "SUCCESS"}
    BY <1>5, CurrentIsOpen
  <2>2. /\ \A d \in Deliveries, s \in Steps :
             d # delivery \/ s # step => log'[d][s] = log[d][s]
        /\ log'[delivery][step].input = log[delivery][step].input
    BY <1>1, <1>5, SucceedingWrites, FailingWrites
  <2>3. \A s \in Steps : step < s => log[delivery][s].status = "none"
    BY <1>1, <1>5 DEF LoopInv, InLoop, NoRow
  <2> SUFFICES ASSUME NEW d \in Deliveries, NEW s \in Steps, log'[d][s].status # "none"
               PROVE  /\ log'[d][s].input = InputOf(d, s)'
                      /\ s > 1 => log'[d][s - 1].status = "SUCCESS"
    BY DEF LogsFollowChain
  <2>4. log[d][s].status # "none" /\ log'[d][s].input = log[d][s].input
    BY <2>1, <2>2
  <2>5. s = 1 \/ (s - 1 \in Steps /\ log[d][s - 1].status = "SUCCESS")
    BY <1>1, <2>4 DEF LogsFollowChain, Steps
  <2>6. s = 1 \/ log'[d][s - 1] = log[d][s - 1]
    <3>1. s = 1 \/ d # delivery \/ s - 1 # step
      BY <1>2, <2>3, <2>4 DEF Steps
    <3> QED
      BY <2>2, <2>5, <3>1
  <2> QED
    BY <1>1, <2>4, <2>5, <2>6 DEF LogsFollowChain, InputOf, Steps
<1>6. CASE Delete
  <2>1. \A d \in Deliveries, s \in Steps : log'[d][s].status = "none"
    BY <1>6 DEF Delete, NoRow
  <2> QED
    BY <2>1 DEF LogsFollowChain
<1>7. CASE OpenLog \/ Store \/ StepFailed \/ ReplyLost
  BY <1>3, <1>4, <1>5, <1>7 DEF OpenLog, Store, StepFailed, ReplyLost, Becomes
<1> QED
  BY <1>1, <1>3, <1>6, <1>7, OthersKeepRows

\* SUCCESS is only ever written over a whole chain.
LEMMA WholeStep == IInv /\ [Next]_vars => SuccessMeansWholeChain'
<1> SUFFICES ASSUME IInv, [Next]_vars, status' = "SUCCESS" PROVE SuccessMeansWholeChain'
  BY DEF SuccessMeansWholeChain
<1> USE EngineAssumption
<1>1. TypeOK /\ JobInv /\ PastInv /\ AfterInv /\ LogsFollowChain /\ SuccessMeansWholeChain
  BY DEF IInv
<1>2. delivery \in Deliveries /\ delivery \in Nat
  BY <1>1 DEF TypeOK, Deliveries
<1>3. CASE UNCHANGED <<log, status, delivery>>
  BY <1>1, <1>3 DEF SuccessMeansWholeChain, Whole, InputOf
<1>4. ASSUME pc = "succeed", status # "deleted", UNCHANGED <<log, delivery>>
      PROVE  SuccessMeansWholeChain'
  <2>1. \A s \in Steps : log[delivery][s].status = "SUCCESS"
    BY <1>1, <1>4 DEF AfterInv
  <2>2. Whole(delivery)
    BY <1>1, <1>2, <2>1 DEF Whole, LogsFollowChain
  <2>3. UNCHANGED <<log, delivery>>
    BY <1>4
  <2>4. Whole(delivery)' /\ delivery' \in 0..delivery'
    BY <1>2, <2>2, <2>3 DEF Whole, InputOf
  <2>5. \A e \in (delivery' + 1)..delivery', s \in Steps : log'[e][s] = NoRow
    BY <1>2, <2>3
  <2> QED
    BY <2>4, <2>5 DEF SuccessMeansWholeChain
<1>5. CASE RecoverStalled
  <2>1. UNCHANGED <<log, status>>
    BY <1>5 DEF RecoverStalled, rowVars
  <2>2. CASE delivery' = delivery
    BY <1>3, <2>1, <2>2
  <2>3. CASE delivery' = delivery + 1
    <3>1. delivery' \in Deliveries /\ \A s \in Steps : log[delivery'][s] = NoRow
      BY <1>1, <1>2, <1>5, <2>3 DEF RecoverStalled, Deliveries, PastInv, Untouched
    <3>2. PICK d \in 0..delivery :
            /\ Whole(d)
            /\ \A e \in (d + 1)..delivery, s \in Steps : log[e][s] = NoRow
      BY <1>1, <2>1 DEF SuccessMeansWholeChain
    <3>3. d \in 0..delivery' /\ Whole(d)'
      BY <1>2, <2>1, <2>3, <3>2 DEF Whole, InputOf
    <3>4. \A e \in (d + 1)..delivery', s \in Steps : log'[e][s] = NoRow
      BY <1>2, <2>1, <2>3, <3>1, <3>2
    <3> QED
      BY <3>3, <3>4 DEF SuccessMeansWholeChain
  <2> QED
    BY <1>5, <2>2, <2>3 DEF RecoverStalled
<1>6. ~ (Start \/ OpenLog \/ Store \/ StepFailed \/ MarkFailed \/ Delete)
  BY <1>1 DEF Start, OpenLog, Store, StepFailed, RowOpens, RowSucceeds, RowFails, MarkFailed,
     Becomes, Delete, JobInv, InLoop
<1>7. UNCHANGED <<log, status, delivery>> \/ Succeed \/ ReplyLost \/ RecoverStalled
  BY <1>1, <1>6, OthersKeepRows
<1>8. CASE Succeed
  BY <1>4, <1>8 DEF Succeed, Becomes, Goto, jobVars
<1>9. CASE ReplyLost
  <2>1. pc = "succeed" /\ status # "deleted" /\ UNCHANGED <<log, delivery>>
    BY <1>1, <1>9 DEF ReplyLost, RowOpens, RowSucceeds, RowFails, Becomes, Goto, EndJob,
       jobVars, JobInv, InLoop
  <2> QED
    BY <1>4, <2>1
<1> QED
  BY <1>3, <1>5, <1>7, <1>8, <1>9

\* A row's output is only ever that of an attempt that was awaited.
LEMMA AwaitedStep == IInv /\ [Next]_vars => AwaitedInv'
<1> SUFFICES ASSUME IInv, [Next]_vars PROVE AwaitedInv'
  OBVIOUS
<1> USE EngineAssumption
<1>1. TypeOK /\ CallInv /\ AwaitedInv
  BY DEF IInv
<1>2. delivery \in Deliveries /\ step \in Steps /\ attempt \in Nat
  BY <1>1 DEF TypeOK, Steps
<1>3. ASSUME RowSucceeds, pc = "store", UNCHANGED <<called, answered>> PROVE AwaitedInv'
  <2>1. result = Current /\ Current \in answered
    BY <1>1, <1>2, <1>3 DEF CallInv, LastReturned, Current
  <2>2. \A a \in Nat : <<delivery, step, a>> \in called => a <= attempt
    BY <1>1, <1>3 DEF CallInv, LastReturned
  <2>3. /\ log'[delivery][step].output = Current
        /\ \A d \in Deliveries, s \in Steps :
             d # delivery \/ s # step => log'[d][s] = log[d][s]
    BY <1>1, <1>3, <2>1, SucceedingWrites
  <2> QED
    BY <1>1, <1>3, <2>1, <2>2, <2>3, CurrentIsAttempt DEF AwaitedInv
<1>4. ASSUME \A d \in Deliveries, s \in Steps :
               log'[d][s].status = "SUCCESS" => log'[d][s] = log[d][s],
             UNCHANGED called, answered \subseteq answered'
      PROVE  AwaitedInv'
  BY <1>1, <1>4 DEF AwaitedInv
<1>5. ASSUME RowOpens \/ RowFails, UNCHANGED actionVars PROVE AwaitedInv'
  BY <1>1, <1>4, <1>5, OpeningWrites, FailingWrites DEF actionVars
<1>6. CASE OpenLog \/ Store \/ StepFailed \/ (ReplyLost /\ log' # log)
  BY <1>3, <1>5, <1>6 DEF OpenLog, Store, StepFailed, ReplyLost, Becomes, actionVars
<1>7. CASE Delete
  <2>1. \A d \in Deliveries, s \in Steps : log'[d][s].status # "SUCCESS"
    BY <1>7 DEF Delete, NoRow
  <2> QED
    BY <2>1 DEF AwaitedInv
<1>8. CASE Call
  <2>1. UNCHANGED <<log, answered>> /\ pc = "call"
    BY <1>8 DEF Call, rowVars
  <2>2. status = "deleted" \/ log[delivery][step].status = "RUNNING"
    BY <2>1 DEF IInv, LoopInv, InLoop
  <2>3. log[delivery][step].status # "SUCCESS"
    BY <1>2, <2>2 DEF IInv, PastInv, NoRow
  <2> SUFFICES ASSUME NEW d \in Deliveries, NEW s \in Steps, log[d][s].status = "SUCCESS"
               PROVE  LET t == log[d][s].output IN
                        /\ t \in answered
                        /\ t \in Attempts /\ t[1] = d /\ t[2] = s
                        /\ \A a \in Nat : <<d, s, a>> \in called' => a <= t[3]
    BY <2>1 DEF AwaitedInv
  <2>4. d # delivery \/ s # step
    BY <2>3
  <2> QED
    BY <1>1, <1>8, <2>4, CallTries DEF AwaitedInv
<1>9. CASE Answer \/ AnswerFails \/ LateAnswer \/ Crash
  BY <1>4, <1>9 DEF Answer, AnswerFails, LateAnswer, Crash, rowVars
<1>10. UNCHANGED actionVars \/ Call \/ Answer \/ AnswerFails \/ LateAnswer \/ Crash
  BY OthersKeepAttempts
<1>11. OpenLog \/ Store \/ StepFailed \/ ReplyLost \/ Delete \/ log' = log
  BY <1>1, OthersKeepRows
<1> QED
  BY <1>4, <1>6, <1>7, <1>8, <1>9, <1>10, <1>11 DEF actionVars

\* A row's retry number only ever counts attempts that were made.
LEMMA TriedStep == IInv /\ [Next]_vars => TriedInv'
<1> SUFFICES ASSUME IInv, [Next]_vars PROVE TriedInv'
  OBVIOUS
<1> USE EngineAssumption
<1>1. TypeOK /\ CallInv /\ TriedInv
  BY DEF IInv
<1>2. delivery \in Deliveries /\ step \in Steps /\ attempt \in Nat
  BY <1>1 DEF TypeOK, Steps
<1>3. ASSUME RowFails, pc = "stepFailed", UNCHANGED <<called, answered>> PROVE TriedInv'
  <2>1. GivenUp(delivery, step, retry)
    BY <1>1, <1>3 DEF CallInv
  <2> SUFFICES ASSUME NEW d \in Deliveries, NEW s \in Steps, log'[d][s].status = "FAILED"
               PROVE  GivenUp(d, s, log[d][s].retry)'
    BY DEF TriedInv
  <2>a. GivenUp(d, s, log[d][s].retry)' <=> GivenUp(d, s, log'[d][s].retry)
    BY <1>3 DEF GivenUp, Untried, Exhausted, Unanswered, LastReturned
  <2>2. CASE d = delivery /\ s = step
    BY <1>1, <1>3, <2>1, <2>2, <2>a, FailingWrites
  <2>3. CASE ~ (d = delivery /\ s = step)
    BY <1>1, <1>3, <2>3, <2>a, FailingWrites DEF TriedInv
  <2> QED
    BY <2>2, <2>3
\* A row that counts as failed already, and the attempts at its step.
<1>4. ASSUME \A d \in Deliveries, s \in Steps :
               log'[d][s].status = "FAILED" =>
                 /\ log'[d][s] = log[d][s]
                 /\ \A a \in Nat : <<d, s, a>> \in called' <=> <<d, s, a>> \in called
                 /\ \A a \in Nat : <<d, s, a>> \in answered' <=> <<d, s, a>> \in answered
      PROVE  TriedInv'
  <2> SUFFICES ASSUME NEW d \in Deliveries, NEW s \in Steps, log'[d][s].status = "FAILED"
               PROVE  GivenUp(d, s, log[d][s].retry)'
    BY DEF TriedInv
  <2>1. GivenUp(d, s, log[d][s].retry) /\ log'[d][s] = log[d][s]
    BY <1>1, <1>4 DEF TriedInv
  <2>2. RetryCount[s] \in Nat /\ 0..RetryCount[s] \subseteq Nat
    BY DEF Steps
  <2>3. Untried(d, s) => Untried(d, s)'
    BY <1>4 DEF Untried
  <2>4. Exhausted(d, s) => Exhausted(d, s)'
    BY <1>4, <2>2 DEF Exhausted
  <2>5. Unanswered(d, s) => Unanswered(d, s)'
    BY <1>4 DEF Unanswered
  <2>6. \A a \in Nat : LastReturned(d, s, a) => LastReturned(d, s, a)'
    BY <1>4 DEF LastReturned
  <2> QED
    BY <2>1, <2>2, <2>3, <2>4, <2>5, <2>6 DEF GivenUp
<1>5. ASSUME RowOpens \/ RowSucceeds, UNCHANGED actionVars PROVE TriedInv'
  <2>1. \A d \in Deliveries, s \in Steps :
          log'[d][s].status = "FAILED" => log'[d][s] = log[d][s]
    BY <1>1, <1>5, OpeningWrites, SucceedingWrites
  <2> QED
    BY <1>4, <1>5, <2>1 DEF actionVars
<1>6. CASE OpenLog \/ Store \/ StepFailed \/ (ReplyLost /\ log' # log)
  BY <1>3, <1>5, <1>6 DEF OpenLog, Store, StepFailed, ReplyLost, Becomes, actionVars
<1>7. CASE Delete
  <2>1. \A d \in Deliveries, s \in Steps : log'[d][s].status # "FAILED"
    BY <1>7 DEF Delete, NoRow
  <2> QED
    BY <2>1 DEF TriedInv
<1>8. CASE Call \/ Answer
  <2>1. /\ log' = log /\ pc \in {"call", "wait"}
        /\ called' \in {called, called \cup {Current}}
        /\ answered' \in {answered, answered \cup {Current}}
    BY <1>8 DEF Call, Answer, rowVars
  <2>2. status = "deleted" \/ log[delivery][step].status = "RUNNING"
    BY <2>1 DEF IInv, LoopInv, InLoop
  <2>3. log[delivery][step].status # "FAILED"
    BY <1>2, <2>2 DEF IInv, PastInv, NoRow
  <2>4. \A d \in Deliveries, s \in Steps, a \in Nat :
          d # delivery \/ s # step => <<d, s, a>> # Current
    BY DEF Current
  <2> QED
    BY <1>4, <2>1, <2>3, <2>4
<1>9. UNCHANGED actionVars \/ Call \/ Answer \/ AnswerFails \/ LateAnswer \/ Crash
  BY OthersKeepAttempts
<1>10. CASE AnswerFails \/ LateAnswer \/ Crash
  BY <1>4, <1>10 DEF AnswerFails, LateAnswer, Crash, rowVars
<1>11. CASE log' = log /\ UNCHANGED actionVars
  BY <1>4, <1>11 DEF actionVars
<1>12. OpenLog \/ Store \/ StepFailed \/ ReplyLost \/ Delete \/ log' = log
  BY <1>1, OthersKeepRows
<1> QED
  BY <1>6, <1>7, <1>8, <1>9, <1>10, <1>11, <1>12

\* A job is only ever acknowledged with its execution at an end.
LEMMA SettledStep == IInv /\ [Next]_vars => SettledIsTerminal'
<1> SUFFICES ASSUME IInv, [Next]_vars PROVE SettledIsTerminal'
  OBVIOUS
<1> USE EngineAssumption
<1>1. TypeOK /\ JobInv /\ SettledIsTerminal
  BY DEF IInv
<1>2. faults \in Nat /\ crashes \in Nat /\ faults <= faults' /\ crashes <= crashes'
  BY <1>1, FaultsRemain
<1>3. CASE job' \notin {"completed", "failed"}
  BY <1>3 DEF SettledIsTerminal
<1>4. CASE job' = job /\ job \in {"completed", "failed"}
  <2>1. status' = status \/ status' = "deleted"
    BY <1>4, SettledMoves DEF Delete
  <2>2. CASE status' = status
    <3>1. faults' \in Nat /\ crashes' \in Nat
      BY <1>1, TypeStep DEF TypeOK
    <3> QED
      BY <1>1, <1>2, <1>4, <2>2, <3>1 DEF SettledIsTerminal
  <2>3. CASE status' = "deleted"
    BY <2>3 DEF SettledIsTerminal
  <2> QED
    BY <2>1, <2>2, <2>3
<1>5. CASE FindOrStartFails \/ GiveUpFails \/ (ReplyLost /\ job' # job)
  <2>1. job' = "failed" /\ (status' = "deleted" \/ faults' > 0)
    BY <1>2, <1>5 DEF FindOrStartFails, GiveUpFails, ReplyLost, WriteFails, Fault, EndJob,
       Goto, jobVars, rowVars
  <2> QED
    BY <2>1 DEF SettledIsTerminal
<1>6. CASE Find \/ Acknowledge
  BY <1>1, <1>6 DEF Find, Acknowledge, EndJob, Goto, SettledIsTerminal, JobInv, rowVars,
     jobVars, Terminal
<1>7. CASE RecoverStalled
  <2>1. job' = "waiting" \/ (job' = "failed" /\ crashes' > MaxStalledCount)
    BY <1>1, <1>2, <1>7 DEF RecoverStalled, JobInv, TypeOK, Deliveries
  <2> QED
    BY <2>1 DEF SettledIsTerminal
<1>8. \/ job' = job \/ job' \notin {"completed", "failed"}
      \/ FindOrStartFails \/ GiveUpFails \/ Find \/ Acknowledge \/ ReplyLost
      \/ RecoverStalled
  BY <1>1, OthersKeepJob
<1> QED
  BY <1>3, <1>4, <1>5, <1>6, <1>7, <1>8

\* FAILED is only ever written for a failure, a crash or a graph without a chain.
LEMMA ReasonStep == IInv /\ [Next]_vars => FailedHasReason'
<1> SUFFICES ASSUME IInv, [Next]_vars, status' = "FAILED", faults' = 0
             PROVE  ~ linear' \/ \E d \in 0..delivery', s \in Steps :
                                   log'[d][s].status = "FAILED"
  BY DEF FailedHasReason
<1> USE EngineAssumption
<1>1. TypeOK /\ JobInv /\ AfterInv /\ FailedHasReason
  BY DEF IInv
<1>2. delivery \in Deliveries /\ delivery \in Nat /\ step \in Steps /\ faults = 0
  BY <1>1, FaultsRemain DEF TypeOK, Deliveries
<1>3. linear' = linear
  BY <1>1, FlagRemains
<1>4. CASE UNCHANGED <<log, status, delivery>>
  BY <1>1, <1>2, <1>3, <1>4 DEF FailedHasReason
<1>5. CASE RecoverStalled
  <2>1. UNCHANGED <<log, status>> /\ delivery' \in {delivery, delivery + 1}
    BY <1>5 DEF RecoverStalled, rowVars
  <2>2. 0..delivery \subseteq 0..delivery'
    BY <1>2, <2>1
  <2> QED
    BY <1>1, <1>2, <1>3, <2>1, <2>2 DEF FailedHasReason
<1>6. CASE MarkFailed
  <2>1. pc = "fail" \/ pc = "giveUp"
    BY <1>6 DEF MarkFailed
  <2>2. UNCHANGED <<log, delivery>> /\ status # "deleted"
    BY <1>6 DEF MarkFailed, Becomes, Goto, jobVars
  <2>3. CASE pc = "fail"
    BY <1>1, <1>2, <2>2, <2>3 DEF AfterInv
  <2>4. CASE pc = "giveUp"
    BY <1>1, <1>2, <1>3, <2>2, <2>4 DEF AfterInv
  <2> QED
    BY <2>1, <2>3, <2>4
<1>7. ~ (Start \/ OpenLog \/ Store \/ StepFailed \/ Succeed \/ ReplyLost \/ Delete)
  <2>1. ~ ReplyLost
    BY <1>2 DEF ReplyLost, Fault
  <2> QED
    BY <1>1, <2>1 DEF Start, OpenLog, Store, StepFailed, RowOpens, RowSucceeds, RowFails,
       Succeed, Becomes, Delete, JobInv, InLoop
<1> QED
  BY <1>1, <1>4, <1>5, <1>6, <1>7, OthersKeepRows

\* An execution only ever ends with no row of its delivery open.
LEMMA ClosedStep == IInv /\ [Next]_vars => NoRowLeftOpen'
<1> SUFFICES ASSUME IInv, [Next]_vars, job' = "completed", faults' = 0
             PROVE  \A s \in Steps : log'[delivery'][s].status # "RUNNING"
  BY DEF NoRowLeftOpen
<1> USE EngineAssumption
<1>1. TypeOK /\ JobInv /\ PastInv /\ AfterInv /\ NoRowLeftOpen
  BY DEF IInv
<1>2. delivery \in Deliveries /\ faults = 0
  BY <1>1, FaultsRemain DEF TypeOK
<1>3. CASE Delete
  BY <1>2, <1>3 DEF Delete, NoRow, jobVars
<1>4. CASE Find \/ Acknowledge
  <2>1. UNCHANGED <<log, delivery, status>> /\ (status = "deleted" \/ pc = "ack")
    BY <1>1, <1>4 DEF Find, Acknowledge, Goto, EndJob, rowVars, jobVars, JobInv
  <2> QED
    BY <1>1, <1>2, <2>1 DEF AfterInv, PastInv, NoRow
<1>5. CASE job = "completed" /\ ~ Delete
  <2>1. UNCHANGED <<log, status, delivery>>
    BY <1>1, <1>5, SettledMoves
  <2> QED
    BY <1>1, <1>2, <1>5, <2>1 DEF NoRowLeftOpen
<1>6. job = "completed" \/ Find \/ Acknowledge
  <2>1. ~ (FindOrStartFails \/ GiveUpFails \/ ReplyLost \/ RecoverStalled)
    BY <1>2 DEF FindOrStartFails, GiveUpFails, ReplyLost, Fault, RecoverStalled, EndJob
  <2> QED
    BY <1>1, <2>1, OthersKeepJob
<1> QED
  BY <1>3, <1>4, <1>5, <1>6

\* The invariant is inductive.
LEMMA NextInv == IInv /\ [Next]_vars => IInv'
  BY TypeStep, JobStep, PastStep, LoopStep, AfterStep, CallStep, ChainStep, WholeStep,
     AwaitedStep, TriedStep, SettledStep, ReasonStep, ClosedStep DEF IInv

-----------------------------------------------------------------------------
(* The theorems.                                                           *)

\* What execute() has written is what it has come to, in every delivery, with
\* whatever fails, dies, times out or is deleted.
THEOREM Invariance == Spec => []IInv
  BY InitInv, NextInv, PTL DEF Spec

\* Type correctness of the execution, its rows, its attempts and the engine's place,
\* for chains of every length and every bound on retries, deliveries and faults.
THEOREM TypeCorrect == Spec => []TypeOK
<1>1. IInv => TypeOK
  BY DEF IInv
<1> QED
  BY <1>1, Invariance, PTL

\* LogsTellTheChain: SUCCESS stands for a whole chain, each step of which was
\* fed with what its predecessor returned in the same delivery.
THEOREM LogsCorrect == Spec => []LogsTellTheChain
<1>1. IInv => LogsTellTheChain
  BY DEF IInv, LogsTellTheChain
<1> QED
  BY <1>1, Invariance, PTL

\* AttemptsAreTold: an output is that of the last attempt, which returned while it
\* was awaited; and a step counts as failed before its first attempt, after all of
\* them, or after the one that returned and could not be stored.
THEOREM AttemptsCorrect == Spec => []AttemptsAreTold
<1>1. ASSUME IInv PROVE AttemptsAreTold
  <2> USE EngineAssumption
  <2>1. TypeOK /\ AwaitedInv /\ TriedInv
    BY <1>1 DEF IInv
  <2>2. \A d \in Deliveries, s \in Steps : \A a : a \in Made(d, s) <=>
          a \in 0..RetryCount[s] /\ <<d, s, a>> \in called
    <3> TAKE d \in Deliveries, s \in Steps
    <3> TAKE a
    <3>1. ASSUME a \in Made(d, s) PROVE a \in 0..RetryCount[s] /\ <<d, s, a>> \in called
      <4>1. PICK t \in called : t[1] = d /\ t[2] = s /\ t[3] = a
        BY <3>1 DEF Made
      <4>2. t \in Attempts
        BY <2>1, <4>1 DEF TypeOK
      <4> QED
        BY <4>1, <4>2, AttemptParts
    <3>2. ASSUME <<d, s, a>> \in called PROVE a \in Made(d, s)
      BY <3>2 DEF Made
    <3> QED
      BY <3>1, <3>2
  <2>3. \A s \in Steps : RetryCount[s] \in Nat
    BY DEF Steps
  <2>4. OutputWasAwaited
    <3> SUFFICES ASSUME NEW d \in Deliveries, NEW s \in Steps, log[d][s].status = "SUCCESS"
                 PROVE  LET t == log[d][s].output IN
                          /\ t \in answered /\ t[1] = d /\ t[2] = s
                          /\ \A a \in Made(d, s) : a <= t[3]
      BY DEF OutputWasAwaited
    <3>1. \A a \in Made(d, s) : a \in Nat /\ <<d, s, a>> \in called
      BY <2>2, <2>3
    <3> QED
      BY <2>1, <3>1 DEF AwaitedInv
  <2>5. RetriesExhausted
    <3> SUFFICES ASSUME NEW d \in Deliveries, NEW s \in Steps, log[d][s].status = "FAILED"
                 PROVE  LET returned == {a \in Made(d, s) : <<d, s, a>> \in answered} IN
                          \/ Made(d, s) = {} /\ log[d][s].retry = 0
                          \/ /\ Made(d, s) = 0..RetryCount[s]
                             /\ log[d][s].retry = RetryCount[s]
                             /\ returned = {}
                          \/ \E a \in 0..RetryCount[s] :
                               /\ Made(d, s) = 0..a
                               /\ log[d][s].retry = 0
                               /\ returned = {a}
      BY DEF RetriesExhausted
    <3> DEFINE returned == {a \in Made(d, s) : <<d, s, a>> \in answered}
    <3>0. /\ \A a : a \in Made(d, s) <=> a \in 0..RetryCount[s] /\ <<d, s, a>> \in called
          /\ \A a \in 0..RetryCount[s] : a \in Nat
          /\ RetryCount[s] \in Nat
      BY <2>2, <2>3
    <3>1. CASE Untried(d, s) /\ log[d][s].retry = 0
      <4>1. \A a : a \notin Made(d, s)
        BY <3>0, <3>1 DEF Untried
      <4> QED
        BY <3>1, <4>1
    <3>2. CASE Exhausted(d, s) /\ Unanswered(d, s) /\ log[d][s].retry = RetryCount[s]
      <4>1. \A a : a \in Made(d, s) <=> a \in 0..RetryCount[s]
        BY <3>0, <3>2 DEF Exhausted
      <4>2. \A a : a \notin returned
        BY <3>0, <3>2 DEF Unanswered
      <4> QED
        BY <3>2, <4>1, <4>2
    <3>3. ASSUME log[d][s].retry = 0, NEW a \in 0..RetryCount[s], LastReturned(d, s, a)
          PROVE  Made(d, s) = 0..a /\ returned = {a}
      <4>1. a \in Nat /\ a <= RetryCount[s]
        BY <3>0
      <4>a. \A b : b \in 0..a => b \in 0..RetryCount[s] /\ b \in Nat /\ b <= a
        BY <3>0, <4>1
      <4>b. \A b \in 0..RetryCount[s] : b <= a => b \in 0..a
        BY <3>0, <4>1
      <4>2. \A b : b \in Made(d, s) <=> b \in 0..a
        BY <3>0, <3>3, <4>1, <4>a, <4>b DEF LastReturned
      <4>3. \A b : b \in returned <=> b = a
        BY <3>0, <3>3, <4>1, <4>2 DEF LastReturned
      <4> QED
        BY <4>2, <4>3
    <3> QED
      BY <2>1, <3>1, <3>2, <3>3 DEF TriedInv, GivenUp
  <2> QED
    BY <2>4, <2>5 DEF AttemptsAreTold
<1> QED
  BY <1>1, Invariance, PTL

\* EndIsTold: a job that ended has ended its execution, FAILED has a reason, and
\* no row is left open, as far as the database worked.
THEOREM EndCorrect == Spec => []EndIsTold
<1>1. IInv => EndIsTold
  BY DEF IInv, EndIsTold
<1> QED
  BY <1>1, Invariance, PTL

\* RowsAreFinal: retries, late answers and redeliveries rewrite no finished row.
THEOREM RowsStayFinal == Spec => RowsAreFinal
<1> DEFINE Final == \A d \in Deliveries, s \in Steps :
              log[d][s].status \in Terminal /\ log'[d][s] # log[d][s] =>
                \/ status' = "deleted"
                \/ /\ faults > 0 /\ pc = "stepFailed"
                   /\ d = delivery /\ s = step
                   /\ log[d][s].status = "SUCCESS"
                   /\ log'[d][s] = [log[d][s] EXCEPT !.status = "FAILED", !.retry = 0]
<1>1. ASSUME IInv, [Next]_vars PROVE [Final]_vars
  <2>1. TypeOK
    BY <1>1 DEF IInv
  <2>2. ASSUME RowOpens, pc = "open", status # "deleted" PROVE Final
    <3>1. log[delivery][step] = NoRow
      BY <1>1, <2>2 DEF IInv, LoopInv, InLoop
    <3> QED
      BY <2>1, <2>2, <3>1, OpeningWrites DEF NoRow, Terminal
  <2>3. ASSUME RowSucceeds, pc = "store", status # "deleted" PROVE Final
    <3>1. log[delivery][step].status = "RUNNING"
      BY <1>1, <2>3, CurrentIsOpen
    <3> QED
      BY <2>1, <2>3, <3>1, SucceedingWrites DEF Terminal
  <2>4. ASSUME RowFails, pc = "stepFailed", status # "deleted" PROVE Final
    <3>1. \/ log[delivery][step].status = "RUNNING"
          \/ log[delivery][step].status = "SUCCESS" /\ retry = 0 /\ faults > 0
      BY <1>1, <2>4, CurrentIsOpen
    <3>2. /\ delivery \in Deliveries /\ step \in Steps
          /\ log \in [Deliveries -> [Steps -> Rows]]
      BY <2>1 DEF TypeOK
    <3>3. log'[delivery][step] = [log[delivery][step] EXCEPT !.status = "FAILED", !.retry = retry]
      BY <2>4, <3>2 DEF RowFails
    <3>4. \A d \in Deliveries, s \in Steps :
            d # delivery \/ s # step => log'[d][s] = log[d][s]
      BY <2>1, <2>4, FailingWrites
    <3> QED
      BY <2>4, <3>1, <3>3, <3>4 DEF Terminal
  <2>5. CASE OpenLog \/ Store \/ StepFailed \/ ReplyLost
    BY <2>2, <2>3, <2>4, <2>5 DEF OpenLog, Store, StepFailed, ReplyLost, Becomes
  <2>6. CASE Delete
    BY <2>6 DEF Delete
  <2> QED
    BY <1>1, <2>1, <2>5, <2>6, OthersKeepRows
<1>2. [][Final]_vars <=> RowsAreFinal
  BY DEF RowsAreFinal
<1> QED
  BY <1>1, <1>2, Invariance, PTL DEF Spec

\* Steps of the chain, as the rows of the delivery in hand show them.
LEMMA DoneInLoop ==
  ASSUME IInv, pc \in InLoop, status # "deleted"
  PROVE  Finished = 1..(step - 1)
<1>1. /\ \A s \in Steps : s < step => log[delivery][s].status = "SUCCESS"
      /\ \A s \in Steps : step < s => log[delivery][s].status # "SUCCESS"
      /\ log[delivery][step].status # "SUCCESS" \/ pc = "stepFailed"
  BY DEF IInv, LoopInv, InLoop, NoRow
<1>2. step \in Steps
  BY DEF IInv, TypeOK
<1> QED
  BY <1>1, <1>2, EngineAssumption DEF Finished, Succeeded, Steps

\* A step in hand that succeeded without the engine's knowledge counts as finished
\* when the engine leaves it without a word: with the row, the chain has advanced.
LEMMA LeavingAdvances ==
  ASSUME IInv, UNCHANGED <<log, status, delivery>>, pc' # "stepFailed"
  PROVE  [Progress!Next]_(Progress!vars)
<1> USE EngineAssumption
<1>1. CASE Finished' = Finished
  BY <1>1 DEF Progress!vars
<1>2. CASE Finished' # Finished
  <2>1. step \in Steps /\ pc = "stepFailed"
    BY <1>2 DEF IInv, TypeOK, Finished, Succeeded
  <2>2. log[delivery][step].status = "SUCCESS"
    BY <1>2, <2>1 DEF Finished, Succeeded
  <2>3. status # "deleted" /\ status = "RUNNING"
    BY <2>1, <2>2 DEF IInv, TypeOK, PastInv, NoRow, JobInv, InLoop
  <2>4. Finished = 1..(step - 1)
    BY <2>1, <2>3, DoneInLoop DEF InLoop
  <2>5. Finished' = Finished \cup {step}
    BY <2>1, <2>2 DEF Finished, Succeeded
  <2>6. step \in 1..N /\ Finished' = 1..step
    BY <2>1, <2>4, <2>5 DEF Steps
  <2> QED
    BY <2>3, <2>4, <2>6 DEF Progress!Next, Progress!Advance
<1> QED
  BY <1>1, <1>2

\* Only four actions come to a step that is about to be marked FAILED.
LEMMA OthersMarkNoStep ==
  ASSUME IInv, [Next]_vars, pc' = "stepFailed"
  PROVE  /\ pc = "stepFailed" \/ log[delivery][step].status # "SUCCESS"
         /\ step' = step
<1>1. pc \in InLoop /\ step' = step
  <2>1. (pc = "stepFailed" /\ step' = step) \/ CredentialsFail \/ AnswerFails \/ Timeout \/ StoreFails \/ ReplyLost
    <3>1. CASE Take \/ Find \/ FindOrStartFails \/ Start \/ Resolve \/ Acknowledge \/ GiveUpFails
      BY <3>1 DEF Take, Find, FindOrStartFails, Start, Resolve, Acknowledge, GiveUpFails, Goto,
         EndJob
    <3>2. CASE OpenLog \/ OpenLogFails \/ LoadCredentials \/ Call \/ Answer \/ Backoff \/ Store
      BY <3>2 DEF OpenLog, OpenLogFails, LoadCredentials, Call, Answer, Backoff, Store, Goto
    <3>3. CASE StepFailed \/ StepFailedFails \/ MarkFailed \/ Succeed \/ SucceedFails \/ Crash
      BY <3>3 DEF StepFailed, StepFailedFails, MarkFailed, Succeed, SucceedFails, Crash, Goto,
         EndJob
    <3>4. CASE LateAnswer \/ RecoverStalled \/ Delete \/ UNCHANGED vars
      BY <3>4 DEF LateAnswer, RecoverStalled, Delete, jobVars, localVars, vars
    <3> QED
      BY <3>1, <3>2, <3>3, <3>4 DEF Next, EngineStep, Environment
  <2>2. ReplyLost => pc = "store" /\ step' = step
    BY DEF ReplyLost, Goto, EndJob
  <2> QED
    BY <2>1, <2>2 DEF CredentialsFail, AnswerFails, Timeout, StoreFails, InLoop
<1>2. CASE status = "deleted"
  BY <1>1, <1>2 DEF IInv, TypeOK, PastInv, NoRow
<1>3. CASE status # "deleted"
  BY <1>1, <1>3 DEF IInv, LoopInv, InLoop, NoRow
<1> QED
  BY <1>2, <1>3

\* The row of the step in hand does not count while the step is about to fail.
LEMMA FailingKeepsDone ==
  ASSUME IInv, RowFails, pc = "stepFailed", pc' # "stepFailed", delivery' = delivery
  PROVE  Finished' = Finished
<1>1. TypeOK /\ delivery \in Deliveries /\ step \in Steps
  BY DEF IInv, TypeOK
<1>2. /\ log'[delivery][step].status # "SUCCESS"
      /\ \A s \in Steps : s # step => log'[delivery][s] = log[delivery][s]
  BY <1>1, FailingWrites
<1> QED
  BY <1>1, <1>2 DEF Finished, Succeeded

\* A row that is opened has not succeeded.
LEMMA OpeningKeepsDone ==
  ASSUME IInv, RowOpens, pc = "open", status # "deleted", pc' # "stepFailed",
         delivery' = delivery
  PROVE  Finished' = Finished
<1>1. /\ TypeOK /\ delivery \in Deliveries /\ step \in Steps
      /\ log[delivery][step].status # "SUCCESS"
  BY DEF IInv, TypeOK, LoopInv, InLoop, NoRow
<1>2. /\ log'[delivery][step].status # "SUCCESS"
      /\ \A s \in Steps : s # step => log'[delivery][s] = log[delivery][s]
  BY <1>1, OpeningWrites
<1> QED
  BY <1>1, <1>2 DEF Finished, Succeeded

\* A change of the status alone.
LEMMA StatusChanges ==
  ASSUME UNCHANGED <<log, delivery>>, pc # "stepFailed", pc' # "stepFailed"
  PROVE  Finished' = Finished
BY DEF Finished, Succeeded

\* RunsTheChain: the engine implements ChainRun.
THEOREM Refinement == Spec => RunsTheChain
<1> USE EngineAssumption
<1>1. Init => Progress!Init
  BY DEF Init, Progress!Init, Finished, Succeeded, NoRow, Deliveries
<1>2. ASSUME IInv, [Next]_vars PROVE [Progress!Next]_(Progress!vars)
  <2>1. TypeOK /\ JobInv /\ PastInv /\ AfterInv
    BY <1>2 DEF IInv
  <2>2. delivery \in Deliveries /\ delivery \in Nat /\ step \in Steps
    BY <2>1 DEF TypeOK, Deliveries
  <2>3. CASE UNCHANGED <<log, status, delivery>>
    <3>1. CASE pc' # "stepFailed"
      BY <1>2, <2>3, <3>1, LeavingAdvances
    <3>2. CASE pc' = "stepFailed"
      <4>1. pc = "stepFailed" \/ log[delivery][step].status # "SUCCESS"
        BY <1>2, <3>2, OthersMarkNoStep
      <4>2. step' = step
        BY <1>2, <3>2, OthersMarkNoStep
      <4> QED
        BY <2>3, <3>2, <4>1, <4>2 DEF Finished, Succeeded, Progress!vars
    <3> QED
      BY <3>1, <3>2
  <2>4. ASSUME pc = "start", pc' # "stepFailed", status # "deleted", Becomes("RUNNING"),
               delivery' = delivery
        PROVE  [Progress!Next]_(Progress!vars)
    <3>1. Finished = {}
      BY <2>1, <2>2, <2>4 DEF PastInv, Untouched, Finished, Succeeded, NoRow
    <3>2. status = "PENDING" \/ delivery > 0
      BY <2>1, <2>2, <2>4 DEF JobInv
    <3>3. Finished' = Finished
      BY <2>4, StatusChanges DEF Becomes
    <3> QED
      BY <2>4, <3>1, <3>2, <3>3 DEF Becomes, Progress!Next, Progress!Begin
  <2>5. ASSUME pc = "store", RowSucceeds, status # "deleted", delivery' = delivery,
               pc' = "stepFailed" => step' = step
        PROVE  [Progress!Next]_(Progress!vars)
    <3>1. status = "RUNNING" /\ status' = status
      BY <2>1, <2>5 DEF RowSucceeds, JobInv, InLoop
    <3>2. Finished = 1..(step - 1)
      BY <1>2, <2>5, DoneInLoop DEF InLoop
    <3>3. /\ log'[delivery][step].status = "SUCCESS"
          /\ \A s \in Steps : s # step => log'[delivery][s] = log[delivery][s]
      BY <2>1, <2>2, <2>5, SucceedingWrites
    <3>4. CASE pc' = "stepFailed"
      <4>1. Finished' = Finished
        BY <2>2, <2>5, <3>2, <3>3, <3>4 DEF Finished, Succeeded, Steps
      <4> QED
        BY <2>5, <3>1, <4>1 DEF Progress!vars
    <3>5. CASE pc' # "stepFailed"
      <4>1. Finished' = Finished \cup {step}
        BY <2>2, <2>5, <3>3, <3>5 DEF Finished, Succeeded
      <4>2. step \in 1..N /\ Finished' = 1..step
        BY <2>2, <3>2, <4>1 DEF Steps
      <4> QED
        BY <2>5, <3>1, <3>2, <4>2 DEF Progress!Next, Progress!Advance
    <3> QED
      BY <3>4, <3>5
  <2>6. ASSUME pc \in {"fail", "giveUp"}, pc' # "stepFailed", status # "deleted",
               Becomes("FAILED"), delivery' = delivery
        PROVE  [Progress!Next]_(Progress!vars)
    <3>1. Finished' = Finished
      BY <2>6, StatusChanges DEF Becomes
    <3>2. status \in {"RUNNING", "SUCCESS", "FAILED"}
      BY <2>1, <2>6 DEF TypeOK, Statuses, JobInv
    <3> QED
      BY <2>6, <3>1, <3>2 DEF Becomes, Progress!Next, Progress!Fail, Progress!vars
  <2>7. ASSUME pc = "succeed", pc' # "stepFailed", status # "deleted", Becomes("SUCCESS"),
               delivery' = delivery
        PROVE  [Progress!Next]_(Progress!vars)
    <3>1. status = "RUNNING"
      BY <2>1, <2>7 DEF JobInv
    <3>2. Finished' = Finished
      BY <2>7, StatusChanges DEF Becomes
    <3>3. Finished = 1..N
      BY <2>1, <2>7 DEF AfterInv, Finished, Succeeded, Steps
    <3> QED
      BY <2>7, <3>1, <3>2, <3>3 DEF Becomes, Progress!Next, Progress!Succeed
  <2>8. ASSUME pc = "stepFailed", RowFails, pc' # "stepFailed", delivery' = delivery
        PROVE  [Progress!Next]_(Progress!vars)
    BY <1>2, <2>8, FailingKeepsDone DEF RowFails, Progress!vars
  <2>9. ASSUME pc = "open", RowOpens, status # "deleted", pc' # "stepFailed",
               delivery' = delivery
        PROVE  [Progress!Next]_(Progress!vars)
    BY <1>2, <2>9, OpeningKeepsDone DEF RowOpens, Progress!vars
  <2>10. CASE Start \/ OpenLog \/ StepFailed \/ MarkFailed \/ Succeed
    <3>1. CASE Start
      BY <2>4, <3>1 DEF Start, Goto, jobVars
    <3>2. CASE OpenLog
      BY <2>9, <3>2 DEF OpenLog, Goto, jobVars
    <3>3. CASE StepFailed
      BY <2>8, <3>3 DEF StepFailed, Goto, jobVars
    <3>4. CASE MarkFailed
      BY <2>6, <3>4 DEF MarkFailed, Goto, jobVars
    <3>5. CASE Succeed
      BY <2>7, <3>5 DEF Succeed, Goto, jobVars
    <3> QED
      BY <2>10, <3>1, <3>2, <3>3, <3>4, <3>5
  <2>11. CASE Store
    BY <2>5, <2>11 DEF Store, Goto, jobVars
  <2>12. CASE ReplyLost
    <3>1. status # "deleted" /\ delivery' = delivery /\ step' = step
      BY <2>12 DEF ReplyLost, Goto, EndJob, jobVars
    <3>2. pc' = "stepFailed" => pc = "store"
      BY <2>12 DEF ReplyLost, Goto, EndJob
    <3>3. \/ pc = "start" /\ Becomes("RUNNING")
          \/ pc = "open" /\ RowOpens
          \/ pc = "store" /\ RowSucceeds
          \/ pc = "stepFailed" /\ RowFails
          \/ pc \in {"fail", "giveUp"} /\ Becomes("FAILED")
          \/ pc = "succeed" /\ Becomes("SUCCESS")
      BY <2>12 DEF ReplyLost
    <3> QED
      BY <2>4, <2>5, <2>6, <2>7, <2>8, <2>9, <3>1, <3>2, <3>3
  <2>13. CASE RecoverStalled
    <3>1. UNCHANGED <<log, status, pc>> /\ pc # "stepFailed"
      BY <2>1, <2>13 DEF RecoverStalled, JobInv, rowVars
    <3>2. CASE delivery' = delivery
      BY <2>3, <3>1, <3>2
    <3>3. CASE delivery' # delivery
      <4>1. delivery < MaxStalledCount /\ delivery' = delivery + 1
        BY <2>13, <3>3 DEF RecoverStalled
      <4>2. Finished' = {}
        BY <2>1, <2>2, <3>1, <4>1 DEF PastInv, Untouched, Deliveries, Finished, Succeeded, NoRow
      <4> QED
        BY <3>1, <4>1, <4>2 DEF Progress!Next, Progress!Redeliver
    <3> QED
      BY <3>2, <3>3
  <2>14. CASE Delete
    <3>1. status # "deleted" /\ status' = "deleted" /\ delivery' = delivery
      BY <2>14 DEF Delete, jobVars
    <3>2. Finished' = {}
      BY <2>2, <2>14, <3>1 DEF Delete, Finished, Succeeded, NoRow
    <3> QED
      BY <3>1, <3>2 DEF Progress!Next, Progress!Vanish
  <2> QED
    BY <1>2, <2>1, <2>3, <2>10, <2>11, <2>12, <2>13, <2>14, OthersKeepRows
<1> QED
  BY <1>1, <1>2, Invariance, PTL DEF Spec, RunsTheChain, Progress!Spec

-----------------------------------------------------------------------------
(* No execution goes on for ever.                                          *)

JobRank ==
  CASE job = "waiting" -> 3
    [] job = "active"  -> 2
    [] job = "stalled" -> 1
    [] OTHER           -> 0

PlaceRank ==
  CASE pc = "find"       -> 8
    [] pc = "start"      -> 7
    [] pc = "resolve"    -> 6
    [] pc \in {"stepFailed", "succeed"} -> 4
    [] pc = "fail"       -> 3
    [] pc = "giveUp"     -> 2
    [] pc = "ack"        -> 1
    [] pc = "idle"       -> 0
    [] OTHER             -> 5

OpenRank ==
  CASE pc = "open"        -> 2
    [] pc = "credentials" -> 1
    [] OTHER              -> 0

CallRank ==
  CASE pc = "backoff" -> 3
    [] pc = "call"    -> 2
    [] pc = "wait"    -> 1
    [] OTHER          -> 0

\* What is still to come, the slowest first: the deletion, the redeliveries,
\* the states of the job, the stages of execute(), the steps of the chain, the
\* two awaits before the first attempt at a step, its retries, the awaits of
\* one attempt, and the promises that nobody waits for.
Rank ==
  <<IF status = "deleted" THEN 0 ELSE 1,
    MaxStalledCount - delivery,
    JobRank,
    PlaceRank,
    N - step,
    OpenRank,
    RetryCount[step] - attempt,
    CallRank,
    Cardinality(inflight)>>

Ranks == [1..9 -> Nat]

\* Pairs of ranks, the first of which is the lower one.
Lower == LexProductOrdering(OpToRel(<, Nat), Nat, 9)

\* Only finitely many promises are pending at a time.
PendingInv == IsFiniteSet(inflight)

LEMMA PendingStep == PendingInv /\ [Next]_vars => PendingInv'
<1> SUFFICES ASSUME PendingInv, [Next]_vars PROVE PendingInv'
  OBVIOUS
<1> USE DEF PendingInv
<1>1. CASE Call
  BY <1>1, FS_AddElement DEF Call
<1>2. CASE inflight' \subseteq inflight
  BY <1>2, FS_Subset
<1>3. CASE Answer \/ AnswerFails \/ LateAnswer \/ Crash
  BY <1>2, <1>3 DEF Answer, AnswerFails, LateAnswer, Crash
<1>4. CASE Take \/ Find \/ Start \/ FindOrStartFails \/ Resolve \/ OpenLog \/ OpenLogFails
             \/ LoadCredentials \/ CredentialsFail \/ Timeout \/ Backoff \/ Store
             \/ StoreFails \/ StepFailed \/ StepFailedFails
  BY <1>2, <1>4 DEF Take, Find, Start, FindOrStartFails, Resolve, OpenLog, OpenLogFails,
     LoadCredentials, CredentialsFail, Timeout, Backoff, Store, StoreFails, StepFailed,
     StepFailedFails, actionVars
<1>5. CASE MarkFailed \/ GiveUpFails \/ Succeed \/ SucceedFails \/ Acknowledge
             \/ ReplyLost \/ RecoverStalled \/ Delete \/ UNCHANGED vars
  BY <1>2, <1>5 DEF MarkFailed, GiveUpFails, Succeed, SucceedFails, Acknowledge, ReplyLost,
     RecoverStalled, Delete, actionVars, vars
<1> QED
  BY <1>1, <1>3, <1>4, <1>5 DEF Next, EngineStep, Environment

\* A rank is a sequence of nine natural numbers,
LEMMA RankType == TypeOK /\ PendingInv => Rank \in [1..9 -> Nat]
<1> SUFFICES ASSUME TypeOK, PendingInv PROVE Rank \in [1..9 -> Nat]
  OBVIOUS
<1>1. /\ MaxStalledCount - delivery \in Nat /\ N - step \in Nat
      /\ RetryCount[step] - attempt \in Nat
  BY EngineAssumption DEF TypeOK, Deliveries, Steps
<1>2. Cardinality(inflight) \in Nat
  BY FS_CardinalityType DEF PendingInv
<1>3. JobRank \in Nat /\ PlaceRank \in Nat /\ OpenRank \in Nat /\ CallRank \in Nat
  BY DEF JobRank, PlaceRank, OpenRank, CallRank
<1> QED
  BY <1>1, <1>2, <1>3 DEF Rank

\* compared by the first of them that differs.
LEMMA FirstThatFalls ==
  ASSUME NEW a \in [1..9 -> Nat], NEW b \in [1..9 -> Nat], NEW n \in 1..9,
         a[n] < b[n], \A m \in 1..(n - 1) : a[m] = b[m]
  PROVE  <<a, b>> \in Lower
<1>1. <<a[n], b[n]>> \in OpToRel(<, Nat)
  BY DEF OpToRel
<1> QED
  BY <1>1 DEF Lower, LexProductOrdering

\* No sequence of ranks falls for ever.
LEMMA RanksAreWellFounded == IsWellFoundedOn(Lower, Ranks)
<1>1. IsWellFoundedOn(OpToRel(<, Nat), Nat)
  BY NatLessThanWellFounded
<1> QED
  BY <1>1, WFLexProductOrdering DEF Lower, Ranks

\* Every action lowers one of the nine and keeps those before it.
LEMMA RankFalls ==
  ASSUME IInv, PendingInv, Next
  PROVE  <<Rank', Rank>> \in Lower
<1> USE EngineAssumption
<1>0. TypeOK /\ JobInv
  BY DEF IInv
<1> DEFINE Falls(n) == Rank'[n] < Rank[n] /\ \A m \in 1..(n - 1) : Rank'[m] = Rank[m]
<1>1. Rank \in [1..9 -> Nat] /\ Rank' \in [1..9 -> Nat]
  <2>1. TypeOK' /\ PendingInv'
    BY <1>0, TypeStep, PendingStep
  <2>2. Rank \in [1..9 -> Nat]
    BY <1>0, RankType
  <2>3. (TypeOK /\ PendingInv => Rank \in [1..9 -> Nat])'
    BY RankType, PTL
  <2> QED BY <2>1, <2>2, <2>3
<1>2. ASSUME NEW n \in 1..9, Falls(n) PROVE <<Rank', Rank>> \in Lower
  BY <1>1, <1>2, FirstThatFalls
<1>3. /\ delivery \in 0..MaxStalledCount /\ step \in 1..N /\ step \in Nat
      /\ RetryCount[step] \in Nat /\ attempt \in Nat /\ attempt <= RetryCount[step]
      /\ status \in Statuses \cup {"deleted"}
      /\ Cardinality(inflight) \in Nat
  BY <1>0, FS_CardinalityType DEF TypeOK, Deliveries, Steps, PendingInv
<1>4. CASE Delete
  <2>1. Falls(1)
    BY <1>4 DEF Delete, Rank
  <2> QED BY <1>2, <2>1
<1>5. CASE RecoverStalled
  <2>1. CASE delivery < MaxStalledCount
    <3>1. Falls(2)
      BY <1>3, <1>5, <2>1 DEF RecoverStalled, Rank, rowVars
    <3> QED BY <1>2, <3>1
  <2>2. CASE ~ (delivery < MaxStalledCount)
    <3>1. JobRank' < JobRank
      BY <1>5, <2>2 DEF RecoverStalled, JobRank
    <3>2. Falls(3)
      BY <1>5, <2>2, <3>1 DEF RecoverStalled, Rank, rowVars
    <3> QED BY <1>2, <3>2
  <2> QED BY <2>1, <2>2
<1>6. CASE Take \/ Crash
  <2>1. JobRank' < JobRank
    BY <1>0, <1>6 DEF Take, Crash, EndJob, JobRank, JobInv
  <2>2. Falls(3)
    BY <1>6, <2>1 DEF Take, Crash, EndJob, Rank, rowVars
  <2> QED BY <1>2, <2>2
\* The job ends, and with it the delivery.
<1>7. ASSUME UNCHANGED status, pc # "idle", EndJob("completed") \/ EndJob("failed")
      PROVE  <<Rank', Rank>> \in Lower
  <2>1. JobRank' < JobRank
    BY <1>0, <1>7 DEF EndJob, JobRank, JobInv
  <2>2. Falls(3)
    BY <1>7, <2>1 DEF EndJob, Rank
  <2> QED BY <1>2, <2>2
<1>8. CASE FindOrStartFails \/ GiveUpFails \/ Acknowledge
  BY <1>7, <1>8 DEF FindOrStartFails, GiveUpFails, Acknowledge, rowVars
\* A place is left for a later one.
<1>9. ASSUME UNCHANGED jobVars,
             status = "deleted" <=> status' = "deleted",
             PlaceRank' < PlaceRank
      PROVE  <<Rank', Rank>> \in Lower
  <2>1. Falls(4)
    BY <1>9 DEF Rank, JobRank, jobVars
  <2> QED BY <1>2, <2>1
<1>10. CASE Find \/ Start \/ Resolve
  BY <1>7, <1>9, <1>10 DEF Find, Start, Becomes, Resolve, Goto, PlaceRank, rowVars,
     actionVars
<1>11. CASE OpenLogFails \/ CredentialsFail \/ StoreFails \/ StepFailed \/ StepFailedFails
  BY <1>9, <1>11 DEF OpenLogFails, CredentialsFail, StoreFails, StepFailed, StepFailedFails,
     RowFails, Goto, PlaceRank, rowVars, actionVars
<1>12. CASE MarkFailed \/ Succeed \/ SucceedFails
  BY <1>9, <1>12 DEF MarkFailed, Succeed, Becomes, SucceedFails, Goto, PlaceRank, rowVars,
     actionVars
\* The next step, or the first attempt at this one.
<1>13. CASE Store
  <2>1. CASE step = N
    BY <1>9, <1>13, <2>1 DEF Store, RowSucceeds, Goto, PlaceRank, actionVars
  <2>2. CASE step # N
    <3>1. Falls(5)
      BY <1>3, <1>13, <2>2 DEF Store, RowSucceeds, Goto, Rank, JobRank, PlaceRank, jobVars
    <3> QED BY <1>2, <3>1
  <2> QED BY <2>1, <2>2
<1>14. CASE OpenLog \/ LoadCredentials
  <2>1. Falls(6)
    BY <1>3, <1>14 DEF OpenLog, RowOpens, LoadCredentials, Goto, Rank, JobRank, PlaceRank, OpenRank,
       rowVars, jobVars, localVars
  <2> QED BY <1>2, <2>1
\* An attempt that failed: its promise may stay behind.
<1>15. CASE Timeout \/ AnswerFails
  <2>1. NextAttempt /\ UNCHANGED <<status, step>> /\ pc = "wait"
    BY <1>15 DEF Timeout, AnswerFails, rowVars
  <2>2. CASE pc' = "stepFailed"
    <3>1. Falls(4)
      BY <1>0, <2>1, <2>2, NextAttemptGoes DEF Rank, JobRank, PlaceRank, jobVars
    <3> QED BY <1>2, <3>1
  <2>3. CASE pc' = "backoff"
    <3>1. Falls(7)
      BY <1>0, <1>3, <2>1, <2>3, NextAttemptGoes DEF Rank, JobRank, PlaceRank, OpenRank,
         jobVars
    <3> QED BY <1>2, <3>1
  <2> QED BY <1>0, <2>1, <2>2, <2>3, NextAttemptGoes
<1>16. CASE Call \/ Answer \/ Backoff
  <2>1. Falls(8)
    BY <1>3, <1>16 DEF Call, Answer, Backoff, Goto, Rank, JobRank, PlaceRank, OpenRank,
       CallRank, rowVars, jobVars, localVars
  <2> QED BY <1>2, <2>1
<1>17. CASE LateAnswer
  <2>1. PICK t \in inflight : inflight' = inflight \ {t}
    BY <1>17 DEF LateAnswer
  <2>2. Cardinality(inflight') = Cardinality(inflight) - 1
    BY <2>1, FS_RemoveElement DEF PendingInv
  <2>3. Falls(9)
    BY <1>3, <1>17, <2>2 DEF LateAnswer, Rank, JobRank, PlaceRank, OpenRank, CallRank,
       rowVars, jobVars, localVars
  <2> QED BY <1>2, <2>3
<1>18. CASE ReplyLost
  <2>1. status # "deleted" /\ status' # "deleted"
    BY <1>18 DEF ReplyLost, RowOpens, RowSucceeds, RowFails, Becomes
  <2>2. CASE pc \in {"start", "giveUp"}
    <3>1. JobRank' < JobRank
      BY <1>0, <1>18, <2>2 DEF ReplyLost, EndJob, JobRank, JobInv
    <3>2. Falls(3)
      BY <1>18, <2>1, <2>2, <3>1 DEF ReplyLost, EndJob, Rank
    <3> QED BY <1>2, <3>2
  <2>3. CASE pc \notin {"start", "giveUp"}
    <3>1. UNCHANGED jobVars /\ PlaceRank' < PlaceRank
      BY <1>18, <2>3 DEF ReplyLost, Goto, PlaceRank
    <3> QED BY <1>9, <2>1, <3>1
  <2> QED BY <2>2, <2>3
<1> QED
  BY <1>4, <1>5, <1>6, <1>8, <1>10, <1>11, <1>12, <1>13, <1>14, <1>15, <1>16, <1>17, <1>18
     DEF Next, EngineStep, Environment

LEMMA RankInit == Init => PendingInv
  BY FS_EmptySet DEF Init, PendingInv

\* Retries, redeliveries, crashes, timeouts and late answers can delay the end
\* of an execution, but every step that the worker, BullMQ, an action or the
\* owner takes brings it nearer, and ranks do not fall for ever: there is no
\* behaviour, fair or not, in which an execution takes infinitely many steps.
THEOREM ExecutionsEnd ==
  /\ IsWellFoundedOn(Lower, Ranks)
  /\ Spec => [](Rank \in Ranks) /\ [][(<<Rank', Rank>> \in Lower)]_vars
<1>1. Init => IInv /\ PendingInv
  BY InitInv, RankInit
<1>2. IInv /\ PendingInv /\ [Next]_vars => (IInv /\ PendingInv)'
  BY NextInv, PendingStep
<1>3. IInv /\ PendingInv => Rank \in Ranks
  BY RankType DEF IInv, Ranks
<1>4. IInv /\ PendingInv /\ [Next]_vars => [(<<Rank', Rank>> \in Lower)]_vars
  BY RankFalls
<1>5. Spec => [](Rank \in Ranks) /\ [][(<<Rank', Rank>> \in Lower)]_vars
  BY <1>1, <1>2, <1>3, <1>4, PTL DEF Spec
<1> QED
  BY <1>5, RanksAreWellFounded
=============================================================================
