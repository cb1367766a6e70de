------------------------ MODULE ExecutionIntakeProofs ------------------------
(***************************************************************************)
(* Proofs, for any number of calls, keys, crashes and faults, of the       *)
(* safety properties that MCExecutionIntake checks on small instances.     *)
(* None of them is inductive alone: each needs to know how far a call can  *)
(* have come given its rows and its job.  The parts of the inductive       *)
(* invariant say that, one relation each.                                  *)
(***************************************************************************)
EXTENDS ExecutionIntake, WellFoundedInduction, TLAPS

\* The place of a call against what it has created so far.
CallInv ==
  \A r \in Calls :
    /\ pc[r] # "done" <=> answer[r] = "none"
    /\ pc[r] \in {"idle", "checked"} =>
         execution[r] = "none" /\ job[r] = "none"
    /\ pc[r] = "committed" => job[r] = "none"
    /\ pc[r] \in {"queued", "removing"} => Keyed(r)
    /\ pc[r] = "queued" => job[r] \notin {"none", "removed"}
    /\ pc[r] \in {"committed", "queued", "removing", "cleaning"}
         /\ workflow # "deleted" => Present(r)

\* A row is deleted with its workflow, or by the call that owns it and that
\* then answers with an error.
RowInv ==
  \A r \in Calls :
    /\ workflow = "deleted" => ~ Present(r)
    /\ workflow # "deleted" /\ execution[r] = "deleted" => answer[r] = "error"
    /\ runs[r] > 0 => execution[r] # "none"

\* The lock on a job, and how many deliveries its runs account for.
JobInv ==
  \A r \in Calls :
    /\ job[r] = "active" <=> worker = r
    /\ job[r] = "none" => execution[r] \notin Terminal /\ runs[r] = 0
    /\ runs[r] <= 1 + stalls[r]
    /\ job[r] = "waiting" => runs[r] <= stalls[r]
    /\ worker = r /\ stage \notin {"finish", "unseen"} => runs[r] <= stalls[r]
    /\ execution[r] \in Terminal /\ stalls[r] = 0 =>
         \/ job[r] \in {"stalled", "completed", "failed", "removed"}
         \/ /\ worker = r /\ stage = "unseen" /\ faults > 0
            /\ execution[r] = "SUCCESS"

\* A second execution of a key is created only after the first one was
\* withdrawn.
SecondInv ==
  \A q, r \in Calls :
    q # r /\ Keyed(q) /\ Key(q) = Key(r)
      /\ execution[q] # "none" /\ execution[r] # "none"
        => "error" \in {answer[q], answer[r]}

IInv ==
  /\ TypeOK
  /\ CallInv
  /\ RowInv
  /\ JobInv
  /\ SecondInv
  /\ OneExecutionPerKey
  /\ EventIffExecution
  /\ CreatedIsKept

-----------------------------------------------------------------------------
(* One lemma per action: it preserves the inductive invariant.             *)

USE IntakeAssumption

LEMMA ReceiveInv ==
  ASSUME NEW r \in Calls, IInv, Receive(r)
  PROVE  IInv'
<1> USE DEF IInv, TypeOK, Receive, Goto, workerVars, jobVars, faultVars
<1>1. TypeOK'
  BY DEF InProgress
<1>2. CallInv' /\ RowInv' /\ JobInv' /\ SecondInv'
  BY DEF CallInv, Present, RowInv, JobInv, SecondInv
<1>3. OneExecutionPerKey' /\ EventIffExecution' /\ CreatedIsKept'
  BY DEF OneExecutionPerKey, Present, EventIffExecution, CreatedIsKept
<1> QED
  BY <1>1, <1>2, <1>3

LEMMA RejectInv ==
  ASSUME NEW r \in Calls, IInv, Reject(r)
  PROVE  IInv'
<1> USE DEF IInv, TypeOK, Reject, Finish, workerVars, jobVars, faultVars
<1>1. TypeOK'
  BY DEF InProgress
<1>2. RowInv'
  BY DEF RowInv, CallInv, Present
<1>3. SecondInv'
  BY DEF SecondInv, CallInv
<1>4. CallInv' /\ JobInv' /\ OneExecutionPerKey' /\ EventIffExecution'
  BY DEF CallInv, Present, JobInv, OneExecutionPerKey, EventIffExecution
<1>5. CreatedIsKept'
  BY DEF CreatedIsKept, Present
<1> QED
  BY <1>1, <1>2, <1>3, <1>4, <1>5

LEMMA CreateInv ==
  ASSUME NEW r \in Calls, IInv, Create(r)
  PROVE  IInv'
<1> USE DEF IInv, TypeOK, Create, Goto, workerVars, jobVars, faultVars
<1>1. TypeOK'
  BY DEF InProgress, Statuses
<1>2. JobInv'
  BY DEF JobInv, Terminal
<1>3. SecondInv'
  BY DEF SecondInv, RowInv, EventIffExecution, Keyed, Present
<1>4. OneExecutionPerKey'
  BY DEF OneExecutionPerKey, EventIffExecution, Keyed, Present
<1>5. EventIffExecution'
  BY DEF EventIffExecution, Statuses, Keyed, Present
<1>6. CreatedIsKept'
  BY DEF CreatedIsKept, CallInv, Present
<1>7. CallInv' /\ RowInv'
  BY DEF CallInv, Statuses, Present, RowInv
<1> QED
  BY <1>1, <1>2, <1>3, <1>4, <1>5, <1>6, <1>7

LEMMA DuplicateInv ==
  ASSUME NEW r \in Calls, IInv, Duplicate(r)
  PROVE  IInv'
<1> USE DEF IInv, TypeOK, Duplicate, Finish, workerVars, jobVars, faultVars
<1>1. TypeOK'
  BY DEF InProgress
<1>2. RowInv'
  BY DEF RowInv, CallInv
<1>3. SecondInv'
  BY DEF SecondInv, CallInv
<1>4. CallInv' /\ JobInv' /\ OneExecutionPerKey' /\ EventIffExecution'
  BY DEF CallInv, Present, JobInv, OneExecutionPerKey, EventIffExecution
<1>5. CreatedIsKept'
  BY DEF CreatedIsKept, Present
<1> QED
  BY <1>1, <1>2, <1>3, <1>4, <1>5

LEMMA CreateFailsInv ==
  ASSUME NEW r \in Calls, IInv, CreateFails(r)
  PROVE  IInv'
<1> USE DEF IInv, TypeOK, CreateFails, Finish, Fault, workerVars, jobVars,
            faultVars
<1>1. TypeOK'
  BY DEF InProgress
<1>2. CallInv' /\ RowInv' /\ JobInv' /\ SecondInv'
  BY DEF CallInv, Present, RowInv, JobInv, SecondInv
<1>3. OneExecutionPerKey' /\ EventIffExecution' /\ CreatedIsKept'
  BY DEF OneExecutionPerKey, Present, EventIffExecution, CreatedIsKept
<1> QED
  BY <1>1, <1>2, <1>3

LEMMA EnqueueInv ==
  ASSUME NEW r \in Calls, IInv, Enqueue(r)
  PROVE  IInv'
<1> USE DEF IInv, TypeOK, Enqueue, Goto, Finish, workerVars, faultVars
<1>1. TypeOK'
  BY DEF InProgress
<1>2. RowInv'
  BY DEF RowInv, CallInv, Present
<1>3. JobInv'
  BY DEF JobInv, CallInv
<1>4. SecondInv'
  BY DEF SecondInv, CallInv
<1>5. CreatedIsKept'
  BY DEF CreatedIsKept, CallInv, Present
<1>6. CallInv' /\ OneExecutionPerKey' /\ EventIffExecution'
  BY DEF CallInv, Present, OneExecutionPerKey, EventIffExecution
<1> QED
  BY <1>1, <1>2, <1>3, <1>4, <1>5, <1>6

LEMMA EnqueueFailsInv ==
  ASSUME NEW r \in Calls, IInv, EnqueueFails(r)
  PROVE  IInv'
<1> USE DEF IInv, TypeOK, EnqueueFails, Goto, Fault, workerVars
<1>1. TypeOK'
  BY DEF InProgress
<1>2. JobInv'
  BY DEF JobInv, CallInv
<1>3. CallInv' /\ RowInv' /\ SecondInv' /\ OneExecutionPerKey'
  BY DEF CallInv, Present, RowInv, SecondInv, OneExecutionPerKey
<1>4. EventIffExecution' /\ CreatedIsKept'
  BY DEF EventIffExecution, Present, CreatedIsKept
<1> QED
  BY <1>1, <1>2, <1>3, <1>4

LEMMA MarkProcessedInv ==
  ASSUME NEW r \in Calls, IInv, MarkProcessed(r)
  PROVE  IInv'
<1> USE DEF IInv, TypeOK, MarkProcessed, Finish, workerVars, jobVars,
            faultVars
<1>1. TypeOK'
  BY DEF InProgress
<1>2. RowInv'
  BY DEF RowInv, CallInv, Present
<1>3. SecondInv'
  BY DEF SecondInv, CallInv
<1>4. CreatedIsKept'
  BY DEF CreatedIsKept, CallInv, Keyed, Present
<1>5. CallInv' /\ JobInv' /\ OneExecutionPerKey' /\ EventIffExecution'
  BY DEF CallInv, Present, JobInv, OneExecutionPerKey, EventIffExecution
<1> QED
  BY <1>1, <1>2, <1>3, <1>4, <1>5

LEMMA MarkProcessedFailsInv ==
  ASSUME NEW r \in Calls, IInv, MarkProcessedFails(r)
  PROVE  IInv'
<1> USE DEF IInv, TypeOK, MarkProcessedFails, Goto, Fault, workerVars,
            jobVars, faultVars
<1>1. TypeOK'
  BY DEF InProgress
<1>2. CallInv' /\ RowInv' /\ JobInv' /\ SecondInv'
  BY DEF CallInv, Present, RowInv, JobInv, SecondInv
<1>3. OneExecutionPerKey' /\ EventIffExecution' /\ CreatedIsKept'
  BY DEF OneExecutionPerKey, Present, EventIffExecution, CreatedIsKept
<1> QED
  BY <1>1, <1>2, <1>3

LEMMA RemoveJobInv ==
  ASSUME NEW r \in Calls, IInv, RemoveJob(r)
  PROVE  IInv'
<1> USE DEF IInv, TypeOK, RemoveJob, Goto, workerVars, faultVars
<1>1. TypeOK'
  BY DEF InProgress
<1>2. CreatedIsKept'
  BY DEF CreatedIsKept, CallInv, Present
<1>3. CallInv' /\ RowInv' /\ JobInv' /\ SecondInv'
  BY DEF CallInv, Present, RowInv, JobInv, SecondInv
<1>4. OneExecutionPerKey' /\ EventIffExecution'
  BY DEF OneExecutionPerKey, Present, EventIffExecution
<1> QED
  BY <1>1, <1>2, <1>3, <1>4

LEMMA RemoveJobFailsInv ==
  ASSUME NEW r \in Calls, IInv, RemoveJobFails(r)
  PROVE  IInv'
<1> USE DEF IInv, TypeOK, RemoveJobFails, Finish, Fault, workerVars, jobVars,
            faultVars
<1>1. TypeOK'
  BY DEF InProgress
<1>2. CallInv' /\ RowInv' /\ JobInv' /\ SecondInv'
  BY DEF CallInv, Present, RowInv, JobInv, SecondInv
<1>3. OneExecutionPerKey' /\ EventIffExecution' /\ CreatedIsKept'
  BY DEF OneExecutionPerKey, Present, EventIffExecution, CreatedIsKept
<1> QED
  BY <1>1, <1>2, <1>3

LEMMA CleanupInv ==
  ASSUME NEW r \in Calls, IInv, Cleanup(r)
  PROVE  IInv'
<1> USE DEF IInv, TypeOK, Cleanup, Finish, workerVars, jobVars, faultVars
<1>1. TypeOK'
  BY DEF InProgress
<1>2. JobInv'
  BY DEF JobInv, Terminal
<1>3. EventIffExecution'
  BY DEF EventIffExecution, OneExecutionPerKey, Statuses, Keyed, Present
<1>4. CreatedIsKept'
  BY DEF CreatedIsKept, OneExecutionPerKey, Present
<1>5. CallInv' /\ RowInv' /\ SecondInv' /\ OneExecutionPerKey'
  BY DEF CallInv, Present, RowInv, SecondInv, OneExecutionPerKey
<1> QED
  BY <1>1, <1>2, <1>3, <1>4, <1>5

LEMMA CleanupFailsInv ==
  ASSUME NEW r \in Calls, IInv, CleanupFails(r)
  PROVE  IInv'
<1> USE DEF IInv, TypeOK, CleanupFails, Finish, Fault, workerVars, jobVars,
            faultVars
<1>1. TypeOK'
  BY DEF InProgress
<1>2. CallInv' /\ RowInv' /\ JobInv' /\ SecondInv'
  BY DEF CallInv, Present, RowInv, JobInv, SecondInv
<1>3. OneExecutionPerKey' /\ EventIffExecution' /\ CreatedIsKept'
  BY DEF OneExecutionPerKey, Present, EventIffExecution, CreatedIsKept
<1> QED
  BY <1>1, <1>2, <1>3

LEMMA TakeInv ==
  ASSUME NEW r \in Calls, IInv, Take(r)
  PROVE  IInv'
<1> USE DEF IInv, TypeOK, Take, callVars, faultVars
<1>1. TypeOK'
  BY DEF InProgress
<1>2. CallInv' /\ RowInv' /\ JobInv' /\ SecondInv'
  BY DEF CallInv, Present, RowInv, JobInv, SecondInv
<1>3. OneExecutionPerKey' /\ EventIffExecution' /\ CreatedIsKept'
  BY DEF OneExecutionPerKey, Present, EventIffExecution, CreatedIsKept
<1> QED
  BY <1>1, <1>2, <1>3

LEMMA FindInv ==
  ASSUME NEW r \in Calls, IInv, Find(r)
  PROVE  IInv'
<1> USE DEF IInv, TypeOK, Find, Settle, callVars, faultVars
<1>1. TypeOK'
  BY DEF InProgress
<1>2. CallInv'
  BY DEF CallInv, JobInv, Present
<1>3. RowInv' /\ JobInv' /\ SecondInv' /\ OneExecutionPerKey'
  BY DEF RowInv, Present, JobInv, SecondInv, OneExecutionPerKey
<1>4. EventIffExecution' /\ CreatedIsKept'
  BY DEF EventIffExecution, Present, CreatedIsKept
<1> QED
  BY <1>1, <1>2, <1>3, <1>4

LEMMA StartInv ==
  ASSUME NEW r \in Calls, IInv, Start(r)
  PROVE  IInv'
<1> USE DEF IInv, TypeOK, Start, Settle, callVars, faultVars
<1>1. TypeOK'
  BY DEF InProgress, Statuses
<1>2. CallInv'
  BY DEF CallInv, JobInv, Statuses, Present
<1>3. JobInv'
  BY DEF JobInv, Terminal
<1>4. RowInv' /\ SecondInv' /\ OneExecutionPerKey' /\ EventIffExecution'
  BY DEF RowInv, Present, SecondInv, Statuses, OneExecutionPerKey,
         EventIffExecution
<1>5. CreatedIsKept'
  BY DEF CreatedIsKept, Statuses, Present
<1> QED
  BY <1>1, <1>2, <1>3, <1>4, <1>5

LEMMA RunInv ==
  ASSUME NEW r \in Calls, IInv, Run(r)
  PROVE  IInv'
<1> USE DEF IInv, TypeOK, Run, Settle, callVars, faultVars
<1>1. TypeOK'
  BY DEF InProgress
<1>2. CallInv'
  BY DEF CallInv, JobInv, Present
<1>3. RowInv' /\ JobInv' /\ SecondInv' /\ OneExecutionPerKey'
  BY DEF RowInv, Statuses, Present, JobInv, SecondInv, OneExecutionPerKey
<1>4. EventIffExecution' /\ CreatedIsKept'
  BY DEF EventIffExecution, Present, CreatedIsKept
<1> QED
  BY <1>1, <1>2, <1>3, <1>4

LEMMA CompleteInv ==
  ASSUME NEW r \in Calls, IInv, Complete(r)
  PROVE  IInv'
<1> USE DEF IInv, TypeOK, Outcomes, Complete, Settle, callVars, faultVars
<1>1. TypeOK'
  BY DEF InProgress, Statuses, Terminal
<1>2. CallInv'
  BY DEF CallInv, JobInv, Statuses, Terminal, Present
<1>3. RowInv'
  BY DEF RowInv, Terminal, Present
<1>4. EventIffExecution'
  BY DEF EventIffExecution, Statuses, Terminal, Present
<1>5. CreatedIsKept'
  BY DEF CreatedIsKept, Statuses, Terminal, Present
<1>6. JobInv' /\ SecondInv' /\ OneExecutionPerKey'
  BY DEF JobInv, SecondInv, Statuses, Present, OneExecutionPerKey
<1> QED
  BY <1>1, <1>2, <1>3, <1>4, <1>5, <1>6

LEMMA SuccessUnseenInv ==
  ASSUME NEW r \in Calls, IInv, SuccessUnseen(r)
  PROVE  IInv'
<1> USE DEF IInv, TypeOK, SuccessUnseen, Fault, callVars, jobVars
<1>1. TypeOK'
  BY DEF Statuses
<1>2. CallInv'
  BY DEF CallInv, JobInv, Statuses, Present
<1>3. RowInv'
  BY DEF RowInv, Present
<1>4. EventIffExecution'
  BY DEF EventIffExecution, Statuses, Present
<1>5. CreatedIsKept'
  BY DEF CreatedIsKept, Statuses, Present
<1>6. JobInv' /\ SecondInv' /\ OneExecutionPerKey'
  BY DEF JobInv, SecondInv, Statuses, Present, OneExecutionPerKey
<1> QED
  BY <1>1, <1>2, <1>3, <1>4, <1>5, <1>6

LEMMA WorkerCrashInv ==
  ASSUME NEW r \in Calls, IInv, WorkerCrash(r)
  PROVE  IInv'
<1> USE DEF IInv, TypeOK, Outcomes, WorkerCrash, Settle, callVars
<1>1. TypeOK'
  BY DEF InProgress, Statuses, Terminal
<1>2. CallInv'
  BY DEF CallInv, JobInv, Statuses, Terminal, Present
<1>3. RowInv'
  BY DEF RowInv, Terminal, Present
<1>4. EventIffExecution'
  BY DEF EventIffExecution, Statuses, Terminal, Present
<1>5. CreatedIsKept'
  BY DEF CreatedIsKept, Statuses, Terminal, Present
<1>6. JobInv' /\ SecondInv' /\ OneExecutionPerKey'
  BY DEF JobInv, SecondInv, Statuses, Present, OneExecutionPerKey
<1> QED
  BY <1>1, <1>2, <1>3, <1>4, <1>5, <1>6

LEMMA RecoverStalledInv ==
  ASSUME NEW r \in Calls, IInv, RecoverStalled(r)
  PROVE  IInv'
<1> USE DEF IInv, TypeOK, RecoverStalled, callVars, workerVars, faultVars
<1>1. TypeOK'
  BY DEF InProgress
<1>2. CallInv' /\ RowInv' /\ JobInv' /\ SecondInv'
  BY DEF CallInv, Present, RowInv, JobInv, SecondInv
<1>3. OneExecutionPerKey' /\ EventIffExecution' /\ CreatedIsKept'
  BY DEF OneExecutionPerKey, Present, EventIffExecution, CreatedIsKept
<1> QED
  BY <1>1, <1>2, <1>3

LEMMA WorkerFaultInv ==
  ASSUME NEW r \in Calls, IInv, WorkerFault(r)
  PROVE  IInv'
<1> USE DEF IInv, TypeOK, WorkerFault, Fault, Settle, callVars
<1>0. /\ \A q \in Calls : execution'[q] \in Statuses <=> execution[q] \in Statuses
      /\ \A q \in Calls : execution[q] \notin Statuses => execution'[q] = execution[q]
      /\ execution' \in [Calls -> {"none", "deleted"} \cup Statuses]
      /\ \A q \in Calls : q # r => execution'[q] = execution[q]
  BY DEF Present, Statuses
<1>1. TypeOK'
  <2>1. /\ job' \in [Calls -> {"none", "waiting", "active", "stalled", "completed",
                            "failed", "removed"}]
        /\ worker' \in Calls \cup {NoCall}
        /\ stage' = "none"
        /\ faults' \in 0..MaxFaults
    BY <1>0 DEF Outcomes
  <2>2. UNCHANGED <<workflow, pc, answer, event, stalls, runs, crashes, restarts>>
    OBVIOUS
  <2> QED
    BY <1>0, <2>1, <2>2
<1>2. JobInv'
  <2>1. \A q \in Calls : execution'[q] \in Terminal /\ execution[q] \notin Terminal => q = r
    BY <1>0
  <2>2. job'[r] = "failed" /\ \A q \in Calls : q # r => job'[q] = job[q]
    OBVIOUS
  <2> QED
    BY <1>0, <2>1, <2>2 DEF JobInv, Terminal, Statuses
<1>3. CallInv'
  BY <1>0 DEF CallInv, Present, JobInv, Statuses
<1>4. RowInv' /\ SecondInv'
  BY <1>0 DEF RowInv, SecondInv, Present, Statuses
<1>5. OneExecutionPerKey' /\ EventIffExecution'
  BY <1>0 DEF OneExecutionPerKey, EventIffExecution, Present
<1>6. CreatedIsKept'
  BY <1>0 DEF CreatedIsKept, Present
<1> QED
  BY <1>1, <1>2, <1>3, <1>4, <1>5, <1>6

LEMMA ChangeStatusInv ==
  ASSUME IInv, ChangeStatus
  PROVE  IInv'
<1> USE DEF IInv, TypeOK, ChangeStatus, callVars, workerVars, jobVars,
            faultVars
<1>1. TypeOK'
  BY DEF InProgress
<1>2. CallInv' /\ RowInv' /\ JobInv' /\ SecondInv'
  BY DEF CallInv, Present, RowInv, JobInv, SecondInv
<1>3. OneExecutionPerKey' /\ EventIffExecution' /\ CreatedIsKept'
  BY DEF OneExecutionPerKey, Present, EventIffExecution, CreatedIsKept
<1> QED
  BY <1>1, <1>2, <1>3

LEMMA DeleteWorkflowInv ==
  ASSUME IInv, DeleteWorkflow
  PROVE  IInv'
<1> USE DEF IInv, TypeOK, DeleteWorkflow, callVars, workerVars, jobVars,
            faultVars
<1>1. TypeOK'
  BY DEF InProgress
<1>2. JobInv'
  BY DEF JobInv, Terminal
<1>3. CallInv' /\ RowInv' /\ SecondInv' /\ OneExecutionPerKey'
  BY DEF CallInv, Statuses, Present, RowInv, SecondInv, OneExecutionPerKey
<1>4. EventIffExecution' /\ CreatedIsKept'
  BY DEF EventIffExecution, Statuses, Present, CreatedIsKept
<1> QED
  BY <1>1, <1>2, <1>3, <1>4

LEMMA ApiCrashInv ==
  ASSUME IInv, ApiCrash
  PROVE  IInv'
<1> USE DEF IInv, TypeOK, ApiCrash, workerVars, jobVars
<1>1. TypeOK'
  BY DEF InProgress
<1>2. RowInv'
  BY DEF RowInv, CallInv, Present, InProgress
<1>3. SecondInv'
  BY DEF SecondInv, CallInv, InProgress
<1>4. CallInv' /\ JobInv' /\ OneExecutionPerKey' /\ EventIffExecution'
  BY DEF CallInv, JobInv, OneExecutionPerKey, Present, EventIffExecution
<1>5. CreatedIsKept'
  BY DEF CreatedIsKept, Present
<1> QED
  BY <1>1, <1>2, <1>3, <1>4, <1>5
-----------------------------------------------------------------------------
(* The invariant, and what follows from it.                                *)

LEMMA InitInv == Init => IInv
<1> SUFFICES ASSUME Init PROVE IInv
  OBVIOUS
<1>1. TypeOK
  BY DEF Init, TypeOK, InProgress, Statuses
<1>2. CallInv /\ RowInv /\ JobInv /\ SecondInv
  BY DEF Init, CallInv, RowInv, JobInv, SecondInv, Present, Statuses, Terminal
<1>3. OneExecutionPerKey /\ EventIffExecution /\ CreatedIsKept
  BY DEF Init, OneExecutionPerKey, EventIffExecution, CreatedIsKept, Present,
         Statuses
<1> QED
  BY <1>1, <1>2, <1>3 DEF IInv

LEMMA StutterInv == ASSUME IInv, UNCHANGED vars PROVE IInv'
<1> USE DEF vars, IInv
<1>1. TypeOK' /\ CallInv'
  BY DEF TypeOK, CallInv, Present, Keyed, Key
<1>2. RowInv' /\ JobInv' /\ SecondInv'
  BY DEF RowInv, JobInv, SecondInv, Present, Keyed, Key
<1>3. OneExecutionPerKey' /\ EventIffExecution' /\ CreatedIsKept'
  BY DEF OneExecutionPerKey, EventIffExecution, CreatedIsKept, Present, Keyed,
         Key
<1> QED
  BY <1>1, <1>2, <1>3

LEMMA NextInv == IInv /\ [Next]_vars => IInv'
<1> SUFFICES ASSUME IInv, [Next]_vars PROVE IInv'
  OBVIOUS
<1>1. ASSUME NEW r \in Calls, CallStep(r) PROVE IInv'
  BY <1>1, ReceiveInv, RejectInv, CreateInv, DuplicateInv, CreateFailsInv,
     EnqueueInv, EnqueueFailsInv, MarkProcessedInv, MarkProcessedFailsInv,
     RemoveJobInv, RemoveJobFailsInv, CleanupInv, CleanupFailsInv
  DEF CallStep
<1>2. ASSUME NEW r \in Calls, WorkerStep(r) PROVE IInv'
  BY <1>2, TakeInv, FindInv, StartInv, RunInv, CompleteInv DEF WorkerStep
<1> QED
  BY <1>1, <1>2, WorkerFaultInv, SuccessUnseenInv, WorkerCrashInv, RecoverStalledInv,
     ChangeStatusInv, DeleteWorkflowInv, ApiCrashInv, StutterInv
  DEF Next

\* The inductive invariant holds in every reachable state: calls, rows, jobs
\* and answers of startExecution, retryExecution and the worker stay in step.
THEOREM Invariance == Spec => []IInv
  BY InitInv, NextInv, PTL DEF Spec

\* Every variable keeps its type; the runs counter stays a natural number.
THEOREM TypeCorrect == Spec => []TypeOK
  BY Invariance, PTL DEF IInv

\* Any number of concurrent posts of one idempotency key leaves at most one
\* execution of it in the database (the transaction of startExecution).
THEOREM Unique == Spec => []OneExecutionPerKey
  BY Invariance, PTL DEF IInv

\* The TriggerEvent row of a key exists exactly while an execution of the key
\* does, through failures, clean-ups and deletions.
THEOREM EventMatches == Spec => []EventIffExecution
  BY Invariance, PTL DEF IInv

\* Each taken key has one execution, and keeps it as long as it is taken.
THEOREM KeyHeld == Spec => []KeyHasItsExecution
<1>1. OneExecutionPerKey /\ EventIffExecution => KeyHasItsExecution
  BY DEF KeyHasItsExecution
<1> QED
  BY <1>1, Unique, EventMatches, PTL

\* A sender that was told "created" finds its execution, its job and its
\* processed event until the workflow is deleted.
THEOREM CreatedKept == Spec => []CreatedIsKept
  BY Invariance, PTL DEF IInv

\* If executions of one key both ran, the sender of one was told of an error
\* (the compensation in the catch block of startExecution).
THEOREM DoubleRun == Spec => []DoubleRunWasReported
<1>1. IInv => DoubleRunWasReported
  BY DEF IInv, TypeOK, RowInv, SecondInv, DoubleRunWasReported
<1> QED
  BY <1>1, Invariance, PTL

\* A chain is run at most once per delivery that BullMQ made of its job, for
\* every number of worker crashes.
THEOREM Rerun == Spec => []RerunOnlyAfterStall
<1>1. IInv => RerunOnlyAfterStall
  BY DEF IInv, JobInv, RerunOnlyAfterStall
<1> QED
  BY <1>1, Invariance, PTL

\* Actions run more often than once only after the death of a worker or a
\* call that was answered with an error.
THEOREM Accounted == Spec => []RunsAreAccounted
<1>1. RerunOnlyAfterStall /\ DoubleRunWasReported => RunsAreAccounted
  BY DEF RunsAreAccounted
<1> QED
  BY <1>1, Rerun, DoubleRun, PTL

LEMMA TerminalStep ==
  ASSUME IInv, [Next]_vars, NEW r \in Calls,
         execution[r] \in Terminal, execution'[r] # execution[r]
  PROVE  \/ execution'[r] = "deleted"
         \/ stalls[r] > 0
         \/ /\ worker = r /\ faults > 0
            /\ execution[r] = "SUCCESS" /\ execution'[r] = "FAILED"
<1> USE DEF IInv, TypeOK, JobInv, CallInv, Terminal
<1>1. ASSUME NEW q \in Calls, CallStep(q)
      PROVE  execution'[r] = "deleted"
  BY <1>1 DEF CallStep, Receive, Reject, Create, Duplicate, CreateFails,
     Enqueue, EnqueueFails, MarkProcessed, MarkProcessedFails, RemoveJob,
     RemoveJobFails, Cleanup, CleanupFails
<1>2. ASSUME NEW q \in Calls, WorkerStep(q)
      PROVE  \/ stalls[r] > 0
             \/ /\ worker = r /\ faults > 0
                /\ execution[r] = "SUCCESS" /\ execution'[r] = "FAILED"
  BY <1>2 DEF WorkerStep, Take, Find, Start, Run, Complete, Outcomes
<1>3. ASSUME NEW q \in Calls, WorkerCrash(q) \/ WorkerFault(q) \/ SuccessUnseen(q)
      PROVE  \/ stalls[r] > 0
             \/ /\ worker = r /\ faults > 0
                /\ execution[r] = "SUCCESS" /\ execution'[r] = "FAILED"
  BY <1>3 DEF WorkerCrash, WorkerFault, SuccessUnseen, Outcomes
<1>4. ASSUME NEW q \in Calls, RecoverStalled(q)
      PROVE  FALSE
  BY <1>4 DEF RecoverStalled
<1>5. ASSUME ChangeStatus \/ ApiCrash \/ UNCHANGED vars
      PROVE  FALSE
  BY <1>5 DEF ChangeStatus, ApiCrash, vars
<1>6. ASSUME DeleteWorkflow
      PROVE  execution'[r] = "deleted"
  BY <1>6 DEF DeleteWorkflow
<1> QED
  BY <1>1, <1>2, <1>3, <1>4, <1>5, <1>6 DEF Next

\* No step of the api or of a first delivery takes an execution out of
\* SUCCESS or FAILED, except by deleting its row, or for a lost reply.
THEOREM TerminalKept == Spec => TerminalLeftOnlyByRedelivery
<1>1. IInv /\ [Next]_vars =>
        [\A r \in Calls :
           execution[r] \in Terminal /\ execution'[r] # execution[r] =>
             \/ execution'[r] = "deleted"
             \/ stalls[r] > 0
             \/ /\ worker = r /\ faults > 0
                /\ execution[r] = "SUCCESS" /\ execution'[r] = "FAILED"]_vars
  BY TerminalStep
<1> QED
  BY <1>1, Invariance, PTL DEF Spec, TerminalLeftOnlyByRedelivery

-----------------------------------------------------------------------------
(* The registry of keys: OwnerIn finds the call that holds a key, and every *)
(* step of the component is a step of IdempotentIntake or a stutter.        *)

LEMMA OwnerIs ==
  ASSUME NEW rows, NEW r \in Calls, Keyed(r), rows[r] \in Statuses,
         \A q \in Calls : Key(q) = Key(r) /\ rows[q] \in Statuses => q = r
  PROVE  OwnerIn(rows)[Key(r)] = r
<1>1. \E q \in Calls : Holds(rows, q, Key(r))
  BY DEF Holds
<1>2. \A q \in Calls : Holds(rows, q, Key(r)) => q = r
  BY DEF Holds
<1> QED
  BY <1>1, <1>2 DEF OwnerIn, Keyed

LEMMA OwnerNone ==
  ASSUME NEW rows, NEW k \in Keys,
         \A q \in Calls : Key(q) = k => rows[q] \notin Statuses
  PROVE  OwnerIn(rows)[k] = NoCall
  BY DEF OwnerIn, Holds

LEMMA OwnerSame ==
  ASSUME NEW old, NEW new,
         \A r \in Calls : old[r] \in Statuses <=> new[r] \in Statuses
  PROVE  OwnerIn(new) = OwnerIn(old)
<1>1. \A k : \A r \in Calls : Holds(old, r, k) <=> Holds(new, r, k)
  BY DEF Holds
<1> QED
  BY <1>1, Zenon DEF OwnerIn

LEMMA OwnerElsewhere ==
  ASSUME NEW old, NEW new, NEW r \in Calls,
         \A q \in Calls : q # r =>
           (old[q] \in Statuses <=> new[q] \in Statuses),
         NEW k \in Keys, k # Key(r)
  PROVE  OwnerIn(new)[k] = OwnerIn(old)[k]
<1>1. \A q \in Calls : Holds(old, q, k) <=> Holds(new, q, k)
  BY DEF Holds
<1> QED
  BY <1>1, Zenon DEF OwnerIn

LEMMA CreateRefines ==
  ASSUME NEW r \in Calls, IInv, IInv', Create(r)
  PROVE  Promise!Accept(r) \/ UNCHANGED Promise!vars
<1>1. \A k \in Keys : k # Key(r) => Owner'[k] = Owner[k]
  <2>1. \A q \in Calls : q # r =>
          (execution[q] \in Statuses <=> execution'[q] \in Statuses)
    BY DEF Create, IInv, TypeOK
  <2> QED
    BY <2>1, OwnerElsewhere DEF Owner
<1>2. ASSUME ~ Keyed(r)
      PROVE  Owner' = Owner
  <2>1. \A k \in Keys : Owner'[k] = Owner[k]
    BY <1>1, <1>2 DEF Keyed
  <2> QED
    BY <2>1 DEF OwnerIn, Owner
<1> USE DEF Create, Goto, IInv, TypeOK, OneExecutionPerKey, EventIffExecution,
            Present, Owner
<1>3. CASE Keyed(r)
  <2>1. Owner[Key(r)] = NoCall
    BY <1>3, OwnerNone DEF Keyed
  <2>2. Owner'[Key(r)] = r
    <3>1. execution'[r] \in Statuses
      BY DEF Statuses
    <3>2. \A q \in Calls : Key(q) = Key(r) /\ execution'[q] \in Statuses
            => q = r
      BY <1>3, <3>1 DEF Keyed
    <3> QED
      BY <1>3, <3>1, <3>2, OwnerIs
  <2>3. Owner' = [Owner EXCEPT ![Key(r)] = r]
    BY <1>1, <2>2 DEF OwnerIn
  <2> QED
    BY <1>3, <2>1, <2>3 DEF Promise!Accept, Promise!Keyed, Keyed, CallInv
<1>4. CASE ~ Keyed(r)
  BY <1>2, <1>4 DEF Promise!vars
<1> QED
  BY <1>3, <1>4

LEMMA CleanupRefines ==
  ASSUME NEW r \in Calls, IInv, IInv', Cleanup(r)
  PROVE  Promise!Withdraw(r) \/ Promise!Refuse(r)
<1>1. \A k \in Keys : k # Key(r) => Owner'[k] = Owner[k]
  <2>1. \A q \in Calls : q # r =>
          (execution[q] \in Statuses <=> execution'[q] \in Statuses)
    BY DEF Cleanup, IInv, TypeOK
  <2> QED
    BY <2>1, OwnerElsewhere DEF Owner
<1>2. ASSUME ~ Keyed(r)
      PROVE  Owner' = Owner
  <2>1. \A k \in Keys : Owner'[k] = Owner[k]
    BY <1>1, <1>2 DEF Keyed
  <2> QED
    BY <2>1 DEF OwnerIn, Owner
<1> USE DEF Cleanup, Finish, IInv, TypeOK, OneExecutionPerKey,
            EventIffExecution, Present, Owner
<1>3. Promise!Tell(r, "error")
  BY DEF Promise!Tell, CallInv
<1>4. CASE Keyed(r)
  <2>1. Owner[Key(r)] = r
    <3>1. \A q \in Calls : Key(q) = Key(r) /\ execution[q] \in Statuses
            => q = r
      BY <1>4 DEF Keyed
    <3> QED
      BY <1>4, <3>1, OwnerIs
  <2>2. Owner'[Key(r)] = NoCall
    <3>1. \A q \in Calls : Key(q) = Key(r) => execution'[q] \notin Statuses
      <4>1. execution'[r] \notin Statuses
        BY DEF Statuses
      <4> QED
        BY <1>4, <4>1 DEF Keyed
    <3> HIDE DEF Cleanup, Finish, IInv, TypeOK, OneExecutionPerKey,
                 EventIffExecution, Present
    <3> QED
      BY <1>4, <3>1, OwnerNone DEF Keyed
  <2>3. Owner' = [Owner EXCEPT ![Key(r)] = NoCall]
    BY <1>1, <2>2 DEF OwnerIn
  <2> QED
    BY <1>3, <1>4, <2>1, <2>3 DEF Promise!Withdraw, Promise!Keyed, Keyed
<1>5. CASE ~ Keyed(r)
  BY <1>2, <1>3, <1>5 DEF Promise!Refuse
<1> QED
  BY <1>4, <1>5

LEMMA AnswerRefines ==
  ASSUME NEW r \in Calls, IInv, IInv', CallStep(r), UNCHANGED execution
  PROVE  Promise!Next \/ UNCHANGED Promise!vars
<1> USE DEF IInv, TypeOK, CallInv
<1>0. Owner' = Owner /\ UNCHANGED workflow
  BY DEF Owner, CallStep, Receive, Reject, Create, Duplicate, CreateFails,
     Enqueue, EnqueueFails, MarkProcessed, MarkProcessedFails, RemoveJob,
     RemoveJobFails, Cleanup, CleanupFails
<1>1. CASE UNCHANGED answer
  BY <1>0, <1>1 DEF Promise!vars
<1>2. CASE Duplicate(r)
  <2>1. PICK q \in Calls : Key(q) = Key(r) /\ Present(q)
    BY <1>2 DEF Duplicate, EventIffExecution, Keyed
  <2>2. q # r
    BY <1>2, <2>1 DEF Duplicate, Present, Statuses
  <2>3. Owner[Key(r)] = q
    BY <1>2, <2>1, OwnerIs DEF Duplicate, Keyed, OneExecutionPerKey, Present,
       Owner
  <2>4. Promise!Ignore(r)
    BY <1>0, <1>2, <2>2, <2>3, IntakeAssumption
    DEF Promise!Ignore, Promise!Tell, Promise!Keyed, Duplicate, Finish, Keyed
  <2> QED
    BY <2>4 DEF Promise!Next
<1>3. CASE Enqueue(r) \/ MarkProcessed(r)
  <2>1. CASE UNCHANGED answer
    BY <1>1, <2>1
  <2>2. CASE Keyed(r) /\ answer' # answer
    <3>1. MarkProcessed(r)
      BY <1>3, <2>2 DEF Enqueue, Goto
    <3>2. Present(r)
      BY <2>2, <3>1 DEF MarkProcessed, EventIffExecution, RowInv, Keyed
    <3>3. Owner[Key(r)] = r
      BY <2>2, <3>2, OwnerIs DEF Keyed, OneExecutionPerKey, Present, Owner
    <3>4. Promise!Confirm(r)
      BY <1>0, <3>1, <3>3 DEF Promise!Confirm, Promise!Tell, MarkProcessed,
         Finish
    <3> QED
      BY <3>4 DEF Promise!Next
  <2>3. CASE ~ Keyed(r)
    <3>1. Enqueue(r)
      BY <1>3, <2>3 DEF MarkProcessed
    <3>2. Promise!Confirm(r)
      BY <1>0, <2>3, <3>1 DEF Promise!Confirm, Promise!Tell, Promise!Keyed,
         Enqueue, Finish, Keyed
    <3> QED
      BY <3>2 DEF Promise!Next
  <2> QED
    BY <2>1, <2>2, <2>3
<1>4. CASE Reject(r) \/ CreateFails(r) \/ RemoveJobFails(r) \/ CleanupFails(r)
  <2>1. Promise!Refuse(r)
    BY <1>0, <1>4 DEF Promise!Refuse, Promise!Tell, Finish, Reject,
       CreateFails, RemoveJobFails, CleanupFails
  <2> QED
    BY <2>1 DEF Promise!Next
<1>5. CASE Receive(r) \/ Create(r) \/ EnqueueFails(r) \/ MarkProcessedFails(r)
             \/ RemoveJob(r)
  BY <1>1, <1>5 DEF Receive, Create, EnqueueFails, MarkProcessedFails,
     RemoveJob, Goto
<1>6. CASE Cleanup(r)
  BY <1>6 DEF Cleanup, Present, Statuses
<1> QED
  BY <1>2, <1>3, <1>4, <1>5, <1>6 DEF CallStep

LEMMA StepRefines ==
  IInv /\ IInv' /\ [Next]_vars => [Promise!Next]_(Promise!vars)
<1> SUFFICES ASSUME IInv, IInv', [Next]_vars
             PROVE  Promise!Next \/ UNCHANGED Promise!vars
  OBVIOUS
<1> USE DEF IInv, TypeOK
<1>1. ASSUME NEW r \in Calls, CallStep(r)
      PROVE  Promise!Next \/ UNCHANGED Promise!vars
  <2>1. CASE Create(r)
    BY <2>1, CreateRefines DEF Promise!Next
  <2>2. CASE Cleanup(r)
    BY <2>2, CleanupRefines DEF Promise!Next
  <2>3. CASE UNCHANGED execution
    BY <1>1, <2>3, AnswerRefines
  <2> QED
    BY <1>1, <2>1, <2>2, <2>3 DEF CallStep, Receive, Reject, Duplicate,
       CreateFails, Enqueue, EnqueueFails, MarkProcessed, MarkProcessedFails,
       RemoveJob, RemoveJobFails, CleanupFails
<1>2. ASSUME NEW r \in Calls,
             \/ WorkerStep(r) \/ WorkerFault(r) \/ SuccessUnseen(r)
             \/ WorkerCrash(r) \/ RecoverStalled(r)
      PROVE  UNCHANGED Promise!vars
  <2>1. \A q \in Calls :
          execution[q] \in Statuses <=> execution'[q] \in Statuses
    BY <1>2 DEF WorkerStep, WorkerFault, SuccessUnseen, WorkerCrash, RecoverStalled, Take,
       Find, Start, Run, Complete, Outcomes, Present, Statuses, Terminal
  <2>2. Owner' = Owner
    BY <2>1, OwnerSame DEF Owner
  <2> QED
    BY <1>2, <2>2 DEF Promise!vars, callVars, WorkerStep, WorkerFault, SuccessUnseen,
       WorkerCrash, RecoverStalled, Take, Find, Start, Run, Complete
<1>3. ASSUME ChangeStatus \/ UNCHANGED vars
      PROVE  UNCHANGED Promise!vars
  BY <1>3 DEF ChangeStatus, callVars, vars, Promise!vars, Owner
<1>4. ASSUME DeleteWorkflow
      PROVE  Promise!Close
  <2>1. \A k \in Keys : Owner'[k] = NoCall
    BY <1>4, OwnerNone DEF DeleteWorkflow, Owner, RowInv, Present
  <2> QED
    BY <1>4, <2>1 DEF DeleteWorkflow, callVars, Promise!Close, Owner, OwnerIn
<1>5. ASSUME ApiCrash
      PROVE  Promise!Crash
  <2> DEFINE S == {r \in Calls : pc[r] \in InProgress}
  <2>1. S \in SUBSET {r \in Calls : answer[r] = "none"}
    BY DEF CallInv, InProgress
  <2>2. answer' = [r \in Calls |-> IF r \in S THEN "lost" ELSE answer[r]]
    BY <1>5 DEF ApiCrash
  <2> QED
    <3>1. UNCHANGED <<workflow, Owner>>
      BY <1>5 DEF ApiCrash, Owner
    <3> HIDE DEF S, TypeOK, IInv
    <3> QED
      BY <2>1, <2>2, <3>1 DEF Promise!Crash
<1> QED
  BY <1>1, <1>2, <1>3, <1>4, <1>5 DEF Next, Promise!Next

\* startExecution, the worker and their failures implement the registry of
\* idempotency keys for every set of calls and keys: initial states map to
\* initial states, each step to a step of the registry or to a stutter.
THEOREM Refinement == Spec => KeepsPromise
<1>1. Init => Promise!Init
  BY OwnerNone DEF Init, Promise!Init, Owner, OwnerIn, Statuses
<1> QED
  BY <1>1, StepRefines, Invariance, PTL DEF Spec, KeepsPromise, Promise!Spec

-----------------------------------------------------------------------------
(* Every call comes to its end, and so does its job.                       *)

\* What the api, the queue or the worker does with a call.
OwnStep(r) ==
  \/ CallStep(r) \/ WorkerStep(r) \/ WorkerFault(r) \/ SuccessUnseen(r)
  \/ WorkerCrash(r) \/ RecoverStalled(r)

PlaceRank(r) ==
  CASE pc[r] = "idle"      -> 6
    [] pc[r] = "checked"   -> 5
    [] pc[r] = "committed" -> 4
    [] pc[r] = "queued"    -> 3
    [] pc[r] = "removing"  -> 2
    [] pc[r] = "cleaning"  -> 1
    [] OTHER               -> 0

JobRank(r) ==
  CASE job[r] = "none"    -> 5
    [] job[r] = "waiting" -> 4
    [] job[r] = "active"  -> 3
    [] job[r] = "stalled" -> 2
    [] job[r] = "removed" -> 0
    [] OTHER              -> 1

StageRank(r) ==
  IF worker # r THEN 0
  ELSE CASE stage = "find"   -> 5
         [] stage = "start"  -> 4
         [] stage = "run"    -> 3
         [] stage = "finish" -> 2
         [] OTHER            -> 1

\* What is still to come for a call: the places of its own code, the
\* redeliveries of its job, the states of the job, the stages of the worker.
Rank(r) == <<PlaceRank(r), MaxStalledCount - stalls[r], JobRank(r), StageRank(r)>>

Ranks == [1..4 -> Nat]

\* Pairs of ranks, the first of which is the lower one.
Lower == LexProductOrdering(OpToRel(<, Nat), Nat, 4)

RankOK == \A r \in Calls : Rank(r) \in Ranks

LEMMA RankType == TypeOK => RankOK
<1> SUFFICES ASSUME TypeOK, NEW r \in Calls PROVE Rank(r) \in Ranks
  BY DEF RankOK
<1>1. MaxStalledCount - stalls[r] \in Nat
  BY DEF TypeOK
<1>2. PlaceRank(r) \in Nat /\ JobRank(r) \in Nat /\ StageRank(r) \in Nat
  BY DEF PlaceRank, JobRank, StageRank
<1> QED
  BY <1>1, <1>2 DEF Rank, Ranks

\* Ranks are compared by the first number that differs.
LEMMA FirstThatFalls ==
  ASSUME NEW a \in Ranks, NEW b \in Ranks, NEW n \in 1..4,
         a[n] < b[n], \A m \in 1..(n - 1) : a[m] = b[m]
  PROVE  <<a, b>> \in Lower
<1>1. <<a[n], b[n]>> \in OpToRel(<, Nat)
  BY DEF OpToRel, Ranks
<1> QED
  BY <1>1 DEF Lower, LexProductOrdering, Ranks

LEMMA RanksAreWellFounded == IsWellFoundedOn(Lower, Ranks)
<1>1. IsWellFoundedOn(OpToRel(<, Nat), Nat)
  BY NatLessThanWellFounded
<1> QED
  BY <1>1, WFLexProductOrdering DEF Lower, Ranks

\* What is done with a call brings it nearer to its end,
LEMMA OwnStepFalls ==
  ASSUME IInv, NEW r \in Calls, OwnStep(r)
  PROVE  <<Rank(r)', Rank(r)>> \in Lower
<1> DEFINE Falls(n) == /\ Rank(r)'[n] < Rank(r)[n]
                       /\ \A m \in 1..(n - 1) : Rank(r)'[m] = Rank(r)[m]
<1>1. TypeOK /\ JobInv
  BY DEF IInv
<1>2. Rank(r) \in Ranks /\ Rank(r)' \in Ranks
  <2>1. [Next]_vars
    BY DEF OwnStep, Next
  <2>2. TypeOK'
    BY <2>1, NextInv DEF IInv
  <2>3. (TypeOK => RankOK)'
    BY RankType, PTL
  <2> QED BY <1>1, <2>2, <2>3, RankType DEF RankOK
<1>3. ASSUME NEW n \in 1..4, Falls(n) PROVE <<Rank(r)', Rank(r)>> \in Lower
  BY <1>2, <1>3, FirstThatFalls
<1>4. CASE CallStep(r)
  <2>1. PlaceRank(r)' < PlaceRank(r)
    BY <1>1, <1>4 DEF TypeOK, CallStep, Receive, Reject, Create, Duplicate, CreateFails,
       Enqueue, EnqueueFails, MarkProcessed, MarkProcessedFails, RemoveJob, RemoveJobFails,
       Cleanup, CleanupFails, Goto, Finish, PlaceRank
  <2>2. Falls(1)
    BY <2>1 DEF Rank
  <2> QED BY <1>3, <2>2
<1>5. ASSUME UNCHANGED <<pc, stalls>>, JobRank(r)' < JobRank(r)
      PROVE  <<Rank(r)', Rank(r)>> \in Lower
  <2>1. Falls(3)
    BY <1>5 DEF Rank, PlaceRank
  <2> QED BY <1>3, <2>1
<1>6. ASSUME UNCHANGED <<pc, stalls, job>>, StageRank(r)' < StageRank(r)
      PROVE  <<Rank(r)', Rank(r)>> \in Lower
  <2>1. Falls(4)
    BY <1>6 DEF Rank, PlaceRank, JobRank
  <2> QED BY <1>3, <2>1
<1>7. CASE Take(r)
  <2>1. JobRank(r)' < JobRank(r)
    BY <1>1, <1>7 DEF TypeOK, Take, JobRank
  <2> QED BY <1>5, <1>7, <2>1 DEF Take, callVars
<1>8. ASSUME UNCHANGED <<pc, stalls>>, worker = r,
             Settle(r, "completed") \/ Settle(r, "failed") \/ Settle(r, "stalled")
      PROVE  <<Rank(r)', Rank(r)>> \in Lower
  <2>1. JobRank(r)' < JobRank(r)
    BY <1>1, <1>8 DEF TypeOK, JobInv, Settle, JobRank
  <2> QED BY <1>5, <1>8, <2>1
<1>9. CASE WorkerFault(r) \/ WorkerCrash(r) \/ Complete(r)
  BY <1>8, <1>9 DEF WorkerFault, WorkerCrash, Complete, callVars
<1>10. CASE Find(r) \/ Start(r) \/ Run(r) \/ SuccessUnseen(r)
  <2>1. CASE Present(r)
    <3>1. UNCHANGED <<pc, stalls, job>> /\ StageRank(r)' < StageRank(r)
      BY <1>10, <2>1 DEF Find, Start, Run, SuccessUnseen, callVars, jobVars, StageRank
    <3> QED BY <1>6, <3>1
  <2>2. CASE ~ Present(r)
    BY <1>8, <1>10, <2>2 DEF Find, Start, Run, SuccessUnseen, callVars
  <2> QED BY <2>1, <2>2
<1>11. CASE RecoverStalled(r)
  <2>1. CASE stalls[r] < MaxStalledCount
    <3>1. Falls(2)
      BY <1>1, <1>11, <2>1 DEF TypeOK, RecoverStalled, Rank, PlaceRank, callVars
    <3> QED BY <1>3, <3>1
  <2>2. CASE ~ (stalls[r] < MaxStalledCount)
    <3>1. JobRank(r)' < JobRank(r)
      BY <1>1, <1>11, <2>2 DEF TypeOK, RecoverStalled, JobRank
    <3> QED BY <1>5, <1>11, <2>2, <3>1 DEF RecoverStalled, callVars
  <2> QED BY <2>1, <2>2
<1> QED
  BY <1>4, <1>7, <1>9, <1>10, <1>11 DEF OwnStep, WorkerStep

\* and what is done with another leaves it where it is.
LEMMA OthersStay ==
  ASSUME IInv, NEW q \in Calls, NEW r \in Calls, q # r, OwnStep(r)
  PROVE  Rank(q)' = Rank(q)
<1>1. TypeOK /\ NoCall \notin Calls
  BY DEF IInv
<1>2. ASSUME pc'[q] = pc[q], job'[q] = job[q], stalls'[q] = stalls[q],
             worker' = q <=> worker = q, worker = q => UNCHANGED stage
      PROVE  Rank(q)' = Rank(q)
  <2>1. PlaceRank(q)' = PlaceRank(q) /\ JobRank(q)' = JobRank(q)
    BY <1>2 DEF PlaceRank, JobRank
  <2>2. StageRank(q)' = StageRank(q)
    BY <1>2 DEF StageRank
  <2> QED BY <1>2, <2>1, <2>2 DEF Rank
<1>3. CASE CallStep(r)
  BY <1>1, <1>2, <1>3 DEF TypeOK, CallStep, Receive, Reject, Create, Duplicate, CreateFails,
     Enqueue, EnqueueFails, MarkProcessed, MarkProcessedFails, RemoveJob, RemoveJobFails,
     Cleanup, CleanupFails, Goto, Finish, jobVars, workerVars
<1>4. CASE WorkerStep(r)
  BY <1>1, <1>2, <1>4 DEF TypeOK, WorkerStep, Take, Find, Start, Run, Complete, Settle, callVars
<1>5. CASE WorkerFault(r) \/ SuccessUnseen(r) \/ WorkerCrash(r) \/ RecoverStalled(r)
  BY <1>1, <1>2, <1>5 DEF TypeOK, WorkerFault, SuccessUnseen, jobVars, WorkerCrash, RecoverStalled, Settle,
     callVars, workerVars
<1> QED
  BY <1>3, <1>4, <1>5 DEF OwnStep

\* No step takes a call back.
LEMMA RankFalls ==
  ASSUME IInv, [Next]_vars, NEW r \in Calls
  PROVE  \/ <<Rank(r)', Rank(r)>> \in Lower
         \/ Rank(r)' = Rank(r) /\ ~ OwnStep(r)
<1>1. CASE OwnStep(r)
  BY <1>1, OwnStepFalls
<1>2. CASE ~ OwnStep(r) /\ \E q \in Calls : OwnStep(q)
  BY <1>2, OthersStay
<1>3. CASE ChangeStatus \/ DeleteWorkflow \/ UNCHANGED vars
  <2>1. UNCHANGED <<pc, job, stalls, worker, stage>>
    BY <1>3 DEF ChangeStatus, DeleteWorkflow, callVars, jobVars, workerVars, vars
  <2>2. Rank(r)' = Rank(r)
    BY <2>1 DEF Rank, PlaceRank, JobRank, StageRank
  <2> QED BY <1>1, <2>2
<1>4. CASE ApiCrash
  <2>1. UNCHANGED <<job, stalls, worker, stage>>
    BY <1>4 DEF ApiCrash, jobVars, workerVars
  <2>2. CASE pc[r] \in InProgress
    <3>1. PlaceRank(r)' < PlaceRank(r)
      BY <1>4, <2>2 DEF ApiCrash, InProgress, PlaceRank
    <3>2. Rank(r)'[1] < Rank(r)[1]
      BY <3>1 DEF Rank
    <3>3. TypeOK /\ TypeOK'
      BY NextInv DEF IInv
    <3>4. (TypeOK => RankOK)'
      BY RankType, PTL
    <3>5. Rank(r) \in Ranks /\ Rank(r)' \in Ranks
      BY <3>3, <3>4, RankType DEF RankOK
    <3> QED BY <3>2, <3>5, FirstThatFalls
  <2>3. CASE pc[r] \notin InProgress
    <3>1. pc'[r] = pc[r]
      BY <1>4, <2>3 DEF ApiCrash
    <3>2. Rank(r)' = Rank(r)
      BY <2>1, <3>1 DEF Rank, PlaceRank, JobRank, StageRank
    <3> QED BY <1>1, <3>2
  <2> QED BY <2>2, <2>3
<1> QED
  BY <1>1, <1>2, <1>3, <1>4 DEF Next, OwnStep

\* Every step that the api, the queue or the worker takes for a call brings the
\* call or its job nearer to its end, and no step, not the owner's, a crash's or
\* another call's, takes it back; since ranks do not fall for ever, a call and
\* its job take finitely many steps (startExecution, retryExecution, the
\* redeliveries of BullMQ).  The fairness that EveryCallEnds assumes is then all
\* that is needed for them to be taken.
THEOREM CallsGoForward ==
  /\ IsWellFoundedOn(Lower, Ranks)
  /\ Spec => /\ []RankOK
             /\ [][\A r \in Calls : \/ <<Rank(r)', Rank(r)>> \in Lower
                                    \/ Rank(r)' = Rank(r) /\ ~ OwnStep(r)]_vars
<1>1. IInv /\ [Next]_vars =>
        [\A r \in Calls : \/ <<Rank(r)', Rank(r)>> \in Lower
                          \/ Rank(r)' = Rank(r) /\ ~ OwnStep(r)]_vars
  BY RankFalls
<1>2. IInv => RankOK
  BY RankType DEF IInv
<1>3. Spec => /\ []RankOK
              /\ [][\A r \in Calls : \/ <<Rank(r)', Rank(r)>> \in Lower
                                     \/ Rank(r)' = Rank(r) /\ ~ OwnStep(r)]_vars
  BY <1>1, <1>2, Invariance, PTL DEF Spec
<1> QED
  BY <1>3, RanksAreWellFounded
=============================================================================
