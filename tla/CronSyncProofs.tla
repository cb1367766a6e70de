--------------------------- MODULE CronSyncProofs ---------------------------
(***************************************************************************)
(* Proofs, for any number of overlapping requests, occurrences, faults and *)
(* crashes, of what MCCronSync checks of the occurrences.                  *)
(***************************************************************************)
EXTENDS CronSync, TLAPS

\* A job that passed the check of handleCronJob passed it while the workflow
\* was an active cron workflow.
CheckedInv == \A t \in Ticks : job[t].stage = "checked" => history.active[t]

\* A job between the transaction and the enqueue has its one execution.
StartedInv ==
  /\ started \in [Ticks -> {0, 1}]
  /\ \A t \in Ticks : job[t].stage = "created" => started[t] = 1

IInv ==
  /\ TypeOK
  /\ CheckedInv
  /\ StartedInv

RequestType ==
  [pc : {"idle", "read", "unregister", "register"},
   op : {"none", "put", "status", "remove"},
   before : Workflows, after : Workflows]

Stages == {"none", "waiting", "taken", "checked", "created", "started",
           "stalled", "ended"}

JobType == [Ticks -> [stage : Stages, recovered : BOOLEAN]]

HistoryType ==
  [missed : BOOLEAN, abandoned : BOOLEAN, fresh : BOOLEAN, apart : BOOLEAN,
   active : [Ticks -> BOOLEAN]]

CountType ==
  [calls : 0..MaxCalls, pauses : 0..MaxAutoPauses, faults : 0..MaxFaults,
   crashes : 0..MaxCrashes]

-----------------------------------------------------------------------------

LEMMA Types ==
  ASSUME TypeOK
  PROVE  /\ request \in [Requests -> RequestType]
         /\ job \in JobType
         /\ history \in HistoryType
         /\ count \in CountType
BY DEF TypeOK, RequestType, JobType, Stages, HistoryType, CountType

LEMMA InitInv == Init => IInv
<1> SUFFICES ASSUME Init PROVE IInv
  OBVIOUS
<1>1. db \in Workflows /\ Idle \in
        [pc : {"idle", "read", "unregister", "register"},
         op : {"none", "put", "status", "remove"},
         before : Workflows, after : Workflows]
  BY DEF Init, Workflows, Statuses, Idle, NoWorkflow
<1>2. TypeOK
  BY <1>1, CronAssumption DEF Init, TypeOK
<1>3. CheckedInv /\ StartedInv
  BY DEF Init, CheckedInv, StartedInv
<1> QED
  BY <1>2, <1>3 DEF IInv

\* What a step looks back at keeps its type, and CheckedInv is kept by every
\* step that lets no job pass the check.
LEMMA LookInv ==
  ASSUME TypeOK, CheckedInv,
         NEW m \in BOOLEAN, NEW a \in BOOLEAN, NEW f \in BOOLEAN,
         Look(m, a, f),
         \A t \in Ticks : job'[t].stage = "checked" =>
                            job[t].stage = "checked" \/ IsActiveCron(db')
  PROVE  /\ history' \in HistoryType
         /\ CheckedInv'
<1>1. history' = [missed |-> m, abandoned |-> a, fresh |-> f,
                  apart |-> StayApart, active |-> WasActive]
      /\ StayApart \in BOOLEAN
  BY DEF Look, StayApart, TypeOK
<1>2. ASSUME NEW t \in Ticks
      PROVE  WasActive[t] \in BOOLEAN
  BY DEF WasActive, IsActiveCron, InHand, TypeOK
<1>3. WasActive \in [Ticks -> BOOLEAN]
  BY <1>2 DEF WasActive
<1>4. ASSUME NEW t \in Ticks, job'[t].stage = "checked"
      PROVE  WasActive[t]
  <2>1. CASE IsActiveCron(db')
    BY <2>1 DEF WasActive
  <2>2. CASE job[t].stage = "checked"
    <3>1. history.active[t] /\ InHand(job[t]) /\ InHand(job'[t])
      BY <2>2, <1>4 DEF CheckedInv, InHand
    <3> QED
      BY <3>1 DEF WasActive
  <2> QED
    BY <1>4, <2>1, <2>2
<1> QED
  BY <1>1, <1>3, <1>4 DEF CheckedInv, HistoryType

LEMMA UnseenInv ==
  ASSUME TypeOK, CheckedInv, Unseen,
         \A t \in Ticks : job'[t].stage = "checked" =>
                            job[t].stage = "checked" \/ IsActiveCron(db')
  PROVE  /\ history' \in HistoryType
         /\ CheckedInv'
<1>1. /\ history.missed \in BOOLEAN
      /\ history.abandoned \in BOOLEAN
      /\ history.fresh \in BOOLEAN
  BY DEF TypeOK
<1>2. Look(history.missed, history.abandoned, history.fresh)
  BY DEF Unseen
<1> QED
  BY <1>1, <1>2, LookInv

\* A bounded event keeps the type of count.
LEMMA BumpType ==
  ASSUME TypeOK,
         \/ Bump("calls", MaxCalls)
         \/ Bump("pauses", MaxAutoPauses)
         \/ Bump("faults", MaxFaults)
         \/ Bump("crashes", MaxCrashes)
  PROVE  count' \in CountType
BY CronAssumption DEF Bump, TypeOK, CountType

\* A handler that ends leaves the type of request.
LEMMA FinishType ==
  ASSUME TypeOK, NEW r \in Requests, Finish(r)
  PROVE  request' \in [Requests -> RequestType]
BY DEF Finish, Idle, NoWorkflow, Workflows, Statuses, TypeOK, RequestType

\* A job that moves keeps the type of job.
LEMMA MoveType ==
  ASSUME TypeOK, NEW t \in Ticks,
         NEW s \in Stages,
         Move(t, s)
  PROVE  /\ job' \in JobType
         /\ \A u \in Ticks :
              job'[u].stage = IF u = t THEN s ELSE job[u].stage
BY DEF Move, TypeOK, JobType, Stages

-----------------------------------------------------------------------------
(* The owner's requests change no job.                                     *)

LEMMA ReadInv ==
  ASSUME IInv, NEW r \in Requests, NEW op \in {"put", "status", "remove"},
         Read(r, op)
  PROVE  IInv'
<1>1. history' \in HistoryType
      /\ CheckedInv'
  BY UnseenInv DEF IInv, Read, jobVars
<1>2. count' \in CountType
  BY BumpType DEF IInv, Read
<1>3. request' \in [Requests -> RequestType]
  BY DEF IInv, TypeOK, Read, RequestType, NoWorkflow, Workflows, Statuses
<1> QED
  BY <1>1, <1>2, <1>3
  DEF IInv, TypeOK, StartedInv, HistoryType, CountType, Read, bootVars, jobVars, RequestType

LEMMA WrittenInv ==
  ASSUME IInv, NEW r \in Requests, NEW op \in {"put", "status"},
         NEW w \in Workflows,
         NEW next \in {"idle", "unregister", "register"},
         Written(r, op, w, next)
  PROVE  IInv'
<1>1. history' \in HistoryType
      /\ CheckedInv'
  <2>1. history.missed \in BOOLEAN /\ history.abandoned \in BOOLEAN
    BY DEF IInv, TypeOK
  <2> QED
    BY <2>1, LookInv DEF IInv, Written, jobVars
<1>2. request' \in [Requests -> RequestType]
  <2>1. request \in [Requests -> RequestType] /\ NoWorkflow \in Workflows
    BY DEF IInv, TypeOK, RequestType, NoWorkflow, Workflows, Statuses
  <2>2. CASE next = "idle"
    <3>1. Idle \in RequestType
      BY <2>1 DEF Idle, RequestType
    <3>2. request' = [request EXCEPT ![r] = Idle]
      BY <2>2 DEF Written
    <3> QED
      BY <2>1, <3>1, <3>2
  <2>3. CASE next # "idle"
    <3> DEFINE new == [pc |-> next, op |-> op, before |-> NoWorkflow, after |-> w]
    <3>1. request' = [request EXCEPT ![r] = new]
      BY <2>3 DEF Written
    <3>2. new \in RequestType
      BY <2>1, <2>3 DEF RequestType
    <3> HIDE DEF new
    <3> QED
      BY <2>1, <3>1, <3>2
  <2> QED
    BY <2>2, <2>3
<1> QED
  BY <1>1, <1>2
  DEF IInv, TypeOK, StartedInv, HistoryType, CountType, Written, bootVars, jobVars, RequestType

LEMMA RequestInv ==
  ASSUME IInv, NEW r \in Requests, HandlerStep(r)
  PROVE  IInv'
<1> USE DEF IInv
<1>1. ASSUME NEW cron \in Expressions \cup {NoCron}, Put(r, cron)
      PROVE  IInv'
  <2>1. [db EXCEPT !.cron = cron] \in Workflows
    BY DEF TypeOK, Workflows
  <2>2. AfterPut(request[r].before, [db EXCEPT !.cron = cron])
          \in {"idle", "unregister", "register"}
    BY DEF AfterPut
  <2> QED
    BY <1>1, <2>1, <2>2, WrittenInv DEF Put
<1>2. ASSUME NEW status \in Statuses, SetStatus(r, status)
      PROVE  IInv'
  <2>1. [db EXCEPT !.status = status] \in Workflows
    BY DEF TypeOK, Workflows
  <2>2. AfterStatus(request[r].before, [db EXCEPT !.status = status])
          \in {"idle", "unregister", "register"}
    BY DEF AfterStatus
  <2> QED
    BY <1>2, <2>1, <2>2, WrittenInv DEF SetStatus
<1>3. CASE Remove(r)
  <2>1. db' \in Workflows
    BY <1>3 DEF Remove, TypeOK, Workflows
  <2>2. history' \in HistoryType
        /\ CheckedInv'
    <3>1. history.missed \in BOOLEAN
      BY DEF TypeOK
    <3> QED
      BY <1>3, <3>1, LookInv DEF Remove, jobVars
  <2>3. request' \in [Requests -> RequestType]
    BY <1>3, <2>1, FinishType DEF Remove
  <2> QED
    BY <1>3, <2>1, <2>2, <2>3
    DEF TypeOK, StartedInv, HistoryType, CountType, Remove, bootVars, jobVars, RequestType
<1>4. CASE WriteMissing(r)
  <2>1. history' \in HistoryType
        /\ CheckedInv'
    BY <1>4, UnseenInv DEF WriteMissing, jobVars
  <2>2. request' \in [Requests -> RequestType]
    BY <1>4, FinishType DEF WriteMissing, TypeOK
  <2> QED
    BY <1>4, <2>1, <2>2
    DEF TypeOK, StartedInv, HistoryType, CountType, WriteMissing, bootVars, jobVars, RequestType
<1>5. CASE Unregister(r)
  <2>1. history' \in HistoryType
        /\ CheckedInv'
    <3>1. history.fresh \in BOOLEAN
      BY DEF TypeOK
    <3>2. CASE RegistersNext(r)
      BY <1>5, <3>2, UnseenInv DEF Unregister, jobVars
    <3>3. CASE ~ RegistersNext(r)
      BY <1>5, <3>1, <3>3, LookInv DEF Unregister, jobVars
    <3> QED
      BY <3>2, <3>3
  <2>2. request' \in [Requests -> RequestType]
    <3>1. CASE RegistersNext(r)
      <4>1. request \in [Requests -> RequestType]
        BY DEF TypeOK, RequestType
      <4>2. request' = [request EXCEPT ![r].pc = "register"]
        BY <1>5, <3>1 DEF Unregister, Step
      <4>3. [request[r] EXCEPT !.pc = "register"] \in RequestType
        BY <4>1 DEF RequestType
      <4> QED
        BY <4>1, <4>2, <4>3
    <3>2. CASE ~ RegistersNext(r)
      BY <1>5, <3>2, FinishType DEF Unregister, TypeOK
    <3> QED
      BY <3>1, <3>2
  <2> QED
    BY <1>5, <2>1, <2>2
    DEF TypeOK, StartedInv, HistoryType, CountType, Unregister, bootVars, jobVars, RequestType
<1>6. CASE Register(r)
  <2>1. history' \in HistoryType
        /\ CheckedInv'
    <3>1. history.abandoned \in BOOLEAN /\ history.fresh \in BOOLEAN
      BY DEF TypeOK
    <3> QED
      BY <1>6, <3>1, LookInv DEF Register, jobVars
  <2>2. request' \in [Requests -> RequestType]
    BY <1>6, FinishType DEF Register, TypeOK
  <2> QED
    BY <1>6, <2>1, <2>2
    DEF TypeOK, StartedInv, HistoryType, CountType, Register, bootVars, jobVars, RequestType
<1> QED
  BY <1>1, <1>2, <1>3, <1>4, <1>5, <1>6 DEF HandlerStep

-----------------------------------------------------------------------------
(* The api and the occurrences.                                            *)

LEMMA FaultInv ==
  ASSUME IInv, NEW r \in Requests, RedisFails(r)
  PROVE  IInv'
<1> USE DEF IInv
<1>1. history' \in HistoryType
      /\ CheckedInv'
  <2>1. history.abandoned \in BOOLEAN /\ history.fresh \in BOOLEAN
    BY DEF TypeOK
  <2> QED
    BY <2>1, LookInv DEF RedisFails, jobVars
<1>2. request' \in [Requests -> RequestType]
  BY FinishType DEF RedisFails, TypeOK
<1>3. count' \in CountType
  BY BumpType DEF RedisFails
<1> QED
  BY <1>1, <1>2, <1>3
  DEF TypeOK, StartedInv, HistoryType, CountType, RedisFails, bootVars, jobVars, RequestType

LEMMA AutoPauseInv ==
  ASSUME IInv, AutoPause
  PROVE  IInv'
<1> USE DEF IInv
<1>1. history' \in HistoryType
      /\ CheckedInv'
  <2>1. history.missed \in BOOLEAN
    BY DEF TypeOK
  <2> QED
    BY <2>1, LookInv DEF AutoPause, jobVars
<1>2. db' \in Workflows
  BY DEF AutoPause, TypeOK, Workflows, Statuses
<1>3. count' \in CountType
  BY BumpType DEF AutoPause
<1> QED
  BY <1>1, <1>2, <1>3 DEF TypeOK, StartedInv, HistoryType, CountType, AutoPause, bootVars, jobVars

LEMMA CrashInv ==
  ASSUME IInv, Crash
  PROVE  IInv'
<1> USE DEF IInv
<1> DEFINE missed == \/ history.missed
                     \/ \E r \in Requests :
                          request[r].pc \in {"unregister", "register"}
<1>1. job' \in JobType
      /\ \A t \in Ticks : job'[t].stage # "checked" /\ job'[t].stage # "created"
  <2>1. job \in JobType
    BY Types
  <2>2. job' = [t \in Ticks |->
                 IF job[t].stage \in {"taken", "checked", "created", "started"}
                   THEN [job[t] EXCEPT !.stage = "stalled"] ELSE job[t]]
    BY DEF Crash
  <2> HIDE DEF IInv
  <2> QED
    BY <2>1, <2>2 DEF JobType, Stages
<1>2. missed \in BOOLEAN /\ history.abandoned \in BOOLEAN
  BY DEF TypeOK
<1>3. Look(missed, history.abandoned, FALSE)
  BY DEF Crash
<1>4. history' \in HistoryType
      /\ CheckedInv'
  <2> HIDE DEF missed
  <2> QED
    BY <1>1, <1>2, <1>3, LookInv
<1>5. request' \in [Requests -> RequestType]
  BY DEF Crash, TypeOK, Idle, NoWorkflow, Workflows, Statuses, RequestType
<1>6. count' \in CountType
  BY BumpType DEF Crash
<1> QED
  BY <1>1, <1>4, <1>5, <1>6
  DEF TypeOK, StartedInv, HistoryType, CountType, Crash, JobType, RequestType

LEMMA BootInv ==
  ASSUME IInv, Restart \/ BootStep \/ ReconcileFails
  PROVE  IInv'
<1> USE DEF IInv
<1>1. /\ history.missed \in BOOLEAN
      /\ history.abandoned \in BOOLEAN
      /\ history.fresh \in BOOLEAN
      /\ (history.missed /\ found = NoCron) \in BOOLEAN
  BY DEF TypeOK
<1>2. CASE Restart
  <2>1. history' \in HistoryType
        /\ CheckedInv'
    BY <1>2, UnseenInv DEF Restart, jobVars
  <2> QED
    BY <1>2, <2>1 DEF TypeOK, StartedInv, HistoryType, CountType, Restart, jobVars
<1>3. CASE FindActive
  <2>1. history' \in HistoryType
        /\ CheckedInv'
    BY <1>1, <1>3, LookInv DEF FindActive, jobVars
  <2>2. db.cron \in Expressions \cup {NoCron}
    BY DEF TypeOK, Workflows
  <2> QED
    BY <1>3, <2>1, <2>2 DEF TypeOK, StartedInv, HistoryType, CountType, FindActive, jobVars
<1>4. CASE Reconcile
  <2>1. history' \in HistoryType
        /\ CheckedInv'
    BY <1>1, <1>4, LookInv DEF Reconcile, jobVars
  <2> QED
    BY <1>4, <2>1 DEF TypeOK, StartedInv, HistoryType, CountType, Reconcile, jobVars
<1>5. CASE ReconcileFails
  <2>1. history' \in HistoryType
        /\ CheckedInv'
    BY <1>1, <1>5, LookInv DEF ReconcileFails, jobVars
  <2>2. count' \in CountType
    BY <1>5, BumpType DEF ReconcileFails
  <2> QED
    BY <1>5, <2>1, <2>2 DEF TypeOK, StartedInv, HistoryType, CountType, ReconcileFails, jobVars
<1> QED
  BY <1>2, <1>3, <1>4, <1>5 DEF BootStep

\* What the steps of an occurrence do to its executions: the transaction finds
\* the key free once, and only what it made is deleted.
LEMMA StartedStep ==
  ASSUME IInv, NEW t \in Ticks, Tick(t) \/ JobStep(t) \/ StartFails(t)
  PROVE  StartedInv'
<1>0. /\ started \in [Ticks -> {0, 1}]
      /\ job[t].stage = "created" => started[t] = 1
      /\ \A u \in Ticks : job[u].stage = "created" => started[u] = 1
      /\ job \in JobType
  BY Types DEF IInv, StartedInv
<1>1. CASE Tick(t) \/ TakeJob(t) \/ Check(t) \/ Enqueue(t) \/ StartMissing(t)
             \/ EndJob(t) \/ RecoverStalled(t)
  <2>1. started' = started
    BY <1>1 DEF Tick, TakeJob, Check, Enqueue, StartMissing, EndJob, RecoverStalled
  <2>2. \A u \in Ticks : job'[u].stage = "created" => job[u].stage = "created"
    BY <1>0, <1>1 DEF Tick, TakeJob, Check, Enqueue, StartMissing, EndJob,
                      RecoverStalled, Move, JobType
  <2> QED
    BY <1>0, <2>1, <2>2 DEF StartedInv
<1>2. CASE Create(t)
  <2>1. started' = [started EXCEPT ![t] = IF @ = 0 THEN 1 ELSE @]
        /\ \A u \in Ticks : u # t => job'[u] = job[u]
    BY <1>0, <1>2 DEF Create, Move, JobType
  <2>2. started'[t] = 1 /\ \A u \in Ticks : u # t => started'[u] = started[u]
    BY <1>0, <2>1
  <2>3. started' \in [Ticks -> {0, 1}]
    BY <1>0, <2>1
  <2> QED
    BY <1>0, <2>1, <2>2, <2>3 DEF StartedInv
<1>3. CASE StartFails(t)
  <2>1. job'[t].stage = "ended" /\ \A u \in Ticks : u # t => job'[u] = job[u]
    BY <1>0, <1>3 DEF StartFails, Move, JobType
  <2>2. \/ started' = started
        \/ job[t].stage = "created" /\ started' = [started EXCEPT ![t] = @ - 1]
    BY <1>3 DEF StartFails
  <2>3. /\ started' \in [Ticks -> {0, 1}]
        /\ \A u \in Ticks : u # t => started'[u] = started[u]
    BY <1>0, <2>2
  <2> QED
    BY <1>0, <2>1, <2>3 DEF StartedInv
<1> QED
  BY <1>1, <1>2, <1>3 DEF JobStep

\* The one step that lets a job pass the check finds the workflow active.
LEMMA OccurrenceInv ==
  ASSUME IInv, NEW t \in Ticks, Tick(t) \/ JobStep(t) \/ StartFails(t)
  PROVE  IInv'
<1> USE DEF IInv
<1>1. job' \in JobType
      /\ \A u \in Ticks : job'[u].stage = "checked" =>
                           job[u].stage = "checked" \/ IsActiveCron(db')
  <2>1. CASE Tick(t)
    BY <2>1, MoveType DEF Tick, Stages
  <2>2. CASE TakeJob(t)
    BY <2>2, MoveType DEF TakeJob, Stages
  <2>3. CASE Check(t)
    <3>1. CASE IsActiveCron(db)
      <4>1. Move(t, "checked") /\ db' = db
        BY <2>3, <3>1 DEF Check
      <4> QED
        BY <3>1, <4>1, MoveType DEF IsActiveCron, Stages
    <3>2. CASE ~ IsActiveCron(db)
      <4>1. Move(t, "ended")
        BY <2>3, <3>2 DEF Check
      <4> QED
        BY <4>1, MoveType DEF Stages
    <3> QED
      BY <3>1, <3>2
  <2>4. CASE Create(t)
    <3>1. CASE started[t] = 0
      BY <2>4, <3>1, MoveType DEF Create, Stages
    <3>2. CASE started[t] # 0
      BY <2>4, <3>2, MoveType DEF Create, Stages
    <3> QED
      BY <3>1, <3>2
  <2>5. CASE Enqueue(t) \/ StartMissing(t) \/ EndJob(t) \/ StartFails(t)
    BY <2>5, MoveType DEF Enqueue, StartMissing, EndJob, StartFails, Stages
  <2>6. CASE RecoverStalled(t)
    <3> DEFINE stage == IF job[t].recovered THEN "ended" ELSE "waiting"
               next == [job[t] EXCEPT !.stage = stage, !.recovered = TRUE]
    <3>1. job \in JobType
      BY Types
    <3>2. job' = [job EXCEPT ![t] = next]
      BY <2>6, <3>1 DEF RecoverStalled, JobType
    <3>3. /\ next.stage # "checked" /\ next.stage # "created"
          /\ next \in [stage : Stages, recovered : BOOLEAN]
      BY <3>1 DEF JobType, Stages
    <3> HIDE DEF next
    <3> QED
      BY <3>1, <3>2, <3>3 DEF JobType
  <2> QED
    BY <2>1, <2>2, <2>3, <2>4, <2>5, <2>6 DEF JobStep
<1>2. Unseen
  BY DEF Tick, JobStep, StartFails, TakeJob, Check, Create, Enqueue,
         StartMissing, EndJob, RecoverStalled
<1>3. history' \in HistoryType /\ CheckedInv'
  BY <1>1, <1>2, UnseenInv
<1>4. StartedInv'
  BY StartedStep
<1>5. count' \in CountType
  <2>1. CASE StartFails(t)
    BY <2>1, BumpType DEF StartFails
  <2>2. CASE Tick(t) \/ JobStep(t)
    <3>1. count' = count
      BY <2>2 DEF Tick, JobStep, TakeJob, Check, Create, Enqueue, StartMissing,
                  EndJob, RecoverStalled
    <3> QED
      BY <3>1, Types
  <2> QED
    BY <2>1, <2>2
<1>6. UNCHANGED <<db, scheduler, api, found, request>>
  BY DEF Tick, JobStep, StartFails, TakeJob, Check, Create, Enqueue,
         StartMissing, EndJob, RecoverStalled, bootVars
<1>7. started' \in [Ticks -> 0..2]
  BY <1>4 DEF StartedInv
<1>8. queued' \in [Ticks -> BOOLEAN]
  BY DEF Tick, JobStep, StartFails, TakeJob, Check, Create, Enqueue,
         StartMissing, EndJob, RecoverStalled, TypeOK
<1> HIDE DEF IInv
<1>9. TypeOK
  BY DEF IInv
<1> QED
  BY <1>1, <1>3, <1>4, <1>5, <1>6, <1>7, <1>8, <1>9
  DEF IInv, TypeOK, JobType, Stages, HistoryType, CountType

LEMMA NextInv == IInv /\ [Next]_vars => IInv'
<1> SUFFICES ASSUME IInv, [Next]_vars PROVE IInv'
  OBVIOUS
<1>1. ASSUME NEW r \in Requests, NEW op \in {"put", "status", "remove"},
             Read(r, op)
      PROVE  IInv'
  BY <1>1, ReadInv
<1>2. ASSUME NEW r \in Requests, HandlerStep(r)
      PROVE  IInv'
  BY <1>2, RequestInv
<1>3. ASSUME NEW r \in Requests, RedisFails(r)
      PROVE  IInv'
  BY <1>3, FaultInv
<1>4. CASE AutoPause
  BY <1>4, AutoPauseInv
<1>5. CASE Crash
  BY <1>5, CrashInv
<1>6. CASE Restart \/ BootStep \/ ReconcileFails
  BY <1>6, BootInv
<1>7. ASSUME NEW t \in Ticks, Tick(t) \/ JobStep(t) \/ StartFails(t)
      PROVE  IInv'
  BY <1>7, OccurrenceInv
<1>8. CASE UNCHANGED vars
  BY <1>8 DEF vars, IInv, TypeOK, CheckedInv, StartedInv
<1> QED
  BY <1>1, <1>2, <1>3, <1>4, <1>5, <1>6, <1>7, <1>8 DEF Next

-----------------------------------------------------------------------------
(* What is scheduled.                                                      *)

\* A handler that writes is in flight only while the api is up, and what a
\* starting api has found is what it will be asked about, until the next write.
Booted ==
  /\ api # "up" => \A r \in Requests : request[r].pc = "idle"
  /\ history.fresh => \A r \in Requests : request[r].pc \in {"idle", "read"}
  /\ api = "reconciling" /\ IsActiveCron(db) => found = db.cron
  /\ api = "up" /\ history.fresh /\ IsActiveCron(db) /\ db.cron \in Valid
       => scheduler = db.cron

\* What a handler has read is what its write finds, but for an auto-pause; what
\* it has written is there when it calls Redis, but for an auto-pause.
Knows(r) ==
  /\ request[r].pc = "read" =>
       /\ db.present /\ db.cron = request[r].before.cron /\ request[r].before.present
       /\ IsActiveCron(db) => IsActiveCron(request[r].before)
       /\ IsActiveCron(request[r].before) /\ request[r].before.cron \in Valid
            /\ ~ history.missed => scheduler = db.cron
  /\ request[r].pc \in {"unregister", "register"} =>
       /\ IsActiveCron(db) => IsActiveCron(request[r].after)
                                /\ request[r].after.cron = db.cron
       /\ IsActiveCron(request[r].after) /\ ~ IsActiveCron(db) => history.abandoned
  /\ request[r].pc = "unregister" => request[r].op = "put" \/ ~ IsActiveCron(request[r].after)
  /\ request[r].pc = "register" => IsActiveCron(request[r].after)

\* The schedule is the workflow's whenever its one handler has nothing to call.
Scheduled(r) ==
  /\ request[r].pc \in {"idle", "read"} =>
       /\ IsActiveCron(db) /\ db.cron \in Valid /\ ~ history.missed => scheduler = db.cron
       /\ scheduler # NoCron /\ ~ IsActiveCron(db) => history.missed \/ history.abandoned
  /\ api = "reconciling" /\ found # NoCron /\ ~ IsActiveCron(db) => history.abandoned

LEMMA BootedStep ==
  ASSUME TypeOK, Booted, [Next]_vars
  PROVE  Booted'
<1> USE DEF Booted, TypeOK, IsActiveCron, Look, Unseen, jobVars, bootVars
<1>1. ASSUME NEW r \in Requests, NEW op \in {"put", "status", "remove"}, Read(r, op)
      PROVE  Booted'
  BY <1>1 DEF Read
<1>2. ASSUME NEW r \in Requests, NEW op, NEW w, NEW next \in {"idle", "unregister", "register"},
             Written(r, op, w, next)
      PROVE  Booted'
  BY <1>2 DEF Written, Idle, NoWorkflow
<1>3. ASSUME NEW r \in Requests, HandlerStep(r)
      PROVE  Booted'
  <2>1. CASE \E cron \in Expressions \cup {NoCron} : Put(r, cron)
    <3>1. PICK cron \in Expressions \cup {NoCron} : Put(r, cron)
      BY <2>1
    <3>2. AfterPut(request[r].before, [db EXCEPT !.cron = cron])
            \in {"idle", "unregister", "register"}
      BY DEF AfterPut
    <3> QED
      BY <1>2, <3>1, <3>2 DEF Put
  <2>2. CASE \E status \in Statuses : SetStatus(r, status)
    <3>1. PICK status \in Statuses : SetStatus(r, status)
      BY <2>2
    <3>2. AfterStatus(request[r].before, [db EXCEPT !.status = status])
            \in {"idle", "unregister", "register"}
      BY DEF AfterStatus
    <3> QED
      BY <1>2, <3>1, <3>2 DEF SetStatus
  <2>3. CASE Remove(r) \/ WriteMissing(r)
    BY <2>3 DEF Remove, WriteMissing, Finish, Idle
  <2>4. CASE Unregister(r) \/ Register(r)
    <3>1. ~ history.fresh /\ api = "up" /\ history'.fresh = history.fresh /\ api' = api
      BY <2>4 DEF Unregister, Register
    <3> QED
      BY <3>1
  <2> QED
    BY <1>3, <2>1, <2>2, <2>3, <2>4 DEF HandlerStep
<1>4. ASSUME NEW r \in Requests, RedisFails(r)
      PROVE  Booted'
  BY <1>4 DEF RedisFails, Finish, Idle
<1>5. CASE AutoPause
  BY <1>5 DEF AutoPause
<1>6. CASE Crash
  BY <1>6 DEF Crash, Idle
<1>7. CASE Restart \/ BootStep \/ ReconcileFails
  BY <1>7 DEF Restart, BootStep, FindActive, Reconcile, ReconcileFails
<1>8. ASSUME NEW t \in Ticks, Tick(t) \/ JobStep(t) \/ StartFails(t)
      PROVE  Booted'
  <2>1. UNCHANGED <<db, scheduler, api, found, request>> /\ history'.fresh = history.fresh
    BY <1>8 DEF Tick, JobStep, StartFails, TakeJob, Check, Create, Enqueue, StartMissing,
                EndJob, RecoverStalled
  <2> QED
    BY <2>1
<1>9. CASE UNCHANGED vars
  BY <1>9 DEF vars
<1> QED
  BY <1>1, <1>3, <1>4, <1>5, <1>6, <1>7, <1>8, <1>9 DEF Next

\* The requests that are not in flight.
Alone(r) == \A q \in Requests : q # r => request[q].pc = "idle"

\* Whatever is not a step of another request keeps what a request knows and
\* what is scheduled.
LEMMA OneStep ==
  ASSUME NEW r \in Requests, TypeOK, Booted, Alone(r), Knows(r), Scheduled(r),
         \/ \E op \in {"put", "status", "remove"} : Read(r, op)
         \/ HandlerStep(r) \/ RedisFails(r)
         \/ AutoPause \/ Crash \/ Restart \/ BootStep \/ ReconcileFails
         \/ \E t \in Ticks : Tick(t) \/ JobStep(t) \/ StartFails(t)
         \/ UNCHANGED vars
  PROVE  Knows(r)' /\ Scheduled(r)'
<1> USE CronAssumption DEF Look, Unseen, jobVars, bootVars
<1>0. r \in Requests /\ db \in Workflows /\ request[r].before \in Workflows
      /\ request[r].after \in Workflows /\ scheduler \in Valid \cup {NoCron}
  BY DEF TypeOK
<1>1. ASSUME NEW op \in {"put", "status", "remove"}, Read(r, op)
      PROVE  Knows(r)' /\ Scheduled(r)'
  <2>1. /\ request' = [request EXCEPT ![r] = [pc |-> "read", op |-> op, before |-> db, after |-> NoWorkflow]]
        /\ request[r].pc = "idle" /\ db.present /\ api = "up"
        /\ UNCHANGED <<db, scheduler, api, found>>
        /\ history'.missed = history.missed /\ history'.abandoned = history.abandoned
    BY <1>1 DEF Read
  <2>2. request'[r] = [pc |-> "read", op |-> op, before |-> db, after |-> NoWorkflow]
    BY <1>0, <2>1 DEF TypeOK
  <2> QED
    BY <2>1, <2>2 DEF Knows, Scheduled, IsActiveCron
<1>2. ASSUME NEW op \in {"put", "status"}, NEW w \in Workflows,
             NEW next \in {"idle", "unregister", "register"}, Written(r, op, w, next),
             w.present,
             next = "idle" => \/ ~ IsActiveCron(w) /\ ~ IsActiveCron(request[r].before)
                              \/ /\ IsActiveCron(request[r].before)
                                 /\ w.cron = request[r].before.cron /\ IsActiveCron(w),
             next = "register" => IsActiveCron(w),
             next = "unregister" => op = "put" \/ ~ IsActiveCron(w)
      PROVE  Knows(r)' /\ Scheduled(r)'
  <2>1. /\ db' = w /\ request[r].pc = "read" /\ request[r].op = op /\ api = "up"
        /\ UNCHANGED <<scheduler, api, found>>
        /\ history'.missed = history.missed /\ history'.abandoned = history.abandoned
        /\ next = "idle" => request'[r].pc = "idle"
        /\ next # "idle" => request'[r] = [pc |-> next, op |-> op, before |-> NoWorkflow,
                                           after |-> w]
    BY <1>0, <1>2 DEF Written, Idle, TypeOK, Booted
  <2>2. CASE next = "idle"
    BY <1>0, <1>2, <2>1, <2>2 DEF Knows, Scheduled
  <2>3. CASE next # "idle"
    <3>1. request'[r].pc = next /\ request'[r].after = w /\ request'[r].op = op
      BY <1>0, <2>1, <2>3 DEF TypeOK
    <3> QED
      BY <1>2, <2>1, <2>3, <3>1 DEF Knows, Scheduled
  <2> QED
    BY <2>2, <2>3
<1>3. ASSUME HandlerStep(r)
      PROVE  Knows(r)' /\ Scheduled(r)'
  <2>1. CASE \E cron \in Expressions \cup {NoCron} : Put(r, cron)
    <3>1. PICK cron \in Expressions \cup {NoCron} : Put(r, cron)
      BY <2>1
    <3> DEFINE w == [db EXCEPT !.cron = cron]
    <3>2. w \in Workflows /\ w.present
      BY <1>0, <3>1 DEF Put, Written, Workflows
    <3> HIDE DEF w
    <3>3. /\ AfterPut(request[r].before, w) \in {"idle", "unregister", "register"}
          /\ AfterPut(request[r].before, w) = "idle" =>
               ~ IsActiveCron(w) /\ ~ IsActiveCron(request[r].before)
          /\ AfterPut(request[r].before, w) = "register" => IsActiveCron(w)
      BY DEF AfterPut, IsActiveCron
    <3>4. Written(r, "put", w, AfterPut(request[r].before, w))
      BY <3>1 DEF Put, w
    <3> QED
      BY <1>2, <3>2, <3>3, <3>4
  <2>2. CASE \E status \in Statuses : SetStatus(r, status)
    <3>1. PICK status \in Statuses : SetStatus(r, status)
      BY <2>2
    <3> DEFINE w == [db EXCEPT !.status = status]
    <3>2. w \in Workflows /\ w.present /\ w.cron = db.cron /\ request[r].pc = "read"
      BY <1>0, <3>1 DEF SetStatus, Written, Workflows
    <3> HIDE DEF w
    <3>3. w.cron = request[r].before.cron
      BY <3>2 DEF Knows
    <3>4. /\ AfterStatus(request[r].before, w) \in {"idle", "unregister", "register"}
          /\ AfterStatus(request[r].before, w) = "idle" =>
               IsActiveCron(w) <=> IsActiveCron(request[r].before)
          /\ AfterStatus(request[r].before, w) = "register" => IsActiveCron(w)
          /\ AfterStatus(request[r].before, w) = "unregister" => ~ IsActiveCron(w)
      BY DEF AfterStatus, IsActiveCron
    <3>5. Written(r, "status", w, AfterStatus(request[r].before, w))
      BY <3>1 DEF SetStatus, w
    <3> QED
      BY <1>2, <3>2, <3>3, <3>4, <3>5
  <2>3. CASE Remove(r)
    <3>1. /\ ~ db'.present /\ request'[r].pc = "idle" /\ history'.abandoned
      BY <1>0, <2>3 DEF Remove, Finish, Idle, TypeOK, Workflows
    <3> QED
      BY <3>1 DEF Knows, Scheduled, IsActiveCron
  <2>4. CASE WriteMissing(r)
    BY <2>4 DEF WriteMissing, Knows
  <2>5. CASE Unregister(r)
    <3>1. /\ request[r].pc = "unregister" /\ scheduler' = NoCron /\ UNCHANGED <<db, api, found>>
          /\ api = "up"
      BY <1>0, <2>5 DEF Unregister, Booted
    <3>2. CASE RegistersNext(r)
      <4>1. /\ request'[r] = [request[r] EXCEPT !.pc = "register"]
            /\ history'.missed = history.missed /\ history'.abandoned = history.abandoned
        BY <1>0, <2>5, <3>2 DEF Unregister, Step, TypeOK
      <4>2. request'[r].pc = "register" /\ request'[r].after = request[r].after
        BY <1>0, <4>1 DEF TypeOK
      <4> QED
        BY <3>1, <3>2, <4>1, <4>2 DEF Knows, Scheduled, RegistersNext, IsActiveCron
    <3>3. CASE ~ RegistersNext(r)
      <4>1. request'[r].pc = "idle"
        BY <1>0, <2>5, <3>3 DEF Unregister, Finish, Idle, TypeOK
      <4>2. ~ IsActiveCron(db)
        BY <3>1, <3>3 DEF Knows, RegistersNext
      <4> QED
        BY <3>1, <4>1, <4>2 DEF Knows, Scheduled, IsActiveCron
    <3> QED
      BY <3>2, <3>3
  <2>6. CASE Register(r)
    <3>1. /\ request[r].pc = "register" /\ UNCHANGED <<db, api, found>> /\ api = "up"
          /\ request'[r].pc = "idle" /\ history'.abandoned = history.abandoned
          /\ scheduler' = IF request[r].after.cron \in Valid
                            THEN request[r].after.cron ELSE scheduler
      BY <1>0, <2>6 DEF Register, Finish, Idle, TypeOK, Booted
    <3> QED
      BY <3>1 DEF Knows, Scheduled, IsActiveCron
  <2> QED
    BY <1>3, <2>1, <2>2, <2>3, <2>4, <2>5, <2>6 DEF HandlerStep
<1>4. CASE RedisFails(r)
  <2>1. request'[r].pc = "idle" /\ history'.missed /\ api = "up" /\ api' = api
    BY <1>0, <1>4 DEF RedisFails, Finish, Idle, TypeOK, Booted
  <2> QED
    BY <2>1 DEF Knows, Scheduled
<1>5. CASE AutoPause
  <2>1. /\ UNCHANGED <<scheduler, api, found, request>>
        /\ history'.missed = history.missed /\ history'.abandoned
        /\ db'.present = db.present /\ db'.cron = db.cron /\ ~ IsActiveCron(db')
    BY <1>0, <1>5 DEF AutoPause, IsActiveCron, Workflows
  <2> QED
    BY <2>1 DEF Knows, Scheduled, IsActiveCron
<1>6. CASE Crash
  <2>1. /\ UNCHANGED <<db, scheduler>> /\ request'[r].pc = "idle" /\ api' = "down"
        /\ history'.abandoned = history.abandoned
        /\ history.missed \/ request[r].pc \in {"unregister", "register"} => history'.missed
    BY <1>0, <1>6 DEF Crash, Idle, TypeOK
  <2>2. request[r].pc \in {"idle", "read", "unregister", "register"}
    BY <1>0 DEF TypeOK
  <2> QED
    BY <2>1, <2>2 DEF Knows, Scheduled, IsActiveCron
<1>7. CASE Restart \/ BootStep \/ ReconcileFails
  <2>1. UNCHANGED <<db, request>> /\ history'.abandoned = history.abandoned
        /\ request[r].pc = "idle"
    BY <1>0, <1>7 DEF Restart, BootStep, FindActive, Reconcile, ReconcileFails, Booted
  <2>2. CASE Reconcile
    <3>1. /\ api = "reconciling" /\ api' = "up"
          /\ scheduler' = IF found \in Valid THEN found ELSE scheduler
          /\ history'.missed = (history.missed /\ found = NoCron)
      BY <2>2 DEF Reconcile
    <3>2. IsActiveCron(db) => found = db.cron
      BY <3>1 DEF Booted
    <3> QED
      BY <2>1, <3>1, <3>2 DEF Knows, Scheduled, IsActiveCron
  <2>3. CASE FindActive
    BY <2>1, <2>3 DEF FindActive, Knows, Scheduled, IsActiveCron
  <2>4. CASE Restart \/ ReconcileFails
    BY <2>1, <2>4 DEF Restart, ReconcileFails, Knows, Scheduled, IsActiveCron
  <2> QED
    BY <1>7, <2>2, <2>3, <2>4 DEF BootStep
<1>8. ASSUME NEW t \in Ticks, Tick(t) \/ JobStep(t) \/ StartFails(t)
      PROVE  Knows(r)' /\ Scheduled(r)'
  <2>1. UNCHANGED <<db, scheduler, api, found, request>>
        /\ history'.missed = history.missed /\ history'.abandoned = history.abandoned
    BY <1>8 DEF Tick, JobStep, StartFails, TakeJob, Check, Create, Enqueue, StartMissing,
                EndJob, RecoverStalled
  <2> QED
    BY <2>1 DEF Knows, Scheduled, IsActiveCron
<1>9. CASE UNCHANGED vars
  BY <1>9 DEF vars, Knows, Scheduled, IsActiveCron
<1> QED
  BY <1>1, <1>3, <1>4, <1>5, <1>6, <1>7, <1>8, <1>9

\* As long as requests have not overlapped, one of them can be named beside
\* which none is in flight, and it knows what is there and what is scheduled.
Current ==
  history.apart => \E r \in Requests : Alone(r) /\ Knows(r) /\ Scheduled(r)

\* Whatever step of Next is not a request's own leaves the others as they are.
LEMMA AloneStep ==
  ASSUME NEW r \in Requests, TypeOK, Alone(r),
         \/ \E op \in {"put", "status", "remove"} : Read(r, op)
         \/ HandlerStep(r) \/ RedisFails(r)
         \/ AutoPause \/ Crash \/ Restart \/ BootStep \/ ReconcileFails
         \/ \E t \in Ticks : Tick(t) \/ JobStep(t) \/ StartFails(t)
         \/ UNCHANGED vars
  PROVE  Alone(r)'
<1>1. SUFFICES ASSUME NEW q \in Requests, q # r
               PROVE  request'[q].pc = "idle"
  BY DEF Alone
<1>2. request[q].pc = "idle" /\ request \in [Requests -> RequestType]
  BY <1>1, Types DEF Alone
<1>3. CASE request' = [request EXCEPT ![r] = request'[r]]
  BY <1>1, <1>2, <1>3
<1>4. CASE Crash
  BY <1>4 DEF Crash, Idle
<1>5. CASE request' = request
  BY <1>2, <1>5
<1>6. \/ request' = [request EXCEPT ![r] = request'[r]]
      \/ Crash
      \/ request' = request
  <2>1. CASE \E op \in {"put", "status", "remove"} : Read(r, op)
    BY <1>2, <2>1 DEF Read
  <2>2. CASE HandlerStep(r)
    BY <1>2, <2>2 DEF HandlerStep, Put, SetStatus, Written, Remove, WriteMissing,
                      Unregister, Register, Step, Finish
  <2>3. CASE RedisFails(r)
    BY <1>2, <2>3 DEF RedisFails, Finish
  <2>4. CASE AutoPause \/ Restart \/ BootStep \/ ReconcileFails \/ UNCHANGED vars
    BY <2>4 DEF AutoPause, Restart, BootStep, FindActive, Reconcile, ReconcileFails, vars
  <2>5. CASE \E t \in Ticks : Tick(t) \/ JobStep(t) \/ StartFails(t)
    BY <2>5 DEF Tick, JobStep, StartFails, TakeJob, Check, Create, Enqueue, StartMissing,
                EndJob, RecoverStalled
  <2> QED
    BY <2>1, <2>2, <2>3, <2>4, <2>5
<1> QED
  BY <1>3, <1>4, <1>5, <1>6

LEMMA CurrentStep ==
  ASSUME TypeOK, Booted, Current, [Next]_vars
  PROVE  Current'
<1>1. SUFFICES ASSUME history'.apart
               PROVE  \E r \in Requests : Alone(r)' /\ Knows(r)' /\ Scheduled(r)'
  BY DEF Current
<1>2. \/ UNCHANGED vars
      \/ \E m, a, f : Look(m, a, f)
  BY DEF Next, Read, HandlerStep, Put, SetStatus, Written, Remove, WriteMissing,
         Unregister, Register, RedisFails, AutoPause, Crash, Restart, BootStep,
         FindActive, Reconcile, ReconcileFails, Tick, JobStep, TakeJob, Check, Create,
         Enqueue, StartMissing, StartFails, EndJob, RecoverStalled, Unseen
<1>3. history.apart
  BY <1>1, <1>2 DEF Look, StayApart, vars
<1>4. PICK r \in Requests : Alone(r) /\ Knows(r) /\ Scheduled(r)
  BY <1>3 DEF Current
<1>5. ASSUME NEW q \in Requests, q # r,
             \/ \E op \in {"put", "status", "remove"} : Read(q, op)
             \/ HandlerStep(q) \/ RedisFails(q)
      PROVE  Alone(q)' /\ Knows(q)' /\ Scheduled(q)'
  <2>1. request[q].pc = "idle"
    BY <1>4, <1>5 DEF Alone
  <2>2. PICK op \in {"put", "status", "remove"} : Read(q, op)
    BY <1>5, <2>1 DEF HandlerStep, Put, SetStatus, Written, Remove, WriteMissing,
                      Unregister, Register, RedisFails
  <2>3. StayApart
    BY <1>1, <2>2 DEF Read, Unseen, Look
  <2>4. request'[q].pc = "read" /\ request'[r] = request[r]
    BY <1>5, <2>2 DEF Read, TypeOK
  <2>5. request[r].pc = "idle"
    BY <1>5, <2>3, <2>4 DEF StayApart, InFlight
  <2>6. Alone(q) /\ Knows(q) /\ Scheduled(q)
    BY <1>4, <2>1, <2>5 DEF Alone, Knows, Scheduled
  <2> QED
    BY <2>2, <2>6, OneStep, AloneStep
<1>6. ASSUME \/ \E op \in {"put", "status", "remove"} : Read(r, op)
             \/ HandlerStep(r) \/ RedisFails(r)
             \/ AutoPause \/ Crash \/ Restart \/ BootStep \/ ReconcileFails
             \/ \E t \in Ticks : Tick(t) \/ JobStep(t) \/ StartFails(t)
             \/ UNCHANGED vars
      PROVE  Alone(r)' /\ Knows(r)' /\ Scheduled(r)'
  BY <1>4, <1>6, OneStep, AloneStep
<1> QED
  BY <1>5, <1>6 DEF Next

-----------------------------------------------------------------------------

\* The invariant the theorems rest on: a job between the check and the start
\* was checked while its workflow was active (handleCronJob).
THEOREM Invariance == Spec => []IInv
<1> QED
  BY InitInv, NextInv, PTL DEF Spec

\* TypeOK, for all constants: no step of a handler, of the starting api or of
\* a job leaves the states the code knows.
THEOREM TypeCorrect == Spec => []TypeOK
<1>1. IInv => TypeOK
  BY DEF IInv
<1> QED
  BY <1>1, Invariance, PTL

\* OncePerOccurrence, for any number of redeliveries: the key of an occurrence
\* lets one execution be created (startExecution under the cron key).
THEOREM StartsOnce == Spec => []OncePerOccurrence
<1>1. IInv => OncePerOccurrence
  BY DEF IInv, StartedInv, OncePerOccurrence
<1> QED
  BY <1>1, Invariance, PTL

\* StartedWhileActive, for any number of overlapping requests, crashes and
\* faults: no occurrence starts a workflow that was never active while its
\* job was in hand (handleCronJob).
THEOREM StartsActive == Spec => StartedWhileActive
<1>1. IInv /\ [Next]_vars =>
        [\A t \in Ticks : started'[t] > started[t] => history.active[t]]_vars
  <2> SUFFICES ASSUME IInv, Next, NEW t \in Ticks, started'[t] > started[t]
               PROVE  history.active[t]
    OBVIOUS
  <2>0. started \in [Ticks -> {0, 1}]
    BY DEF IInv, StartedInv
  <2>1. started' = started \/ \E u \in Ticks : Create(u) \/ StartFails(u)
    BY DEF Next, Read, HandlerStep, Put, SetStatus, Written, Remove,
           WriteMissing, Unregister, Register, RedisFails, AutoPause, Crash,
           Restart, BootStep, FindActive, Reconcile, ReconcileFails, Tick,
           JobStep, TakeJob, Check, Enqueue, StartMissing, EndJob,
           RecoverStalled, jobVars
  <2>2. PICK u \in Ticks : Create(u) \/ StartFails(u)
    BY <2>0, <2>1
  <2>3. ~ StartFails(u)
    <3>1. ASSUME StartFails(u) PROVE FALSE
      <4>1. started' = started \/ started' = [started EXCEPT ![u] = @ - 1]
        BY <3>1 DEF StartFails
      <4>2. started'[t] \in {started[t], started[t] - 1}
        BY <2>0, <4>1
      <4> QED
        BY <2>0, <4>2
    <3> QED
      BY <3>1
  <2>4. Create(u) /\ u = t
    BY <2>0, <2>2, <2>3 DEF Create
  <2> QED
    BY <2>4 DEF Create, IInv, CheckedInv
<1> QED
  BY <1>1, Invariance, PTL DEF Spec, StartedWhileActive

\* ReconciledIsScheduled, for any number of overlapping requests: what the
\* starting api has found ACTIVE is scheduled when it is up (decisions.md,
\* DEC-012), because no handler runs before that, and a write after it is seen.
THEOREM ReconcileRepairs == Spec => []ReconciledIsScheduled
<1>1. Init => Booted
  BY DEF Init, Booted, Idle
<1>2. IInv /\ Booted /\ [Next]_vars => Booted'
  BY BootedStep DEF IInv
<1>3. Booted => ReconciledIsScheduled
  BY DEF Booted, ReconciledIsScheduled
<1> QED
  BY <1>1, <1>2, <1>3, Invariance, PTL DEF Spec

\* ScheduleFollowsStatus, for any number of requests that do not overlap and any
\* number of auto-pauses, faults and crashes: what handleWorkflowStatusChanged
\* and handleWorkflowDefinitionUpdated compare is what was there.
THEOREM ScheduleFollows == Spec => []ScheduleFollowsStatus
<1>1. Init => Booted /\ Current
  <2> SUFFICES ASSUME Init PROVE Booted /\ Current
    OBVIOUS
  <2>1. PICK r \in Requests : TRUE
    BY CronAssumption
  <2>2. /\ \A q \in Requests : request[q].pc = "idle"
        /\ scheduler = NoCron /\ api = "up" /\ db.status = "DRAFT"
        /\ ~ history.fresh
    BY DEF Init, Idle
  <2> QED
    BY <2>1, <2>2 DEF Booted, Current, Alone, Knows, Scheduled, IsActiveCron
<1>2. IInv /\ Booted /\ Current /\ [Next]_vars => Booted' /\ Current'
  BY BootedStep, CurrentStep DEF IInv
<1>3. Current => ScheduleFollowsStatus
  BY DEF Current, Scheduled, ScheduleFollowsStatus, ActiveIsScheduled, OrphanIsExplained,
         Quiet
<1> QED
  BY <1>1, <1>2, <1>3, Invariance, PTL DEF Spec
=============================================================================
