------------------------------ MODULE CronSync ------------------------------
(***************************************************************************)
(* One workflow and its cron schedule.  The status and the trigger are in  *)
(* PostgreSQL, the job scheduler is in Redis, and nothing keeps them equal *)
(* but the order of the calls: the owner's requests read the workflow,     *)
(* write it, and then register or unregister what the two reads say; the   *)
(* worker's auto-pause writes the database only; a starting api registers  *)
(* what is ACTIVE.  The scheduler's occurrences become jobs which the api  *)
(* checks against the workflow before it starts an execution.              *)
(*                                                                         *)
(* An expression stands for cronExpression and timezone together.  The     *)
(* SELECTs of one findFirst are taken as one read.                         *)
(***************************************************************************)
EXTENDS Naturals, FiniteSets

CONSTANTS
  Requests,       \* request handlers of the api
  Valid,          \* cron expressions BullMQ accepts
  Invalid,        \* cron expressions it rejects
  NoCron,         \* the trigger is not a cron trigger; no scheduler
  MaxCalls,       \* bound: requests of the owner
  MaxTicks,       \* bound: occurrences
  MaxAutoPauses,  \* bound: pauses by the worker
  MaxFaults,      \* bound: failing calls of Redis
  MaxCrashes      \* bound: deaths of the api

ASSUME CronAssumption ==
  /\ Valid \cap Invalid = {}
  /\ NoCron \notin Valid \cup Invalid
  /\ Requests # {}
  /\ {MaxCalls, MaxTicks, MaxAutoPauses, MaxFaults, MaxCrashes} \subseteq Nat

Expressions == Valid \cup Invalid
Ticks == 1..MaxTicks
Statuses == {"DRAFT", "ACTIVE", "PAUSED"}

VARIABLES
  db,         \* the workflow's row and trigger node
  scheduler,  \* the job scheduler in Redis
  api,        \* "up", "down", "starting" or "reconciling"
  found,      \* what the starting api read
  request,    \* each handler in flight
  job,        \* each occurrence's job
  started,    \* executions of each occurrence, less the withdrawn ones
  queued,     \* whether one of them has been enqueued
  count,      \* how many of each bounded event there were
  history     \* what the properties look back at

vars == <<db, scheduler, api, found, request, job, started, queued, count,
          history>>

Workflows ==
  [present : BOOLEAN, status : Statuses, cron : Expressions \cup {NoCron}]

NoWorkflow == [present |-> FALSE, status |-> "DRAFT", cron |-> NoCron]

Idle ==
  [pc |-> "idle", op |-> "none", before |-> NoWorkflow, after |-> NoWorkflow]

TypeOK ==
  /\ db \in Workflows
  /\ scheduler \in Valid \cup {NoCron}
  /\ api \in {"up", "down", "starting", "reconciling"}
  /\ found \in Expressions \cup {NoCron}
  /\ request \in [Requests ->
       [pc : {"idle", "read", "unregister", "register"},
        op : {"none", "put", "status", "remove"},
        before : Workflows, after : Workflows]]
  /\ job \in [Ticks ->
       [stage : {"none", "waiting", "taken", "checked", "created", "started",
                 "stalled", "ended"},
        recovered : BOOLEAN]]
  /\ started \in [Ticks -> 0..2]
  /\ queued \in [Ticks -> BOOLEAN]
  /\ count \in [calls : 0..MaxCalls, pauses : 0..MaxAutoPauses,
                faults : 0..MaxFaults, crashes : 0..MaxCrashes]
  /\ history \in [missed : BOOLEAN, abandoned : BOOLEAN, fresh : BOOLEAN,
                  apart : BOOLEAN, active : [Ticks -> BOOLEAN]]

\* isActiveCronWorkflow.
IsActiveCron(w) == w.present /\ w.status = "ACTIVE" /\ w.cron # NoCron

Init ==
  /\ db \in [present : {TRUE}, status : {"DRAFT"},
             cron : Expressions \cup {NoCron}]
  /\ scheduler = NoCron
  /\ api = "up"
  /\ found = NoCron
  /\ request = [r \in Requests |-> Idle]
  /\ job = [t \in Ticks |->
              [stage |-> "none", recovered |-> FALSE]]
  /\ started = [t \in Ticks |-> 0]
  /\ queued = [t \in Ticks |-> FALSE]
  /\ count = [calls |-> 0, pauses |-> 0, faults |-> 0, crashes |-> 0]
  /\ history = [missed |-> FALSE, abandoned |-> FALSE, fresh |-> FALSE,
                apart |-> TRUE, active |-> [t \in Ticks |-> FALSE]]

Bump(event, bound) ==
  /\ count[event] < bound
  /\ count' = [count EXCEPT ![event] = @ + 1]

\* Whether the workflow was an active cron workflow at some moment since the
\* latest delivery of each occurrence's job.
InHand(j) == j.stage \in {"taken", "checked"}

WasActive ==
  [t \in Ticks |-> \/ IsActiveCron(db')
                   \/ InHand(job'[t]) /\ InHand(job[t])
                        /\ history.active[t]]

\* Whether no two requests have been in flight together so far.
InFlight(r) == request[r].pc # "idle"

StayApart ==
  /\ history.apart
  /\ \A p, q \in Requests : InFlight(p)' /\ InFlight(q)' => p = q

Look(missed, abandoned, fresh) ==
  history' = [missed |-> missed, abandoned |-> abandoned, fresh |-> fresh,
              apart |-> StayApart, active |-> WasActive]

Unseen == Look(history.missed, history.abandoned, history.fresh)

jobVars == <<job, started, queued>>
bootVars == <<api, found>>

Move(t, stage) == job' = [job EXCEPT ![t].stage = stage]

-----------------------------------------------------------------------------
(* Mutations: plausible slips in the code.  The specification uses none.   *)

\* PUT re-registers only what was registered.
AfterPutOnlyActive(before, after) ==
  IF IsActiveCron(before) THEN "unregister" ELSE "idle"

\* PUT registers by itself: upsert would replace the scheduler.
AfterPutUpserts(before, after) ==
  IF IsActiveCron(after) THEN "register" ELSE "idle"

\* The workflow is not looked at again.
CheckNothing(t) ==
  /\ job[t].stage = "taken"
  /\ Move(t, IF db.present THEN "checked" ELSE "ended")
  /\ UNCHANGED <<db, scheduler, bootVars, request, started, queued, count>>
  /\ Unseen

\* No idempotency key.
CreateWithoutKey(t) ==
  /\ job[t].stage = "checked"
  /\ db.present
  /\ Move(t, "created")
  /\ started' = [started EXCEPT ![t] = @ + 1]
  /\ UNCHANGED <<db, scheduler, bootVars, request, queued, count>>
  /\ Unseen

\* A job that was delivered before is skipped.
CheckOnlyNew(t) ==
  /\ job[t].stage = "taken"
  /\ Move(t, IF IsActiveCron(db) /\ ~ job[t].recovered
               THEN "checked" ELSE "ended")
  /\ UNCHANGED <<db, scheduler, bootVars, request, started, queued, count>>
  /\ Unseen

\* The starting api trusts what is in Redis.
FindNothing ==
  /\ api = "starting"
  /\ UNCHANGED <<db, scheduler, request, jobVars, count>>
  /\ api' = "reconciling"
  /\ found' = NoCron
  /\ Look(history.missed, history.abandoned, TRUE)

\* An upsert is taken for an insert.
ReconcileInserts ==
  /\ api = "reconciling"
  /\ UNCHANGED <<db, request, jobVars, count>>
  /\ api' = "up"
  /\ found' = NoCron
  /\ scheduler' = IF scheduler = NoCron /\ found \in Valid THEN found
                    ELSE scheduler
  /\ Look(history.missed /\ found = NoCron, history.abandoned, history.fresh)

-----------------------------------------------------------------------------
(* The owner's requests.                                                   *)

Step(r, pc) == request' = [request EXCEPT ![r].pc = pc]

Finish(r) == request' = [request EXCEPT ![r] = Idle]

\* getWorkflowWithGraphOrThrow.
Read(r, op) ==
  /\ api = "up"
  /\ request[r].pc = "idle"
  /\ db.present
  /\ Bump("calls", MaxCalls)
  /\ request' = [request EXCEPT
       ![r] = [pc |-> "read", op |-> op, before |-> db, after |-> NoWorkflow]]
  /\ UNCHANGED <<db, scheduler, bootVars, jobVars>>
  /\ Unseen

\* handleWorkflowDefinitionUpdated: the first call it makes.
AfterPut(before, after) ==
  CASE IsActiveCron(before) -> "unregister"
    [] ~ IsActiveCron(before) /\ IsActiveCron(after) -> "register"
    [] OTHER -> "idle"

\* handleWorkflowStatusChanged: the one call it makes.
AfterStatus(before, after) ==
  CASE IsActiveCron(before) /\ ~ IsActiveCron(after) -> "unregister"
    [] ~ IsActiveCron(before) /\ IsActiveCron(after) -> "register"
    [] OTHER -> "idle"

Written(r, op, w, next) ==
  /\ request[r].pc = "read"
  /\ request[r].op = op
  /\ db.present
  /\ db' = w
  /\ request' = [request EXCEPT
       ![r] = IF next = "idle" THEN Idle
              ELSE [pc |-> next, op |-> op, before |-> NoWorkflow, after |-> w]]
  /\ UNCHANGED <<scheduler, bootVars, jobVars, count>>
  /\ Look(history.missed, history.abandoned, FALSE)

\* update: the transaction replaces the graph and leaves the status alone.
Put(r, cron) ==
  LET w == [db EXCEPT !.cron = cron] IN
    Written(r, "put", w, AfterPut(request[r].before, w))

\* updateStatus.
SetStatus(r, status) ==
  LET w == [db EXCEPT !.status = status] IN
    Written(r, "status", w, AfterStatus(request[r].before, w))

\* remove: the row goes, the scheduler is not asked.
Remove(r) ==
  /\ request[r].pc = "read"
  /\ request[r].op = "remove"
  /\ db.present
  /\ db' = [db EXCEPT !.present = FALSE]
  /\ Finish(r)
  /\ UNCHANGED <<scheduler, bootVars, jobVars, count>>
  /\ Look(history.missed, TRUE, FALSE)

\* The workflow was removed since it was read: the write throws.
WriteMissing(r) ==
  /\ request[r].pc = "read"
  /\ ~ db.present
  /\ UNCHANGED <<db, scheduler, bootVars, jobVars, count>>
  /\ Finish(r)
  /\ Unseen

RegistersNext(r) == request[r].op = "put" /\ IsActiveCron(request[r].after)

Unregister(r) ==
  /\ request[r].pc = "unregister"
  /\ scheduler' = NoCron
  /\ UNCHANGED <<db, bootVars, jobVars, count>>
  /\ IF RegistersNext(r)
       THEN Step(r, "register") /\ Unseen
       ELSE Finish(r) /\ Look(FALSE, FALSE, history.fresh)

\* upsertJobScheduler; an invalid expression is answered 400.
Register(r) ==
  /\ request[r].pc = "register"
  /\ UNCHANGED <<db, bootVars, jobVars, count>>
  /\ scheduler' = IF request[r].after.cron \in Valid
                    THEN request[r].after.cron ELSE scheduler
  /\ Finish(r)
  /\ Look(FALSE, history.abandoned, history.fresh)

\* Redis fails: the request is answered with an error, the row stays.
RedisFails(r) ==
  /\ request[r].pc \in {"unregister", "register"}
  /\ Bump("faults", MaxFaults)
  /\ UNCHANGED <<db, scheduler, bootVars, jobVars>>
  /\ Finish(r)
  /\ Look(TRUE, history.abandoned, history.fresh)

\* markExecutionFailed of the worker: no scheduler is unregistered.
AutoPause ==
  /\ db.present
  /\ db.status = "ACTIVE"
  /\ Bump("pauses", MaxAutoPauses)
  /\ db' = [db EXCEPT !.status = "PAUSED"]
  /\ UNCHANGED <<scheduler, bootVars, request, jobVars>>
  /\ Look(history.missed, TRUE, FALSE)

-----------------------------------------------------------------------------
(* The api dies and starts.                                                *)

Crash ==
  /\ api # "down"
  /\ Bump("crashes", MaxCrashes)
  /\ api' = "down"
  /\ found' = NoCron
  /\ request' = [r \in Requests |-> Idle]
  /\ job' = [t \in Ticks |->
               IF job[t].stage \in {"taken", "checked", "created", "started"}
                 THEN [job[t] EXCEPT !.stage = "stalled"] ELSE job[t]]
  /\ UNCHANGED <<db, scheduler, started, queued>>
  /\ Look(\/ history.missed
          \/ \E r \in Requests : request[r].pc \in {"unregister", "register"},
          history.abandoned, FALSE)

Restart ==
  /\ api = "down"
  /\ api' = "starting"
  /\ UNCHANGED <<db, scheduler, found, request, jobVars, count>>
  /\ Unseen

\* reconcileCronTriggers: findMany.
FindActive ==
  /\ api = "starting"
  /\ UNCHANGED <<db, scheduler, request, jobVars, count>>
  /\ api' = "reconciling"
  /\ found' = IF IsActiveCron(db) THEN db.cron ELSE NoCron
  /\ Look(history.missed, history.abandoned, TRUE)

Reconcile ==
  /\ api = "reconciling"
  /\ UNCHANGED <<db, request, jobVars, count>>
  /\ api' = "up"
  /\ found' = NoCron
  /\ scheduler' = IF found \in Valid THEN found ELSE scheduler
  /\ Look(history.missed /\ found = NoCron, history.abandoned, history.fresh)

\* The error is logged and the api starts all the same.
ReconcileFails ==
  /\ api = "reconciling"
  /\ Bump("faults", MaxFaults)
  /\ UNCHANGED <<db, scheduler, request, jobVars>>
  /\ api' = "up"
  /\ found' = NoCron
  /\ Look(history.missed, history.abandoned, FALSE)

-----------------------------------------------------------------------------
(* The occurrences.                                                        *)

\* The scheduler's delayed job is due.
Tick(t) ==
  /\ api # "down"
  /\ scheduler # NoCron
  /\ job[t].stage = "none"
  /\ \A u \in Ticks : u < t => job[u].stage # "none"
  /\ Move(t, "waiting")
  /\ UNCHANGED <<db, scheduler, bootVars, request, started, queued, count>>
  /\ Unseen

TakeJob(t) ==
  /\ api # "down"
  /\ job[t].stage = "waiting"
  /\ Move(t, "taken")
  /\ UNCHANGED <<db, scheduler, bootVars, request, started, queued, count>>
  /\ Unseen

\* handleCronJob: a missing or inactive workflow is skipped.
Check(t) ==
  /\ job[t].stage = "taken"
  /\ Move(t, IF IsActiveCron(db) THEN "checked" ELSE "ended")
  /\ UNCHANGED <<db, scheduler, bootVars, request, started, queued, count>>
  /\ Unseen

\* The transaction of startExecution, under the key of the expression and the
\* time, which this occurrence's job has and no other: a key that is taken is
\* a duplicate, whatever has become of its execution.
Create(t) ==
  /\ job[t].stage = "checked"
  /\ db.present
  /\ Move(t, IF started[t] = 0 THEN "created" ELSE "started")
  /\ started' = [started EXCEPT ![t] = IF @ = 0 THEN 1 ELSE @]
  /\ UNCHANGED <<db, scheduler, bootVars, request, queued, count>>
  /\ Unseen

Enqueue(t) ==
  /\ job[t].stage = "created"
  /\ Move(t, "started")
  /\ queued' = [queued EXCEPT ![t] = TRUE]
  /\ UNCHANGED <<db, scheduler, bootVars, request, started, count>>
  /\ Unseen

\* The workflow is gone.
StartMissing(t) ==
  /\ job[t].stage = "checked"
  /\ ~ db.present
  /\ Move(t, "ended")
  /\ UNCHANGED <<db, scheduler, bootVars, request, started, queued, count>>
  /\ Unseen

\* The transaction fails, or the enqueue does, or only its reply is lost,
\* and the rows are deleted: the occurrence's job has one attempt.
StartFails(t) ==
  /\ job[t].stage \in {"checked", "created"}
  /\ Bump("faults", MaxFaults)
  /\ Move(t, "ended")
  /\ IF job[t].stage = "created"
       THEN /\ started' = [started EXCEPT ![t] = @ - 1]
            /\ \E q \in BOOLEAN : queued' = [queued EXCEPT ![t] = q]
       ELSE UNCHANGED <<started, queued>>
  /\ UNCHANGED <<db, scheduler, bootVars, request>>
  /\ Unseen

EndJob(t) ==
  /\ job[t].stage = "started"
  /\ Move(t, "ended")
  /\ UNCHANGED <<db, scheduler, bootVars, request, started, queued, count>>
  /\ Unseen

\* BullMQ gives a stalled job back once.
RecoverStalled(t) ==
  /\ api # "down"
  /\ job[t].stage = "stalled"
  /\ job' = [job EXCEPT
       ![t].stage = IF job[t].recovered THEN "ended" ELSE "waiting",
       ![t].recovered = TRUE]
  /\ UNCHANGED <<db, scheduler, bootVars, request, started, queued, count>>
  /\ Unseen

-----------------------------------------------------------------------------

HandlerStep(r) ==
  \/ \E cron \in Expressions \cup {NoCron} : Put(r, cron)
  \/ \E status \in Statuses : SetStatus(r, status)
  \/ Remove(r)
  \/ WriteMissing(r)
  \/ Unregister(r)
  \/ Register(r)

BootStep == FindActive \/ Reconcile

JobStep(t) ==
  \/ TakeJob(t)
  \/ Check(t)
  \/ Create(t)
  \/ Enqueue(t)
  \/ StartMissing(t)
  \/ EndJob(t)
  \/ RecoverStalled(t)

Next ==
  \/ \E r \in Requests :
       \/ \E op \in {"put", "status", "remove"} : Read(r, op)
       \/ HandlerStep(r)
       \/ RedisFails(r)
  \/ AutoPause
  \/ Crash
  \/ Restart
  \/ BootStep
  \/ ReconcileFails
  \/ \E t \in Ticks : Tick(t) \/ JobStep(t) \/ StartFails(t)

Spec == Init /\ [][Next]_vars

\* The container is restarted (docker-compose: restart), handlers and the cron
\* worker run; requests, occurrences and faults need not happen.
Fairness ==
  /\ WF_vars(Restart)
  /\ WF_vars(BootStep)
  /\ \A r \in Requests : WF_vars(HandlerStep(r))
  /\ \A t \in Ticks : WF_vars(JobStep(t))

FairSpec == Spec /\ Fairness

-----------------------------------------------------------------------------
(* Properties.                                                             *)

Quiet == api = "up" /\ \A r \in Requests : request[r].pc = "idle"

\* As long as requests do not overlap, an ACTIVE workflow has its current
\* expression scheduled whenever none is in flight, unless BullMQ rejects it or
\* a handler was cut short after its write (handleWorkflowStatusChanged and
\* handleWorkflowDefinitionUpdated agree with what they are told).
ActiveIsScheduled ==
  Quiet /\ history.apart /\ IsActiveCron(db) /\ db.cron \in Valid
    /\ ~ history.missed
    => scheduler = db.cron

\* As long as requests do not overlap, a scheduler without an ACTIVE cron
\* workflow is left by an auto-pause, a removal or a handler that was cut
\* short, and by nothing else.
OrphanIsExplained ==
  Quiet /\ history.apart /\ scheduler # NoCron /\ ~ IsActiveCron(db)
    => history.missed \/ history.abandoned

\* The scheduler in Redis and the workflow in the database tell each other.
ScheduleFollowsStatus == ActiveIsScheduled /\ OrphanIsExplained

\* test-checklist.md:54 taken at its word: a workflow that is PAUSED has no
\* repeatable job, once its requests are done and none of them has failed.
PausedIsUnscheduled ==
  Quiet /\ history.apart /\ ~ history.missed
    /\ db.present /\ db.status = "PAUSED"
    => scheduler = NoCron

\* decisions.md, DEC-012: what the starting api found ACTIVE is scheduled once
\* it is up, whatever requests had left behind, until the next write.
ReconciledIsScheduled ==
  api = "up" /\ history.fresh /\ IsActiveCron(db) /\ db.cron \in Valid
    /\ (\A r \in Requests : request[r].pc \in {"idle", "read"})
    => scheduler = db.cron

\* An occurrence starts an execution only if the workflow was an active cron
\* workflow at some moment since its job was delivered: what overlapping
\* requests leave in Redis does not run (handleCronJob).
StartedWhileActive ==
  [][\A t \in Ticks : started'[t] > started[t] => history.active[t]]_vars

\* An occurrence starts at most one execution, although its job is delivered
\* again when the api dies before acknowledging it (the idempotency key).
OncePerOccurrence == \A t \in Ticks : started[t] <= 1

\* The execution of an occurrence is in the database and no job runs it: the
\* api died between the transaction and the enqueue, and the job that was
\* delivered again met the key of its own execution.
Stranded(t) ==
  /\ job[t].stage = "ended" /\ job[t].recovered
  /\ started[t] > 0 /\ ~ queued[t]

\* Without faults, an occurrence whose workflow stays ACTIVE has its execution
\* enqueued in spite of a crash of the api, unless the crash stranded it
\* between the transaction of startExecution and the enqueue.
OccurrenceStarts ==
  \A t \in Ticks :
    job[t].stage = "waiting"
      ~> queued[t] \/ Stranded(t) \/ ~ IsActiveCron(db) \/ count.faults > 0

\* Without faults, the schedule of an ACTIVE workflow is back after a restart,
\* unless the worker or a request changes the workflow.
RestartSchedules ==
  \A e \in Valid :
    api = "down" /\ IsActiveCron(db) /\ db.cron = e
      ~> \/ scheduler = e
         \/ ~ IsActiveCron(db) \/ db.cron # e \/ count.faults > 0
=============================================================================
