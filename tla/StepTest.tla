------------------------------ MODULE StepTest ------------------------------
(***************************************************************************)
(* Trying things out.  A step test (POST .../test-step) goes through a     *)
(* queue to the worker, which runs the action under a 30 s timer or, for   *)
(* DB_QUERY, inside a transaction it rolls back; the api waits 35 s for    *)
(* the job.  The SQL previews of a connection (IntrospectionService) and   *)
(* the connection test (ConnectionTestService, 10 s) run in the api.  All  *)
(* of them talk to services that may answer late, fail or never answer.    *)
(***************************************************************************)
EXTENDS Naturals, FiniteSets

CONSTANTS
  Tests,            \* step tests, by request
  Previews,         \* testQuery and testMutation requests
  Pings,            \* connection tests
  TypeOf,           \* nodeType of each step test
  QueryOf,          \* what the SQL of a test or preview is
  Mixes,            \* calls made beside each other, and the bounds that go with
                    \* them: deaths of the worker; database, Redis and network errors
  NoCall,
  MaxStalledCount   \* BullMQ's default, 1

Calls == Tests \cup Previews \cup Pings
ActionTypes == {"HTTP_REQUEST", "EMAIL", "TELEGRAM", "DATA_TRANSFORM", "DB_QUERY"}

\* "read": SELECT or WITH; "write": one INSERT, UPDATE or DELETE; "returning":
\* such with RETURNING; "chain": statements that end the transaction around them;
\* "catalogue": what getTables and getColumns ask.
Queries == {"read", "write", "returning", "chain", "catalogue"}

ASSUME StepTestAssumption ==
  /\ IsFiniteSet(Calls)
  /\ Tests \cap Previews = {} /\ Tests \cap Pings = {} /\ Previews \cap Pings = {}
  /\ NoCall \notin Calls
  /\ TypeOf \in [Tests -> ActionTypes]
  /\ QueryOf \in [Calls -> Queries]
  /\ Mixes \subseteq [calls : SUBSET Calls, crashes : Nat, faults : Nat]
  /\ MaxStalledCount \in Nat

VARIABLES
  answer,     \* of each call: "none" until sent ("never" if it will not be),
              \* "asked", "waiting", then the answer
  job,        \* state of its job in the step-test queue
  stalls,     \* how often the job was found without a live worker
  slot,       \* the test the worker's one slot runs, or NoCall
  stage,      \* how far the code that serves the call has come
  outcome,    \* what that code is going to return
  row,        \* what its SQL did to the table: "none", "pending", "kept"
  attempt,    \* its request to the outside: "none", "out", "done"
  effects,    \* how often the outside has acted on it
  connection, \* whether the connection of the calls exists
  crashes, faults  \* how many are still to come at most

vars == <<answer, job, stalls, slot, stage, outcome, row, attempt, effects,
          connection, crashes, faults>>

Answers == {"refused", "error", "SUCCESS", "FAILED", "timed out"}
Answered(c) == answer[c] \in Answers

TypeOK ==
  /\ answer \in [Calls -> Answers \cup {"never", "none", "asked", "waiting"}]
  /\ job \in [Tests -> {"none", "waiting", "active", "completed", "failed"}]
  /\ stalls \in [Tests -> 0..MaxStalledCount + 1]
  /\ slot \in Tests \cup {NoCall}
  /\ stage \in [Calls -> {"idle", "load", "connecting", "open", "txn", "ran",
                          "ending", "acting", "over"}]
  /\ outcome \in [Calls -> {"none", "SUCCESS", "FAILED"}]
  /\ row \in [Calls -> {"none", "pending", "kept"}]
  /\ attempt \in [Tests -> {"none", "out", "done"}]
  /\ effects \in [Tests -> Nat]
  /\ connection \in BOOLEAN
  /\ crashes \in Nat
  /\ faults \in Nat

Init ==
  /\ \E mix \in Mixes :
       /\ answer = [c \in Calls |-> IF c \in mix.calls THEN "none" ELSE "never"]
       /\ crashes = mix.crashes
       /\ faults = mix.faults
  /\ job = [c \in Tests |-> "none"]
  /\ stalls = [c \in Tests |-> 0]
  /\ slot = NoCall
  /\ stage = [c \in Calls |-> "idle"]
  /\ outcome = [c \in Calls |-> "none"]
  /\ row = [c \in Calls |-> "none"]
  /\ attempt = [c \in Tests |-> "none"]
  /\ effects = [c \in Tests |-> 0]
  /\ connection = TRUE

-----------------------------------------------------------------------------
(* The api: checks, the queue, and the wait for the job.                   *)

Answer(c, a) == answer' = [answer EXCEPT ![c] = a]

UsesSql(c) == c \notin Tests \/ TypeOf[c] = "DB_QUERY"

\* EMAIL and TELEGRAM throw without credentials, as does DB_QUERY; a request of
\* the other types has no connection.
NeedsConnection(c) == TypeOf[c] \in {"EMAIL", "TELEGRAM", "DB_QUERY"}

\* sanitizeSingleStatement, validateReadOnlyQuery, validateMutationQuery.
PreviewAllows(c) == QueryOf[c] \in {"read", "write", "catalogue"}

\* createClient and getDecryptedCredentials read the connection.
CreatesClient(c) == connection /\ (c \in Previews => PreviewAllows(c))

\* testStep checks the connection's owner and leaves the rest to the worker.
Ask(c) ==
  /\ answer[c] = "none"
  /\ \/ /\ c \in Tests
        /\ Answer(c, IF connection \/ ~ NeedsConnection(c) THEN "asked" ELSE "refused")
        /\ UNCHANGED stage
     \/ /\ c \notin Tests /\ CreatesClient(c)
        /\ Answer(c, "waiting")
        /\ stage' = [stage EXCEPT ![c] = "connecting"]
     \/ /\ c \notin Tests /\ ~ CreatesClient(c)
        /\ Answer(c, "refused")
        /\ UNCHANGED stage
  /\ UNCHANGED <<job, stalls, slot, outcome, row, attempt, effects, connection,
                 crashes, faults>>

Enqueue(c) ==
  /\ c \in Tests /\ answer[c] = "asked"
  /\ \/ /\ job' = [job EXCEPT ![c] = "waiting"]
        /\ Answer(c, "waiting")
        /\ UNCHANGED faults
     \/ /\ faults > 0
        /\ faults' = faults - 1
        /\ Answer(c, "error")
        /\ UNCHANGED job
  /\ UNCHANGED <<stalls, slot, stage, outcome, row, attempt, effects, connection,
                 crashes>>

\* waitUntilFinished returns what the job returned.
JobAnswer(c) ==
  /\ c \in Tests /\ answer[c] = "waiting"
  /\ job[c] \in {"completed", "failed"}
  /\ Answer(c, IF job[c] = "failed" THEN "FAILED" ELSE outcome[c])
  /\ UNCHANGED <<job, stalls, slot, stage, outcome, row, attempt, effects,
                 connection, crashes, faults>>

\* Mutation: only a test that has been taken times out.
TimeoutOfTaken(c) ==
  /\ c \in Tests /\ answer[c] = "waiting" /\ job[c] = "active"
  /\ Answer(c, "timed out")
  /\ UNCHANGED <<job, stalls, slot, stage, outcome, row, attempt, effects,
                 connection, crashes, faults>>

\* 35 s, wherever the job is; it stays where it is.
Timeout(c) ==
  /\ c \in Tests /\ answer[c] = "waiting"
  /\ Answer(c, "timed out")
  /\ UNCHANGED <<job, stalls, slot, stage, outcome, row, attempt, effects,
                 connection, crashes, faults>>

\* withTimeout: 10 s; what it gives up goes on.
PingTimeout(c) ==
  /\ c \in Pings /\ answer[c] = "waiting"
  /\ Answer(c, "timed out")
  /\ UNCHANGED <<job, stalls, slot, stage, outcome, row, attempt, effects,
                 connection, crashes, faults>>

\* A preview and a connection test are answered by the code that ran them.
OwnAnswer(c) ==
  /\ c \notin Tests /\ answer[c] = "waiting" /\ stage[c] = "over"
  /\ Answer(c, outcome[c])
  /\ UNCHANGED <<job, stalls, slot, stage, outcome, row, attempt, effects,
                 connection, crashes, faults>>

-----------------------------------------------------------------------------
(* The queue and the worker's slot.                                        *)

Take(c) ==
  /\ c \in Tests /\ job[c] = "waiting" /\ slot = NoCall
  /\ job' = [job EXCEPT ![c] = "active"]
  /\ slot' = c
  /\ stage' = [stage EXCEPT ![c] = "load"]
  /\ outcome' = [outcome EXCEPT ![c] = "none"]
  /\ UNCHANGED <<answer, stalls, row, attempt, effects, connection, crashes, faults>>

\* executeTest has caught every error: the job is completed in any case.
Complete(c) ==
  /\ slot = c /\ c \in Tests /\ stage[c] = "over"
  /\ job' = [job EXCEPT ![c] = "completed"]
  /\ slot' = NoCall
  /\ UNCHANGED <<answer, stalls, stage, outcome, row, attempt, effects, connection,
                 crashes, faults>>

\* The process dies: its sessions end, which aborts their transactions, and so
\* do its requests; what has left it may still have had its effect.
WorkerCrash ==
  /\ crashes > 0
  /\ crashes' = crashes - 1
  /\ slot' = NoCall
  /\ stage' = [c \in Calls |-> IF c = slot THEN "idle" ELSE stage[c]]
  /\ row' = [c \in Calls |-> IF c = slot /\ row[c] = "pending" THEN "none" ELSE row[c]]
  /\ attempt' = [c \in Tests |-> "none"]
  /\ UNCHANGED <<answer, job, stalls, outcome, effects, connection, faults>>

RecoverStalled(c) ==
  /\ c \in Tests /\ job[c] = "active" /\ slot # c
  /\ stalls' = [stalls EXCEPT ![c] = @ + 1]
  /\ job' = [job EXCEPT ![c] = IF stalls[c] < MaxStalledCount THEN "waiting" ELSE "failed"]
  /\ UNCHANGED <<answer, slot, stage, outcome, row, attempt, effects, connection,
                 crashes, faults>>

-----------------------------------------------------------------------------
(* What serves the call: executeTest, testQuery, testMutation, testPostgresql. *)

To(c, s) == stage' = [stage EXCEPT ![c] = s]
Returns(c, o) == outcome' = [outcome EXCEPT ![c] = o]

\* The checks of executeDbQueryTest before it connects.
RefusesQuery(c) == UsesSql(c) /\ QueryOf[c] \in {"returning", "catalogue"}

LoadCredentials(c) ==
  /\ c \in Tests /\ stage[c] = "load"
  /\ IF (NeedsConnection(c) /\ ~ connection) \/ RefusesQuery(c)
       THEN To(c, "over") /\ Returns(c, "FAILED")
       ELSE To(c, IF UsesSql(c) THEN "connecting" ELSE "acting") /\ UNCHANGED outcome
  /\ UNCHANGED <<answer, job, stalls, slot, row, attempt, effects, connection,
                 crashes, faults>>

SessionUnchanged == UNCHANGED <<answer, job, stalls, slot, attempt, effects,
                                connection, crashes>>

\* client.connect().
Connect(c) ==
  /\ stage[c] = "connecting"
  /\ To(c, "open")
  /\ SessionUnchanged /\ UNCHANGED <<outcome, row, faults>>

\* One statement without a transaction: SELECT 1, getTables, getColumns.
SingleRead(c) ==
  /\ stage[c] = "open"
  /\ c \in Pings \/ QueryOf[c] = "catalogue"
  /\ To(c, "ending") /\ Returns(c, "SUCCESS")
  /\ SessionUnchanged /\ UNCHANGED <<row, faults>>

\* BEGIN and SET LOCAL statement_timeout.
Begin(c) ==
  /\ stage[c] = "open"
  /\ c \notin Pings /\ QueryOf[c] # "catalogue"
  /\ To(c, "txn")
  /\ SessionUnchanged /\ UNCHANGED <<outcome, row, faults>>

\* Mutation of Query: the statement is not inside a transaction.
QueryAutocommits(c) ==
  /\ stage[c] = "txn"
  /\ row' = [row EXCEPT ![c] = IF QueryOf[c] = "read" THEN "none" ELSE "kept"]
  /\ To(c, "ran")
  /\ SessionUnchanged /\ UNCHANGED <<outcome, faults>>

Query(c) ==
  /\ stage[c] = "txn"
  /\ row' = [row EXCEPT ![c] = CASE QueryOf[c] = "write" -> "pending"
                                 [] QueryOf[c] = "chain" -> "kept"
                                 [] OTHER -> "none"]
  /\ To(c, "ran")
  /\ SessionUnchanged /\ UNCHANGED <<outcome, faults>>

Rollback(c) == row' = [row EXCEPT ![c] = IF @ = "pending" THEN "none" ELSE @]

\* ROLLBACK of the worker's test.
EndTransaction(c) ==
  /\ c \in Tests /\ stage[c] = "ran"
  /\ Rollback(c)
  /\ Returns(c, "SUCCESS")
  /\ To(c, "ending")
  /\ SessionUnchanged /\ UNCHANGED faults

\* testMutation rolls back, testQuery commits its READ ONLY transaction.
EndPreview(c) ==
  /\ c \in Previews /\ stage[c] = "ran"
  /\ IF QueryOf[c] = "write" THEN Rollback(c) ELSE UNCHANGED row
  /\ Returns(c, "SUCCESS")
  /\ To(c, "ending")
  /\ SessionUnchanged /\ UNCHANGED faults

\* A statement or the connection fails: the catch clause rolls back.
SessionFails(c) ==
  /\ stage[c] \in {"connecting", "open", "txn", "ran"}
  /\ faults > 0
  /\ faults' = faults - 1
  /\ Rollback(c)
  /\ Returns(c, "FAILED")
  /\ To(c, "ending")
  /\ SessionUnchanged

\* The finally clause: client.end().
Close(c) ==
  /\ stage[c] = "ending"
  /\ To(c, "over")
  /\ SessionUnchanged /\ UNCHANGED <<outcome, row, faults>>

-----------------------------------------------------------------------------
(* The other actions: ActionService.execute in a race with the timer.      *)

ActUnchanged == UNCHANGED <<answer, job, stalls, slot, row, connection, crashes>>

\* fetch, sendMail or axios.post has been called.
Send(c) ==
  /\ c \in Tests /\ stage[c] = "acting" /\ attempt[c] = "none"
  /\ TypeOf[c] # "DATA_TRANSFORM"
  /\ attempt' = [attempt EXCEPT ![c] = "out"]
  /\ ActUnchanged /\ UNCHANGED <<stage, outcome, effects, faults>>

\* The outside acts on the request, if need be after the test was given up: the
\* abort signal closes the request's connection, not what was sent on it.
TakeEffect(c) ==
  /\ c \in Tests /\ attempt[c] = "out"
  /\ attempt' = [attempt EXCEPT ![c] = "done"]
  /\ effects' = [effects EXCEPT ![c] = @ + 1]
  /\ ActUnchanged /\ UNCHANGED <<stage, outcome, faults>>

\* Mutation: the promise of the action is not awaited.
ActionReturnsUnawaited(c) ==
  /\ c \in Tests /\ stage[c] = "acting"
  /\ attempt[c] # "none" \/ TypeOf[c] = "DATA_TRANSFORM"
  /\ To(c, "over") /\ Returns(c, "SUCCESS")
  /\ ActUnchanged /\ UNCHANGED <<attempt, effects, faults>>

ActionReturns(c) ==
  /\ c \in Tests /\ stage[c] = "acting"
  /\ attempt[c] = "done" \/ TypeOf[c] = "DATA_TRANSFORM"
  /\ To(c, "over") /\ Returns(c, "SUCCESS")
  /\ attempt' = [attempt EXCEPT ![c] = "none"]
  /\ ActUnchanged /\ UNCHANGED <<effects, faults>>

\* Bad configuration, a status that is not ok, a lost connection.
ActionThrows(c) ==
  /\ c \in Tests /\ stage[c] = "acting" /\ faults > 0
  /\ faults' = faults - 1
  /\ To(c, "over") /\ Returns(c, "FAILED")
  /\ ActUnchanged /\ UNCHANGED <<attempt, effects>>

\* Mutation: the timer does not end the race.
ActionOutlivesTimer(c) ==
  /\ c \in Tests /\ stage[c] = "acting" /\ attempt[c] = "done"
  /\ To(c, "over") /\ Returns(c, "FAILED")
  /\ ActUnchanged /\ UNCHANGED <<attempt, effects, faults>>

ActionTimesOut(c) ==
  /\ c \in Tests /\ stage[c] = "acting"
  /\ To(c, "over") /\ Returns(c, "FAILED")
  /\ ActUnchanged /\ UNCHANGED <<attempt, effects, faults>>

-----------------------------------------------------------------------------

\* The owner deletes the connection (no workflow uses it yet).
RemoveConnection ==
  /\ connection
  /\ connection' = FALSE
  /\ UNCHANGED <<answer, job, stalls, slot, stage, outcome, row, attempt, effects,
                 crashes, faults>>

ApiStep(c) == Enqueue(c) \/ JobAnswer(c) \/ Timeout(c) \/ PingTimeout(c)
               \/ OwnAnswer(c)
SessionStep(c) == Connect(c) \/ SingleRead(c) \/ Begin(c) \/ Query(c)
                    \/ EndTransaction(c) \/ EndPreview(c) \/ Close(c)
WorkerStep(c) == LoadCredentials(c) \/ ActionTimesOut(c) \/ Complete(c)

Next ==
  \/ \E c \in Calls :
       \/ Ask(c) \/ ApiStep(c)
       \/ Take(c) \/ RecoverStalled(c) \/ WorkerStep(c)
       \/ SessionStep(c) \/ SessionFails(c)
       \/ Send(c) \/ TakeEffect(c) \/ ActionReturns(c) \/ ActionThrows(c)
  \/ WorkerCrash
  \/ RemoveConnection

Spec == Init /\ [][Next]_vars

\* Handlers that have started go on, the worker takes jobs and both timers fire.
\* No step of a session with the database is promised, nor an action's return:
\* the client sets no timer for its answers, and statement_timeout is kept by the
\* server, if it still answers at all.
Fairness ==
  \A c \in Calls :
    /\ WF_vars(ApiStep(c))
    /\ SF_vars(Take(c))
    /\ WF_vars(RecoverStalled(c))
    /\ WF_vars(WorkerStep(c))

FairSpec == Spec /\ Fairness

-----------------------------------------------------------------------------
(* Properties.                                                             *)

\* testMutation: "mutation preview must not persist changes"; executeDbQueryTest
\* rolls back likewise.  A preview or a test leaves no row, whatever fails or
\* dies on the way, but for a text that ends the transaction itself: only the
\* api's previews refuse those.  And when a job has ended, or a preview is
\* answered, no session and no transaction of it is left.
NothingIsLeft ==
  /\ TypeOK
  /\ \A c \in Calls :
    /\ row[c] = "kept" => c \in Tests /\ QueryOf[c] = "chain"
    /\ \/ (c \in Tests /\ job[c] \in {"completed", "failed"})
       \/ (c \in Previews /\ Answered(c))
       => stage[c] \in {"idle", "over"} /\ row[c] # "pending"

\* What an answer says of the action.  SUCCESS: it has taken effect, and it
\* never takes effect again; it has done so twice only if the worker died in
\* between.  Any other answer leaves open whether it has, or still will.
AnswerToldTheEffect ==
  \A c \in Tests :
    /\ (answer[c] = "SUCCESS" /\ TypeOf[c] \in {"HTTP_REQUEST", "EMAIL", "TELEGRAM"})
       => effects[c] \in 1..1 + stalls[c] /\ attempt[c] = "none"
    /\ effects[c] <= 1 + stalls[c]
    /\ answer[c] = "refused" => effects[c] = 0 /\ row[c] = "none"

\* Where a session waits for the database: connect, BEGIN, the statement, the
\* end of the transaction and end() of the client.
OnDatabase == {"connecting", "open", "txn", "ran", "ending"}

\* The session of a call waits for ever for one and the same answer.
Hangs(c) == \E s \in OnDatabase : <>[](stage[c] = s)

\* No caller waits for ever for a step test or a connection test, whatever the
\* database does; a preview has no timer, and its caller waits for ever only if
\* its session does.
EveryCallIsAnswered ==
  \A c \in Calls :
    \/ c \in Previews /\ Hangs(c)
    \/ answer[c] = "waiting" ~> Answered(c)

\* The tests behind a test are run in the end, unless its session hangs: the one
\* slot has no other guard than the 30 s timer, which DB_QUERY bypasses.
QueueMovesUnlessSessionHangs ==
  \A c \in Tests :
    \/ \E d \in Tests \ {c} : Hangs(d)
    \/ job[c] = "waiting" ~> job[c] # "waiting"

\* Callers are answered and the queue moves, as far as the database answers.
CallsEnd == EveryCallIsAnswered /\ QueueMovesUnlessSessionHangs
=============================================================================
