--------------------------- MODULE StepTestProofs ---------------------------
(***************************************************************************)
(* Proofs about StepTest, for any set of tests, previews and pings and any *)
(* number of deaths and errors: a test leaves no row and no session, and   *)
(* its answer tells what its action has done, because the one slot runs    *)
(* what is active and a request goes out once each time a job is taken.    *)
(***************************************************************************)
EXTENDS StepTest, WellFoundedInduction, TLAPS

-----------------------------------------------------------------------------
(* The inductive invariant.                                                *)

\* Who runs what: the slot's test is active and no other test has a stage.
TestRuns(c) ==
  /\ stage[c] \notin {"idle", "over"} => slot = c
  /\ slot = c => job[c] = "active"
  /\ stage[c] \in {"connecting", "open", "txn", "ran", "ending"} => UsesSql(c)
  /\ stage[c] \in {"ending", "over"} => outcome[c] # "none"
  /\ answer[c] \in {"never", "none", "asked", "refused", "error"} => job[c] = "none"
  /\ answer[c] = "SUCCESS" => job[c] = "completed" /\ outcome[c] = "SUCCESS"
  /\ job[c] \notin {"completed", "failed"} => stalls[c] <= MaxStalledCount
  /\ job[c] = "completed" => outcome[c] # "none"

\* A preview has a stage only while its caller waits.
PreviewRuns(c) ==
  /\ stage[c] \notin {"load", "acting"}
  /\ stage[c] \in {"ending", "over"} => outcome[c] # "none"
  /\ answer[c] \in {"never", "none"} => stage[c] = "idle"
  /\ c \in Previews /\ stage[c] # "idle" => PreviewAllows(c)
  /\ c \in Previews /\ stage[c] \notin {"idle", "over"} => answer[c] = "waiting"
  /\ c \in Pings => stage[c] \notin {"txn", "ran"}

RunInv ==
  /\ \A c \in Tests : TestRuns(c)
  /\ \A c \in Calls \ Tests : PreviewRuns(c)

\* What SQL has done is undone wherever its stage ends.
RowOf(c) ==
  /\ row[c] = "pending" => stage[c] = "ran" /\ QueryOf[c] = "write"
  /\ row[c] = "kept" => c \in Tests /\ QueryOf[c] = "chain"
  /\ c \in Tests /\ job[c] = "none" => row[c] = "none"

RowInv == \A c \in Calls : RowOf(c)

\* A request goes out once each time the job is taken.
EffectOf(c) ==
  /\ effects[c] <= 1 + stalls[c]
  /\ attempt[c] = "out" => effects[c] <= stalls[c]
  /\ attempt[c] = "done" => effects[c] >= 1
  /\ (job[c] = "waiting" \/ stage[c] = "load") =>
       attempt[c] = "none" /\ effects[c] <= stalls[c]
  /\ stage[c] = "acting" /\ attempt[c] = "none" => effects[c] <= stalls[c]
  /\ job[c] = "active" /\ slot # c => attempt[c] = "none"
  /\ job[c] = "none" => effects[c] = 0 /\ attempt[c] = "none"
  /\ (stage[c] = "over" \/ job[c] = "completed") /\ outcome[c] = "SUCCESS" /\ ~ UsesSql(c)
       /\ TypeOf[c] # "DATA_TRANSFORM" => effects[c] >= 1 /\ attempt[c] = "none"

EffectInv == \A c \in Tests : EffectOf(c)

IInv == TypeOK /\ RunInv /\ RowInv /\ EffectInv

-----------------------------------------------------------------------------
(* The invariant is kept.                                                  *)

\* What the proofs need of the constants.
LEMMA Kinds ==
  NoCall \notin Calls /\ Tests \subseteq Calls /\ Previews \subseteq Calls /\ Pings \subseteq Calls
        /\ Tests \cap Previews = {} /\ Tests \cap Pings = {} /\ Previews \cap Pings = {}
        /\ MaxStalledCount \in Nat /\ QueryOf \in [Calls -> Queries]
BY StepTestAssumption DEF Calls

\* Before the first call nothing runs.
LEMMA InitInv == Init => IInv
<1> SUFFICES ASSUME Init PROVE IInv
  OBVIOUS
<1> USE Kinds
<1>1. PICK mix \in Mixes :
        /\ answer = [c \in Calls |-> IF c \in mix.calls THEN "none" ELSE "never"]
        /\ crashes = mix.crashes /\ faults = mix.faults
  BY DEF Init
<1>2. mix.crashes \in Nat /\ mix.faults \in Nat
  BY StepTestAssumption
<1>3. TypeOK
  BY <1>1, <1>2 DEF Init, TypeOK
<1>4. \A c \in Tests : TestRuns(c) /\ EffectOf(c)
  BY <1>1 DEF Init, TestRuns, EffectOf
<1>5. \A c \in Calls : RowOf(c)
  BY <1>1 DEF Init, RowOf
<1>6. \A c \in Calls \ Tests : PreviewRuns(c)
  BY <1>1 DEF Init, PreviewRuns
<1> QED
  BY <1>3, <1>4, <1>5, <1>6 DEF IInv, RunInv, RowInv, EffectInv

\* Type correctness of a step.
LEMMA TypeStep ==
  ASSUME IInv, [Next]_vars
  PROVE  TypeOK'
<1> USE Kinds DEF Answers
<1>0. TypeOK
  BY DEF IInv
<1>a. answer \in [Calls -> Answers \cup {"never", "none", "asked", "waiting"}]
  BY <1>0 DEF TypeOK
<1>b. job \in [Tests -> {"none", "waiting", "active", "completed", "failed"}]
  BY <1>0 DEF TypeOK
<1>c. stage \in [Calls -> {"idle", "load", "connecting", "open", "txn", "ran", "ending",
                           "acting", "over"}]
  BY <1>0 DEF TypeOK
<1>d. outcome \in [Calls -> {"none", "SUCCESS", "FAILED"}]
  BY <1>0 DEF TypeOK
<1>e. row \in [Calls -> {"none", "pending", "kept"}]
  BY <1>0 DEF TypeOK
<1>f. attempt \in [Tests -> {"none", "out", "done"}]
  BY <1>0 DEF TypeOK
<1>g. effects \in [Tests -> Nat]
  BY <1>0 DEF TypeOK
<1>h. stalls \in [Tests -> 0..MaxStalledCount + 1]
  BY <1>0 DEF TypeOK
<1>i. crashes \in Nat
  BY <1>0 DEF TypeOK
<1>j. faults \in Nat
  BY <1>0 DEF TypeOK
<1>k. \A c \in Tests : job[c] = "active" => stalls[c] <= MaxStalledCount
  BY DEF IInv, RunInv, TestRuns
<1>1. ASSUME NEW d \in Calls, Ask(d) PROVE TypeOK'
  <2>1. answer' \in [Calls -> Answers \cup {"never", "none", "asked", "waiting"}]
    BY <1>1, <1>a DEF Ask, CreatesClient, Answer
  <2>2. stage' \in [Calls -> {"idle", "load", "connecting", "open", "txn", "ran", "ending",
                           "acting", "over"}]
    BY <1>1, <1>c DEF Ask, CreatesClient, Answer
  <2> QED
    BY <1>0, <1>1, <2>1, <2>2 DEF TypeOK, Ask, CreatesClient, Answer
<1>2. ASSUME NEW d \in Calls, Enqueue(d) PROVE TypeOK'
  <2>1. answer' \in [Calls -> Answers \cup {"never", "none", "asked", "waiting"}]
    BY <1>2, <1>a DEF Enqueue, Answer
  <2>2. job' \in [Tests -> {"none", "waiting", "active", "completed", "failed"}]
    BY <1>2, <1>b DEF Enqueue, Answer
  <2>3. faults' \in Nat
    BY <1>2, <1>j DEF Enqueue, Answer
  <2> QED
    BY <1>0, <1>2, <2>1, <2>2, <2>3 DEF TypeOK, Enqueue, Answer
<1>3. ASSUME NEW d \in Calls, JobAnswer(d) PROVE TypeOK'
  BY <1>0, <1>3 DEF TypeOK, JobAnswer, Answer
<1>4. ASSUME NEW d \in Calls, Timeout(d) \/ PingTimeout(d) \/ OwnAnswer(d) PROVE TypeOK'
  <2>1. answer' \in [Calls -> Answers \cup {"never", "none", "asked", "waiting"}]
    BY <1>4, <1>a, <1>d DEF Timeout, PingTimeout, OwnAnswer, Answer
  <2>2. UNCHANGED <<job, stalls, slot, stage, outcome, row, attempt, effects, connection, crashes, faults>>
    BY <1>4 DEF Timeout, PingTimeout, OwnAnswer, Answer
  <2> QED
    BY <1>0, <2>1, <2>2 DEF TypeOK
<1>5. ASSUME NEW d \in Calls, Take(d) PROVE TypeOK'
  BY <1>0, <1>5 DEF TypeOK, Take
<1>6. ASSUME NEW d \in Calls, RecoverStalled(d) PROVE TypeOK'
  <2>1. job' \in [Tests -> {"none", "waiting", "active", "completed", "failed"}]
    BY <1>6, <1>b DEF RecoverStalled
  <2>2. stalls' \in [Tests -> 0..MaxStalledCount + 1]
    BY <1>6, <1>h, <1>k DEF RecoverStalled
  <2> QED
    BY <1>0, <1>6, <2>1, <2>2 DEF TypeOK, RecoverStalled
<1>7. ASSUME NEW d \in Calls, LoadCredentials(d) PROVE TypeOK'
  BY <1>0, <1>7 DEF TypeOK, LoadCredentials, RefusesQuery, To, Returns
<1>8. ASSUME NEW d \in Calls, Connect(d) \/ Begin(d) PROVE TypeOK'
  <2>1. stage' \in [Calls -> {"idle", "load", "connecting", "open", "txn", "ran", "ending",
                           "acting", "over"}]
    BY <1>8, <1>c DEF Connect, Begin, To, SessionUnchanged
  <2>2. UNCHANGED <<answer, job, stalls, slot, outcome, row, attempt, effects, connection, crashes, faults>>
    BY <1>8 DEF Connect, Begin, To, SessionUnchanged
  <2> QED
    BY <1>0, <2>1, <2>2 DEF TypeOK
<1>9. ASSUME NEW d \in Calls, SingleRead(d) \/ Close(d) PROVE TypeOK'
  <2>1. stage' \in [Calls -> {"idle", "load", "connecting", "open", "txn", "ran", "ending",
                           "acting", "over"}]
    BY <1>9, <1>c DEF SingleRead, Close, To, Returns, SessionUnchanged
  <2>2. outcome' \in [Calls -> {"none", "SUCCESS", "FAILED"}]
    BY <1>9, <1>d DEF SingleRead, Close, To, Returns, SessionUnchanged
  <2>3. UNCHANGED <<answer, job, stalls, slot, row, attempt, effects, connection, crashes, faults>>
    BY <1>9 DEF SingleRead, Close, To, Returns, SessionUnchanged
  <2> QED
    BY <1>0, <2>1, <2>2, <2>3 DEF TypeOK
<1>10. ASSUME NEW d \in Calls, Query(d) PROVE TypeOK'
  BY <1>0, <1>10 DEF TypeOK, Query, To, SessionUnchanged
<1>11. ASSUME NEW d \in Calls, EndTransaction(d) PROVE TypeOK'
  BY <1>0, <1>11 DEF TypeOK, EndTransaction, To, Returns, Rollback, SessionUnchanged
<1>12. ASSUME NEW d \in Calls, EndPreview(d) PROVE TypeOK'
  BY <1>0, <1>12 DEF TypeOK, EndPreview, To, Returns, Rollback, SessionUnchanged
<1>13. ASSUME NEW d \in Calls, SessionFails(d) PROVE TypeOK'
  <2>1. faults' \in Nat
    BY <1>13, <1>j DEF SessionFails, To, Returns, Rollback, SessionUnchanged
  <2>2. row' \in [Calls -> {"none", "pending", "kept"}]
    BY <1>13, <1>e DEF SessionFails, To, Returns, Rollback, SessionUnchanged
  <2>3. outcome' \in [Calls -> {"none", "SUCCESS", "FAILED"}]
    BY <1>13, <1>d DEF SessionFails, To, Returns, Rollback, SessionUnchanged
  <2>4. stage' \in [Calls -> {"idle", "load", "connecting", "open", "txn", "ran", "ending",
                           "acting", "over"}]
    BY <1>13, <1>c DEF SessionFails, To, Returns, Rollback, SessionUnchanged
  <2> QED
    BY <1>0, <1>13, <2>1, <2>2, <2>3, <2>4 DEF TypeOK, SessionFails, To, Returns, Rollback, SessionUnchanged
<1>14. ASSUME NEW d \in Calls, ActionTimesOut(d) PROVE TypeOK'
  BY <1>0, <1>14 DEF TypeOK, ActionTimesOut, To, Returns, ActUnchanged
<1>15. ASSUME NEW d \in Calls, ActionReturns(d) PROVE TypeOK'
  BY <1>0, <1>15 DEF TypeOK, ActionReturns, To, Returns, ActUnchanged
<1>16. ASSUME NEW d \in Calls, ActionThrows(d) PROVE TypeOK'
  <2>1. faults' \in Nat
    BY <1>16, <1>j DEF ActionThrows, To, Returns, ActUnchanged
  <2>2. outcome' \in [Calls -> {"none", "SUCCESS", "FAILED"}]
    BY <1>16, <1>d DEF ActionThrows, To, Returns, ActUnchanged
  <2>3. stage' \in [Calls -> {"idle", "load", "connecting", "open", "txn", "ran", "ending",
                           "acting", "over"}]
    BY <1>16, <1>c DEF ActionThrows, To, Returns, ActUnchanged
  <2> QED
    BY <1>0, <1>16, <2>1, <2>2, <2>3 DEF TypeOK, ActionThrows, To, Returns, ActUnchanged
<1>17. ASSUME NEW d \in Calls, Complete(d) PROVE TypeOK'
  BY <1>0, <1>17 DEF TypeOK, Complete
<1>18. ASSUME NEW d \in Calls, Send(d) \/ TakeEffect(d) PROVE TypeOK'
  <2>1. attempt' \in [Tests -> {"none", "out", "done"}]
    BY <1>18, <1>f DEF Send, TakeEffect, ActUnchanged
  <2>2. effects' \in [Tests -> Nat]
    BY <1>18, <1>g DEF Send, TakeEffect, ActUnchanged
  <2>3. UNCHANGED <<answer, job, stalls, slot, stage, outcome, row, connection, crashes, faults>>
    BY <1>18 DEF Send, TakeEffect, ActUnchanged
  <2> QED
    BY <1>0, <2>1, <2>2, <2>3 DEF TypeOK
<1>19. CASE WorkerCrash
  <2>1. crashes' \in Nat
    BY <1>19, <1>i DEF WorkerCrash
  <2>2. stage' \in [Calls -> {"idle", "load", "connecting", "open", "txn", "ran", "ending",
                           "acting", "over"}]
    BY <1>19, <1>c DEF WorkerCrash
  <2>3. row' \in [Calls -> {"none", "pending", "kept"}]
    BY <1>19, <1>e DEF WorkerCrash
  <2>4. attempt' \in [Tests -> {"none", "out", "done"}]
    BY <1>19, <1>f DEF WorkerCrash
  <2> QED
    BY <1>0, <1>19, <2>1, <2>2, <2>3, <2>4 DEF TypeOK, WorkerCrash
<1>20. CASE RemoveConnection
  BY <1>0, <1>20 DEF TypeOK, RemoveConnection
<1>21. CASE UNCHANGED vars
  BY <1>0, <1>21 DEF TypeOK, vars
<1> QED
  BY <1>1, <1>2, <1>3, <1>4, <1>5, <1>6, <1>7, <1>8, <1>9, <1>10, <1>11, <1>12, <1>13, <1>14, <1>15, <1>16, <1>17, <1>18, <1>19, <1>20, <1>21
     DEF Next, ApiStep, SessionStep, WorkerStep

\* The slot, the queue and the answers stay in step.
LEMMA TestStep ==
  ASSUME IInv, [Next]_vars, NEW c \in Tests
  PROVE  TestRuns(c)'
<1> USE Kinds DEF TypeOK, TestRuns, UsesSql
<1>0. TypeOK /\ TestRuns(c)
  BY DEF IInv, RunInv
<1>1. ASSUME NEW d \in Calls, Ask(d) PROVE TestRuns(c)'
  BY <1>0, <1>1 DEF Ask, CreatesClient, Answer
<1>2. ASSUME NEW d \in Calls, Enqueue(d) PROVE TestRuns(c)'
  BY <1>0, <1>2 DEF Enqueue, Answer
<1>3. ASSUME NEW d \in Calls, JobAnswer(d) PROVE TestRuns(c)'
  BY <1>0, <1>3 DEF JobAnswer, Answer
<1>4. ASSUME NEW d \in Calls, Timeout(d) \/ PingTimeout(d) \/ OwnAnswer(d) PROVE TestRuns(c)'
  BY <1>0, <1>4 DEF Timeout, PingTimeout, OwnAnswer, Answer
<1>5. ASSUME NEW d \in Calls, Take(d) PROVE TestRuns(c)'
  BY <1>0, <1>5 DEF Take
<1>6. ASSUME NEW d \in Calls, RecoverStalled(d) PROVE TestRuns(c)'
  BY <1>0, <1>6 DEF RecoverStalled
<1>7. ASSUME NEW d \in Calls, LoadCredentials(d) PROVE TestRuns(c)'
  BY <1>0, <1>7 DEF LoadCredentials, RefusesQuery, To, Returns
<1>8. ASSUME NEW d \in Calls, Connect(d) \/ Begin(d) PROVE TestRuns(c)'
  BY <1>0, <1>8 DEF Connect, Begin, To, SessionUnchanged
<1>9. ASSUME NEW d \in Calls, SingleRead(d) \/ Close(d) PROVE TestRuns(c)'
  BY <1>0, <1>9 DEF SingleRead, Close, To, Returns, SessionUnchanged
<1>10. ASSUME NEW d \in Calls, Query(d) PROVE TestRuns(c)'
  BY <1>0, <1>10 DEF Query, To, SessionUnchanged
<1>11. ASSUME NEW d \in Calls, EndTransaction(d) PROVE TestRuns(c)'
  BY <1>0, <1>11 DEF EndTransaction, To, Returns, Rollback, SessionUnchanged
<1>12. ASSUME NEW d \in Calls, EndPreview(d) PROVE TestRuns(c)'
  BY <1>0, <1>12 DEF EndPreview, To, Returns, Rollback, SessionUnchanged
<1>13. ASSUME NEW d \in Calls, SessionFails(d) PROVE TestRuns(c)'
  BY <1>0, <1>13 DEF SessionFails, To, Returns, Rollback, SessionUnchanged
<1>14. ASSUME NEW d \in Calls, ActionTimesOut(d) PROVE TestRuns(c)'
  BY <1>0, <1>14 DEF ActionTimesOut, To, Returns, ActUnchanged
<1>15. ASSUME NEW d \in Calls, ActionReturns(d) PROVE TestRuns(c)'
  BY <1>0, <1>15 DEF ActionReturns, To, Returns, ActUnchanged
<1>16. ASSUME NEW d \in Calls, ActionThrows(d) PROVE TestRuns(c)'
  BY <1>0, <1>16 DEF ActionThrows, To, Returns, ActUnchanged
<1>17. ASSUME NEW d \in Calls, Complete(d) PROVE TestRuns(c)'
  BY <1>0, <1>17 DEF Complete
<1>18. ASSUME NEW d \in Calls, Send(d) \/ TakeEffect(d) PROVE TestRuns(c)'
  BY <1>0, <1>18 DEF Send, TakeEffect, ActUnchanged
<1>19. CASE WorkerCrash
  BY <1>0, <1>19 DEF WorkerCrash
<1>20. CASE RemoveConnection
  BY <1>0, <1>20 DEF RemoveConnection
<1>21. CASE UNCHANGED vars
  BY <1>0, <1>21 DEF vars
<1> QED
  BY <1>1, <1>2, <1>3, <1>4, <1>5, <1>6, <1>7, <1>8, <1>9, <1>10, <1>11, <1>12, <1>13, <1>14, <1>15, <1>16, <1>17, <1>18, <1>19, <1>20, <1>21
     DEF Next, ApiStep, SessionStep, WorkerStep

\* A preview keeps to its caller.
LEMMA PreviewStep ==
  ASSUME IInv, [Next]_vars, NEW c \in Calls \ Tests
  PROVE  PreviewRuns(c)'
<1> USE Kinds DEF TypeOK, PreviewRuns, PreviewAllows
<1>0. TypeOK /\ PreviewRuns(c) /\ c # slot
  BY DEF IInv, RunInv, TypeOK
<1>1. ASSUME NEW d \in Calls, Ask(d) PROVE PreviewRuns(c)'
  BY <1>0, <1>1 DEF Ask, CreatesClient, Answer
<1>2. ASSUME NEW d \in Calls, Enqueue(d) PROVE PreviewRuns(c)'
  BY <1>0, <1>2 DEF Enqueue, Answer
<1>3. ASSUME NEW d \in Calls, JobAnswer(d) PROVE PreviewRuns(c)'
  BY <1>0, <1>3 DEF JobAnswer, Answer
<1>4. ASSUME NEW d \in Calls, Timeout(d) \/ PingTimeout(d) \/ OwnAnswer(d) PROVE PreviewRuns(c)'
  <2>1. CASE Timeout(d)
    BY <1>0, <2>1 DEF Timeout, Answer
  <2>2. CASE PingTimeout(d)
    BY <1>0, <2>2 DEF PingTimeout, Answer
  <2>3. CASE OwnAnswer(d)
    BY <1>0, <2>3 DEF OwnAnswer, Answer
  <2> QED BY <1>4, <2>1, <2>2, <2>3
<1>5. ASSUME NEW d \in Calls, Take(d) PROVE PreviewRuns(c)'
  BY <1>0, <1>5 DEF Take
<1>6. ASSUME NEW d \in Calls, RecoverStalled(d) PROVE PreviewRuns(c)'
  BY <1>0, <1>6 DEF RecoverStalled
<1>7. ASSUME NEW d \in Calls, LoadCredentials(d) PROVE PreviewRuns(c)'
  BY <1>0, <1>7 DEF LoadCredentials, RefusesQuery, To, Returns
<1>8. ASSUME NEW d \in Calls, Connect(d) \/ Begin(d) PROVE PreviewRuns(c)'
  BY <1>0, <1>8 DEF Connect, Begin, To, SessionUnchanged
<1>9. ASSUME NEW d \in Calls, SingleRead(d) \/ Close(d) PROVE PreviewRuns(c)'
  BY <1>0, <1>9 DEF SingleRead, Close, To, Returns, SessionUnchanged
<1>10. ASSUME NEW d \in Calls, Query(d) PROVE PreviewRuns(c)'
  BY <1>0, <1>10 DEF Query, To, SessionUnchanged
<1>11. ASSUME NEW d \in Calls, EndTransaction(d) PROVE PreviewRuns(c)'
  BY <1>0, <1>11 DEF EndTransaction, To, Returns, Rollback, SessionUnchanged
<1>12. ASSUME NEW d \in Calls, EndPreview(d) PROVE PreviewRuns(c)'
  BY <1>0, <1>12 DEF EndPreview, To, Returns, Rollback, SessionUnchanged
<1>13. ASSUME NEW d \in Calls, SessionFails(d) PROVE PreviewRuns(c)'
  BY <1>0, <1>13 DEF SessionFails, To, Returns, Rollback, SessionUnchanged
<1>14. ASSUME NEW d \in Calls, ActionTimesOut(d) PROVE PreviewRuns(c)'
  BY <1>0, <1>14 DEF ActionTimesOut, To, Returns, ActUnchanged
<1>15. ASSUME NEW d \in Calls, ActionReturns(d) PROVE PreviewRuns(c)'
  BY <1>0, <1>15 DEF ActionReturns, To, Returns, ActUnchanged
<1>16. ASSUME NEW d \in Calls, ActionThrows(d) PROVE PreviewRuns(c)'
  BY <1>0, <1>16 DEF ActionThrows, To, Returns, ActUnchanged
<1>17. ASSUME NEW d \in Calls, Complete(d) PROVE PreviewRuns(c)'
  BY <1>0, <1>17 DEF Complete
<1>18. ASSUME NEW d \in Calls, Send(d) \/ TakeEffect(d) PROVE PreviewRuns(c)'
  BY <1>0, <1>18 DEF Send, TakeEffect, ActUnchanged
<1>19. CASE WorkerCrash
  BY <1>0, <1>19 DEF WorkerCrash
<1>20. CASE RemoveConnection
  BY <1>0, <1>20 DEF RemoveConnection
<1>21. CASE UNCHANGED vars
  BY <1>0, <1>21 DEF vars
<1> QED
  BY <1>1, <1>2, <1>3, <1>4, <1>5, <1>6, <1>7, <1>8, <1>9, <1>10, <1>11, <1>12, <1>13, <1>14, <1>15, <1>16, <1>17, <1>18, <1>19, <1>20, <1>21
     DEF Next, ApiStep, SessionStep, WorkerStep

\* No row outlives its stage.
LEMMA RowStep ==
  ASSUME IInv, [Next]_vars, NEW c \in Calls
  PROVE  RowOf(c)'
<1> USE Kinds DEF TypeOK, RowOf, TestRuns, PreviewRuns, PreviewAllows, Queries
<1>0. /\ TypeOK /\ RowOf(c) /\ (c \in Tests => TestRuns(c))
      /\ c \notin Tests => PreviewRuns(c)
  BY DEF IInv, RunInv, RowInv
<1>1. ASSUME NEW d \in Calls, Ask(d) PROVE RowOf(c)'
  BY <1>0, <1>1 DEF Ask, CreatesClient, Answer
<1>2. ASSUME NEW d \in Calls, Enqueue(d) PROVE RowOf(c)'
  BY <1>0, <1>2 DEF Enqueue, Answer
<1>3. ASSUME NEW d \in Calls, JobAnswer(d) PROVE RowOf(c)'
  BY <1>0, <1>3 DEF JobAnswer, Answer
<1>4. ASSUME NEW d \in Calls, Timeout(d) \/ PingTimeout(d) \/ OwnAnswer(d) PROVE RowOf(c)'
  BY <1>0, <1>4 DEF Timeout, PingTimeout, OwnAnswer, Answer
<1>5. ASSUME NEW d \in Calls, Take(d) PROVE RowOf(c)'
  BY <1>0, <1>5 DEF Take
<1>6. ASSUME NEW d \in Calls, RecoverStalled(d) PROVE RowOf(c)'
  BY <1>0, <1>6 DEF RecoverStalled
<1>7. ASSUME NEW d \in Calls, LoadCredentials(d) PROVE RowOf(c)'
  BY <1>0, <1>7 DEF LoadCredentials, RefusesQuery, To, Returns
<1>8. ASSUME NEW d \in Calls, Connect(d) \/ Begin(d) PROVE RowOf(c)'
  BY <1>0, <1>8 DEF Connect, Begin, To, SessionUnchanged
<1>9. ASSUME NEW d \in Calls, SingleRead(d) \/ Close(d) PROVE RowOf(c)'
  BY <1>0, <1>9 DEF SingleRead, Close, To, Returns, SessionUnchanged
<1>10. ASSUME NEW d \in Calls, Query(d) PROVE RowOf(c)'
  <2>1. row' = [row EXCEPT ![d] = CASE QueryOf[d] = "write" -> "pending"
                                    [] QueryOf[d] = "chain" -> "kept"
                                    [] OTHER -> "none"]
        /\ stage[d] = "txn" /\ stage' = [stage EXCEPT ![d] = "ran"]
        /\ UNCHANGED job
    BY <1>10 DEF Query, To, SessionUnchanged
  <2>2. CASE c # d
    BY <1>0, <2>1, <2>2
  <2>3. CASE c = d
    <3>1. /\ row'[c] = "pending" => QueryOf[c] = "write"
          /\ row'[c] = "kept" => QueryOf[c] = "chain"
          /\ stage'[c] = "ran"
      BY <1>0, <2>1, <2>3
    <3>2. c \notin Tests => QueryOf[c] # "chain"
      BY <1>0, <2>1, <2>3 DEF Calls
    <3>3. c \in Tests => job[c] = "active"
      BY <1>0, <2>1, <2>3
    <3> QED
      BY <2>1, <3>1, <3>2, <3>3
  <2> QED
    BY <2>2, <2>3
<1>11. ASSUME NEW d \in Calls, EndTransaction(d) PROVE RowOf(c)'
  BY <1>0, <1>11 DEF EndTransaction, To, Returns, Rollback, SessionUnchanged
<1>12. ASSUME NEW d \in Calls, EndPreview(d) PROVE RowOf(c)'
  BY <1>0, <1>12 DEF EndPreview, To, Returns, Rollback, SessionUnchanged
<1>13. ASSUME NEW d \in Calls, SessionFails(d) PROVE RowOf(c)'
  BY <1>0, <1>13 DEF SessionFails, To, Returns, Rollback, SessionUnchanged
<1>14. ASSUME NEW d \in Calls, ActionTimesOut(d) PROVE RowOf(c)'
  BY <1>0, <1>14 DEF ActionTimesOut, To, Returns, ActUnchanged
<1>15. ASSUME NEW d \in Calls, ActionReturns(d) PROVE RowOf(c)'
  BY <1>0, <1>15 DEF ActionReturns, To, Returns, ActUnchanged
<1>16. ASSUME NEW d \in Calls, ActionThrows(d) PROVE RowOf(c)'
  BY <1>0, <1>16 DEF ActionThrows, To, Returns, ActUnchanged
<1>17. ASSUME NEW d \in Calls, Complete(d) PROVE RowOf(c)'
  BY <1>0, <1>17 DEF Complete
<1>18. ASSUME NEW d \in Calls, Send(d) \/ TakeEffect(d) PROVE RowOf(c)'
  BY <1>0, <1>18 DEF Send, TakeEffect, ActUnchanged
<1>19. CASE WorkerCrash
  BY <1>0, <1>19 DEF WorkerCrash
<1>20. CASE RemoveConnection
  BY <1>0, <1>20 DEF RemoveConnection
<1>21. CASE UNCHANGED vars
  BY <1>0, <1>21 DEF vars
<1> QED
  BY <1>1, <1>2, <1>3, <1>4, <1>5, <1>6, <1>7, <1>8, <1>9, <1>10, <1>11, <1>12, <1>13, <1>14, <1>15, <1>16, <1>17, <1>18, <1>19, <1>20, <1>21
     DEF Next, ApiStep, SessionStep, WorkerStep

\* Effects are counted by deliveries.
LEMMA EffectStep ==
  ASSUME IInv, [Next]_vars, NEW c \in Tests
  PROVE  EffectOf(c)'
<1> USE Kinds DEF TypeOK, TestRuns, EffectOf, UsesSql
<1>0. TypeOK /\ TestRuns(c) /\ EffectOf(c)
  BY DEF IInv, RunInv, EffectInv
<1>1. ASSUME NEW d \in Calls, Ask(d) PROVE EffectOf(c)'
  BY <1>0, <1>1 DEF Ask, CreatesClient, Answer
<1>2. ASSUME NEW d \in Calls, Enqueue(d) PROVE EffectOf(c)'
  BY <1>0, <1>2 DEF Enqueue, Answer
<1>3. ASSUME NEW d \in Calls, JobAnswer(d) PROVE EffectOf(c)'
  BY <1>0, <1>3 DEF JobAnswer, Answer
<1>4. ASSUME NEW d \in Calls, Timeout(d) \/ PingTimeout(d) \/ OwnAnswer(d) PROVE EffectOf(c)'
  BY <1>0, <1>4 DEF Timeout, PingTimeout, OwnAnswer, Answer
<1>5. ASSUME NEW d \in Calls, Take(d) PROVE EffectOf(c)'
  BY <1>0, <1>5 DEF Take
<1>6. ASSUME NEW d \in Calls, RecoverStalled(d) PROVE EffectOf(c)'
  BY <1>0, <1>6 DEF RecoverStalled
<1>7. ASSUME NEW d \in Calls, LoadCredentials(d) PROVE EffectOf(c)'
  BY <1>0, <1>7 DEF LoadCredentials, RefusesQuery, To, Returns
<1>8. ASSUME NEW d \in Calls, Connect(d) \/ Begin(d) PROVE EffectOf(c)'
  BY <1>0, <1>8 DEF Connect, Begin, To, SessionUnchanged
<1>9. ASSUME NEW d \in Calls, SingleRead(d) \/ Close(d) PROVE EffectOf(c)'
  BY <1>0, <1>9 DEF SingleRead, Close, To, Returns, SessionUnchanged
<1>10. ASSUME NEW d \in Calls, Query(d) PROVE EffectOf(c)'
  BY <1>0, <1>10 DEF Query, To, SessionUnchanged
<1>11. ASSUME NEW d \in Calls, EndTransaction(d) PROVE EffectOf(c)'
  BY <1>0, <1>11 DEF EndTransaction, To, Returns, Rollback, SessionUnchanged
<1>12. ASSUME NEW d \in Calls, EndPreview(d) PROVE EffectOf(c)'
  BY <1>0, <1>12 DEF EndPreview, To, Returns, Rollback, SessionUnchanged
<1>13. ASSUME NEW d \in Calls, SessionFails(d) PROVE EffectOf(c)'
  BY <1>0, <1>13 DEF SessionFails, To, Returns, Rollback, SessionUnchanged
<1>14. ASSUME NEW d \in Calls, ActionTimesOut(d) PROVE EffectOf(c)'
  BY <1>0, <1>14 DEF ActionTimesOut, To, Returns, ActUnchanged
<1>15. ASSUME NEW d \in Calls, ActionReturns(d) PROVE EffectOf(c)'
  BY <1>0, <1>15 DEF ActionReturns, To, Returns, ActUnchanged
<1>16. ASSUME NEW d \in Calls, ActionThrows(d) PROVE EffectOf(c)'
  BY <1>0, <1>16 DEF ActionThrows, To, Returns, ActUnchanged
<1>17. ASSUME NEW d \in Calls, Complete(d) PROVE EffectOf(c)'
  BY <1>0, <1>17 DEF Complete
<1>18. ASSUME NEW d \in Calls, Send(d) \/ TakeEffect(d) PROVE EffectOf(c)'
  BY <1>0, <1>18 DEF Send, TakeEffect, ActUnchanged
<1>19. CASE WorkerCrash
  BY <1>0, <1>19 DEF WorkerCrash
<1>20. CASE RemoveConnection
  BY <1>0, <1>20 DEF RemoveConnection
<1>21. CASE UNCHANGED vars
  BY <1>0, <1>21 DEF vars
<1> QED
  BY <1>1, <1>2, <1>3, <1>4, <1>5, <1>6, <1>7, <1>8, <1>9, <1>10, <1>11, <1>12, <1>13, <1>14, <1>15, <1>16, <1>17, <1>18, <1>19, <1>20, <1>21
     DEF Next, ApiStep, SessionStep, WorkerStep

-----------------------------------------------------------------------------
(* The theorems.                                                           *)

\* The slot, the rows and the effects of tests and previews are what their
\* stage and the state of their job tell, whatever dies or fails.
THEOREM Invariance == Spec => []IInv
<1>1. IInv /\ [Next]_vars => IInv'
  BY TypeStep, TestStep, PreviewStep, RowStep, EffectStep
     DEF IInv, RunInv, RowInv, EffectInv
<1> QED
  BY <1>1, InitInv, PTL DEF Spec

\* NothingIsLeft: a preview or a test leaves no row but for a chain of
\* statements, and no session when it has ended (testMutation,
\* executeDbQueryTest).
THEOREM LeavesNothing == Spec => []NothingIsLeft
<1>1. IInv => NothingIsLeft
  BY Kinds DEF IInv, RunInv, RowInv, RowOf, TestRuns, PreviewRuns, NothingIsLeft, TypeOK, Answered, Answers
<1> QED
  BY <1>1, Invariance, PTL

\* AnswerToldTheEffect: SUCCESS means that the action has taken effect, at most
\* once for each time its job was taken (StepTestEngine.executeTest).
THEOREM AnswersTell == Spec => []AnswerToldTheEffect
<1>1. IInv => AnswerToldTheEffect
  BY Kinds DEF IInv, RunInv, RowInv, EffectInv, RowOf, TestRuns, EffectOf, AnswerToldTheEffect, TypeOK, UsesSql
<1> QED
  BY <1>1, Invariance, PTL

-----------------------------------------------------------------------------
(* Every call comes to its end, as far as its other side lets it.          *)

\* What the api, the queue, the worker and the other side do with a call.
OwnStep(c) ==
  \/ Ask(c) \/ ApiStep(c)
  \/ Take(c) \/ RecoverStalled(c) \/ WorkerStep(c)
  \/ SessionStep(c) \/ SessionFails(c)
  \/ Send(c) \/ TakeEffect(c) \/ ActionReturns(c) \/ ActionThrows(c)

AnswerRank(c) ==
  CASE answer[c] = "none"    -> 3
    [] answer[c] = "asked"   -> 2
    [] answer[c] = "waiting" -> 1
    [] OTHER                 -> 0

StallsLeft(c) == IF c \in Tests THEN MaxStalledCount + 1 - stalls[c] ELSE 0

JobRank(c) ==
  IF c \notin Tests THEN 0
  ELSE CASE job[c] = "none"    -> 3
         [] job[c] = "waiting" -> 2
         [] job[c] = "active"  -> 1
         [] OTHER              -> 0

\* A request that has not gone out yet is one step more.
StageRank(c) ==
  CASE stage[c] = "load"       -> 8
    [] stage[c] = "connecting" -> 7
    [] stage[c] = "open"       -> 6
    [] stage[c] = "txn"        -> 5
    [] stage[c] = "ran"        -> 4
    [] stage[c] = "acting"     -> IF attempt[c] = "none" THEN 4 ELSE 3
    [] stage[c] = "ending"     -> 2
    [] stage[c] = "over"       -> 1
    [] OTHER                   -> 0

PendingRank(c) == IF c \in Tests /\ attempt[c] = "out" THEN 1 ELSE 0

\* What is still to come for a call: its answer, the redeliveries and states of
\* its job, the stages of what serves it, and the effect of its request.
Rank(c) == <<AnswerRank(c), StallsLeft(c), JobRank(c), StageRank(c), PendingRank(c)>>

Ranks == [1..5 -> Nat]

\* Pairs of ranks, the first of which is the lower one.
Lower == LexProductOrdering(OpToRel(<, Nat), Nat, 5)

RankOK == \A c \in Calls : Rank(c) \in Ranks

LEMMA RankType == TypeOK => RankOK
<1> SUFFICES ASSUME TypeOK, NEW c \in Calls PROVE Rank(c) \in Ranks
  BY DEF RankOK
<1>1. StallsLeft(c) \in Nat
  BY Kinds DEF TypeOK, StallsLeft
<1>2. /\ AnswerRank(c) \in Nat /\ JobRank(c) \in Nat /\ StageRank(c) \in Nat
      /\ PendingRank(c) \in Nat
  BY DEF AnswerRank, JobRank, StageRank, PendingRank
<1> QED
  BY <1>1, <1>2 DEF Rank, Ranks

\* Ranks are compared by the first number that differs.
LEMMA FirstThatFalls ==
  ASSUME NEW a \in Ranks, NEW b \in Ranks, NEW n \in 1..5,
         a[n] < b[n], \A m \in 1..(n - 1) : a[m] = b[m]
  PROVE  <<a, b>> \in Lower
<1>1. <<a[n], b[n]>> \in OpToRel(<, Nat)
  BY DEF OpToRel, Ranks
<1> QED
  BY <1>1 DEF Lower, LexProductOrdering, Ranks

LEMMA RanksAreWellFounded == IsWellFoundedOn(Lower, Ranks)
<1>1. IsWellFoundedOn(OpToRel(<, Nat), Nat)
  BY NatLessThanWellFounded
<1> QED
  BY <1>1, WFLexProductOrdering DEF Lower, Ranks

\* The first number that differs, named.
LEMMA Falls ==
  ASSUME IInv, [Next]_vars, NEW c \in Calls,
         \/ AnswerRank(c)' < AnswerRank(c)
         \/ /\ answer'[c] = answer[c]
            /\ \/ c \in Tests /\ StallsLeft(c)' < StallsLeft(c)
               \/ /\ c \in Tests => stalls'[c] = stalls[c]
                  /\ \/ JobRank(c)' < JobRank(c)
                     \/ /\ c \in Tests => job'[c] = job[c]
                        /\ \/ StageRank(c)' < StageRank(c)
                           \/ /\ StageRank(c)' = StageRank(c)
                              /\ PendingRank(c)' < PendingRank(c)
  PROVE  <<Rank(c)', Rank(c)>> \in Lower
<1>1. TypeOK /\ TypeOK'
  BY TypeStep DEF IInv
<1>2. (TypeOK => RankOK)'
  BY RankType, PTL
<1>3. Rank(c) \in Ranks /\ Rank(c)' \in Ranks
  BY <1>1, <1>2, RankType DEF RankOK
<1>4. ASSUME NEW n \in 1..5, Rank(c)'[n] < Rank(c)[n],
             \A m \in 1..(n - 1) : Rank(c)'[m] = Rank(c)[m]
      PROVE  <<Rank(c)', Rank(c)>> \in Lower
  BY <1>3, <1>4, FirstThatFalls
<1>5. CASE AnswerRank(c)' < AnswerRank(c)
  <2>1. Rank(c)'[1] < Rank(c)[1]
    BY <1>5 DEF Rank
  <2> QED BY <1>4, <2>1
<1>6. CASE answer'[c] = answer[c] /\ StallsLeft(c)' < StallsLeft(c)
  <2>1. AnswerRank(c)' = AnswerRank(c)
    BY <1>6 DEF AnswerRank
  <2>2. Rank(c)'[2] < Rank(c)[2] /\ \A m \in 1..(2 - 1) : Rank(c)'[m] = Rank(c)[m]
    BY <1>6, <2>1 DEF Rank
  <2> QED BY <1>4, <2>2
<1>7. ASSUME answer'[c] = answer[c], c \in Tests => stalls'[c] = stalls[c]
      PROVE  AnswerRank(c)' = AnswerRank(c) /\ StallsLeft(c)' = StallsLeft(c)
  BY <1>7 DEF AnswerRank, StallsLeft
<1>8. CASE /\ answer'[c] = answer[c] /\ (c \in Tests => stalls'[c] = stalls[c])
           /\ JobRank(c)' < JobRank(c)
  <2>1. Rank(c)'[3] < Rank(c)[3] /\ \A m \in 1..(3 - 1) : Rank(c)'[m] = Rank(c)[m]
    BY <1>7, <1>8 DEF Rank
  <2> QED BY <1>4, <2>1
<1>9. ASSUME c \in Tests => job'[c] = job[c]
      PROVE  JobRank(c)' = JobRank(c)
  BY <1>9 DEF JobRank
<1>10. CASE /\ answer'[c] = answer[c] /\ (c \in Tests => stalls'[c] = stalls[c])
            /\ (c \in Tests => job'[c] = job[c]) /\ StageRank(c)' < StageRank(c)
  <2>1. Rank(c)'[4] < Rank(c)[4] /\ \A m \in 1..(4 - 1) : Rank(c)'[m] = Rank(c)[m]
    BY <1>7, <1>9, <1>10 DEF Rank
  <2> QED BY <1>4, <2>1
<1>11. CASE /\ answer'[c] = answer[c] /\ (c \in Tests => stalls'[c] = stalls[c])
            /\ (c \in Tests => job'[c] = job[c]) /\ StageRank(c)' = StageRank(c)
            /\ PendingRank(c)' < PendingRank(c)
  <2>1. Rank(c)'[5] < Rank(c)[5] /\ \A m \in 1..(5 - 1) : Rank(c)'[m] = Rank(c)[m]
    BY <1>7, <1>9, <1>11 DEF Rank
  <2> QED BY <1>4, <2>1
<1> QED
  BY <1>5, <1>6, <1>8, <1>10, <1>11

\* What is done with a call brings it nearer to its end,
LEMMA OwnStepFalls ==
  ASSUME IInv, NEW c \in Calls, OwnStep(c)
  PROVE  <<Rank(c)', Rank(c)>> \in Lower
<1> USE Kinds
<1>1. TypeOK /\ (c \in Tests => TestRuns(c)) /\ (c \notin Tests => PreviewRuns(c))
  BY DEF IInv, RunInv
<1>2. [Next]_vars
  BY DEF OwnStep, Next
<1>3. CASE Ask(c)
  <2>1. AnswerRank(c)' < AnswerRank(c)
    BY <1>1, <1>3 DEF TypeOK, Ask, Answer, AnswerRank
  <2> QED BY <1>2, <2>1, Falls
<1>4. CASE ApiStep(c)
  <2>1. ASSUME NEW a, Answer(c, a)
        PROVE  answer'[c] = a
    BY <1>1, <2>1 DEF TypeOK, Answer
  <2>2. CASE Enqueue(c)
    <3>1. answer[c] = "asked" /\ answer'[c] \in {"waiting", "error"}
      BY <2>1, <2>2 DEF Enqueue
    <3>2. AnswerRank(c)' < AnswerRank(c)
      BY ONLY <3>1 DEF AnswerRank
    <3> QED BY <1>2, <3>2, Falls
  <2>3. CASE JobAnswer(c) \/ OwnAnswer(c)
    <3>1. answer[c] = "waiting" /\ (answer'[c] = "FAILED" \/ answer'[c] = outcome[c])
      BY <1>1, <2>3 DEF TypeOK, JobAnswer, OwnAnswer, Answer
    <3>2. job[c] # "failed" \/ c \notin Tests => outcome[c] # "none"
      BY <1>1, <2>3 DEF JobAnswer, OwnAnswer, TestRuns, PreviewRuns
    <3>3. job[c] = "failed" /\ c \in Tests => answer'[c] = "FAILED"
      BY <1>1, <2>3 DEF TypeOK, JobAnswer, OwnAnswer, Answer
    <3>4. answer'[c] \in {"SUCCESS", "FAILED"}
      BY <1>1, <3>1, <3>2, <3>3 DEF TypeOK
    <3>5. AnswerRank(c)' < AnswerRank(c)
      BY ONLY <3>1, <3>4 DEF AnswerRank
    <3> QED BY <1>2, <3>5, Falls
  <2>4. CASE Timeout(c) \/ PingTimeout(c)
    <3>1. answer[c] = "waiting" /\ answer'[c] = "timed out"
      BY <2>1, <2>4 DEF Timeout, PingTimeout
    <3>2. AnswerRank(c) = 1 /\ AnswerRank(c)' = 0
      BY <3>1 DEF AnswerRank
    <3> QED BY <1>2, <3>2, Falls
  <2> QED BY <1>4, <2>2, <2>3, <2>4 DEF ApiStep
<1>5. CASE Take(c)
  <2>1. UNCHANGED <<answer, stalls>> /\ JobRank(c)' < JobRank(c)
    BY <1>1, <1>5 DEF TypeOK, Take, JobRank
  <2> QED BY <1>2, <2>1, Falls
<1>6. CASE RecoverStalled(c)
  <2>1. UNCHANGED answer /\ c \in Tests /\ StallsLeft(c)' < StallsLeft(c)
    BY <1>1, <1>6 DEF TypeOK, RecoverStalled, StallsLeft
  <2> QED BY <1>2, <2>1, Falls
<1>7. CASE Complete(c)
  <2>1. UNCHANGED <<answer, stalls>> /\ JobRank(c)' < JobRank(c)
    BY <1>1, <1>7 DEF TypeOK, Complete, TestRuns, JobRank
  <2> QED BY <1>2, <2>1, Falls
<1>8. ASSUME UNCHANGED <<answer, stalls, job>>, StageRank(c)' < StageRank(c)
      PROVE  <<Rank(c)', Rank(c)>> \in Lower
  BY <1>2, <1>8, Falls
<1>9. CASE LoadCredentials(c)
  <2>1. UNCHANGED <<answer, stalls, job>> /\ StageRank(c)' < StageRank(c)
    BY <1>1, <1>9 DEF TypeOK, LoadCredentials, To, StageRank
  <2> QED BY <1>8, <2>1
<1>10. CASE SessionStep(c) \/ SessionFails(c)
  <2>1. UNCHANGED <<answer, stalls, job>> /\ StageRank(c)' < StageRank(c)
    BY <1>1, <1>10 DEF TypeOK, SessionStep, SingleRead, Begin, Query, EndTransaction,
       EndPreview, Close, Connect, SessionFails, SessionUnchanged, To, StageRank
  <2> QED BY <1>8, <2>1
<1>11. CASE Send(c) \/ ActionTimesOut(c) \/ ActionReturns(c) \/ ActionThrows(c)
  <2>1. UNCHANGED <<answer, stalls, job>> /\ StageRank(c)' < StageRank(c)
    BY <1>1, <1>11 DEF TypeOK, Send, ActionTimesOut, ActionReturns, ActionThrows, ActUnchanged,
       To, StageRank
  <2> QED BY <1>8, <2>1
<1>12. CASE TakeEffect(c)
  <2>1. /\ UNCHANGED <<answer, stalls, job>> /\ StageRank(c)' = StageRank(c)
        /\ PendingRank(c)' < PendingRank(c)
    BY <1>1, <1>12 DEF TypeOK, TakeEffect, ActUnchanged, StageRank, PendingRank
  <2> QED BY <1>2, <2>1, Falls
<1> QED
  BY <1>3, <1>4, <1>5, <1>6, <1>7, <1>9, <1>10, <1>11, <1>12 DEF OwnStep, WorkerStep

\* and what is done with another leaves it where it is.
LEMMA OthersStay ==
  ASSUME IInv, NEW d \in Calls, NEW c \in Calls, d # c, OwnStep(c)
  PROVE  Rank(d)' = Rank(d)
<1> USE Kinds
<1>1. TypeOK /\ (d \notin Tests => stage[d] # "acting")
  BY DEF IInv, RunInv, PreviewRuns
<1>2. ASSUME answer'[d] = answer[d], stage'[d] = stage[d],
             d \in Tests => /\ stalls'[d] = stalls[d] /\ job'[d] = job[d]
                            /\ attempt'[d] = attempt[d]
      PROVE  Rank(d)' = Rank(d)
  <2>1. AnswerRank(d)' = AnswerRank(d)
    BY <1>2 DEF AnswerRank
  <2>2. StallsLeft(d)' = StallsLeft(d) /\ PendingRank(d)' = PendingRank(d)
    BY <1>2 DEF StallsLeft, PendingRank
  <2>3. JobRank(d)' = JobRank(d)
    BY <1>2 DEF JobRank
  <2>4. StageRank(d)' = StageRank(d)
    BY <1>1, <1>2 DEF StageRank
  <2> QED BY <2>1, <2>2, <2>3, <2>4 DEF Rank
<1>3. CASE Ask(c) \/ ApiStep(c)
  <2>1. ASSUME NEW a, Answer(c, a)
        PROVE  answer'[d] = answer[d]
    BY <1>1, <2>1 DEF TypeOK, Answer
  <2>2. CASE Ask(c)
    BY <1>1, <1>2, <2>1, <2>2 DEF TypeOK, Ask
  <2>3. CASE Enqueue(c)
    BY <1>1, <1>2, <2>1, <2>3 DEF TypeOK, Enqueue
  <2>4. CASE JobAnswer(c) \/ OwnAnswer(c) \/ Timeout(c) \/ PingTimeout(c)
    BY <1>2, <2>1, <2>4 DEF JobAnswer, OwnAnswer, Timeout, PingTimeout
  <2> QED BY <1>3, <2>2, <2>3, <2>4 DEF ApiStep
<1>4. CASE Take(c) \/ RecoverStalled(c) \/ Complete(c)
  BY <1>1, <1>2, <1>4 DEF TypeOK, Take, RecoverStalled, Complete
<1>5. CASE LoadCredentials(c) \/ SessionStep(c) \/ SessionFails(c)
  BY <1>1, <1>2, <1>5 DEF TypeOK, LoadCredentials, SessionStep, SingleRead, Begin, Query,
     EndTransaction, EndPreview, Close, Connect, SessionFails, SessionUnchanged, To
<1>6. CASE Send(c) \/ TakeEffect(c) \/ ActionTimesOut(c) \/ ActionReturns(c) \/ ActionThrows(c)
  BY <1>1, <1>2, <1>6 DEF TypeOK, Send, TakeEffect, ActionTimesOut, ActionReturns,
     ActionThrows, ActUnchanged, To
<1> QED
  BY <1>3, <1>4, <1>5, <1>6 DEF OwnStep, WorkerStep

\* The death of the worker takes no call back either.
LEMMA CrashFalls ==
  ASSUME IInv, WorkerCrash, NEW c \in Calls
  PROVE  <<Rank(c)', Rank(c)>> \in Lower \/ Rank(c)' = Rank(c)
<1> USE Kinds
<1>1. TypeOK /\ (c \in Tests => TestRuns(c)) /\ (c \notin Tests => stage[c] # "acting")
  BY DEF IInv, RunInv, PreviewRuns
<1>2. UNCHANGED <<answer, job, stalls>> /\ [Next]_vars
  BY DEF WorkerCrash, Next
<1>3. CASE c = slot /\ stage[c] # "idle"
  <2>1. StageRank(c)' < StageRank(c)
    BY <1>1, <1>3 DEF TypeOK, WorkerCrash, StageRank
  <2> QED BY <1>2, <2>1, Falls
<1>4. CASE c # slot \/ stage[c] = "idle"
  <2>1. stage'[c] = stage[c] /\ stage[c] # "acting"
    BY <1>1, <1>4 DEF WorkerCrash, TestRuns
  <2>2. StageRank(c)' = StageRank(c)
    BY <2>1 DEF StageRank
  <2>3. CASE PendingRank(c) = 1
    <3>1. PendingRank(c)' < PendingRank(c)
      BY <2>3 DEF WorkerCrash, PendingRank
    <3> QED BY <1>2, <2>2, <3>1, Falls
  <2>4. CASE PendingRank(c) # 1
    <3>1. PendingRank(c)' = PendingRank(c)
      BY <2>4 DEF WorkerCrash, PendingRank
    <3>2. /\ AnswerRank(c)' = AnswerRank(c) /\ StallsLeft(c)' = StallsLeft(c)
          /\ JobRank(c)' = JobRank(c)
      BY <1>2 DEF AnswerRank, StallsLeft, JobRank
    <3> QED BY <2>2, <3>1, <3>2 DEF Rank
  <2> QED BY <2>3, <2>4
<1> QED BY <1>3, <1>4

\* No step takes a call back.
LEMMA RankFalls ==
  ASSUME IInv, [Next]_vars, NEW c \in Calls
  PROVE  \/ <<Rank(c)', Rank(c)>> \in Lower
         \/ Rank(c)' = Rank(c) /\ ~ OwnStep(c)
<1>1. CASE OwnStep(c)
  BY <1>1, OwnStepFalls
<1>2. CASE ~ OwnStep(c) /\ \E d \in Calls : OwnStep(d)
  BY <1>2, OthersStay
<1>3. CASE WorkerCrash
  BY <1>1, <1>3, CrashFalls
<1>4. CASE RemoveConnection \/ UNCHANGED vars
  <2>1. UNCHANGED <<answer, stalls, job, stage, attempt>>
    BY <1>4 DEF RemoveConnection, vars
  <2>2. Rank(c)' = Rank(c)
    BY <2>1 DEF Rank, AnswerRank, StallsLeft, JobRank, StageRank, PendingRank
  <2> QED BY <1>1, <2>2
<1> QED
  BY <1>1, <1>2, <1>3, <1>4 DEF Next, OwnStep

\* Every step that is taken for a call, by the api, the queue, the worker or the
\* service it talks to, brings the call nearer to its end, and no step, not the
\* worker's death nor another call's, takes it back; since ranks do not fall for
\* ever, a step test, a preview and a connection test take finitely many steps.
\* What can keep a caller waiting is only a step that is never taken: a connect
\* that does not return, a job behind it in the one slot.
THEOREM CallsGoForward ==
  /\ IsWellFoundedOn(Lower, Ranks)
  /\ Spec => /\ []RankOK
             /\ [][\A c \in Calls : \/ <<Rank(c)', Rank(c)>> \in Lower
                                    \/ Rank(c)' = Rank(c) /\ ~ OwnStep(c)]_vars
<1>1. IInv /\ [Next]_vars =>
        [\A c \in Calls : \/ <<Rank(c)', Rank(c)>> \in Lower
                          \/ Rank(c)' = Rank(c) /\ ~ OwnStep(c)]_vars
  BY RankFalls
<1>2. IInv => RankOK
  BY RankType DEF IInv
<1>3. Spec => /\ []RankOK
              /\ [][\A c \in Calls : \/ <<Rank(c)', Rank(c)>> \in Lower
                                     \/ Rank(c)' = Rank(c) /\ ~ OwnStep(c)]_vars
  BY <1>1, <1>2, Invariance, PTL DEF Spec
<1> QED
  BY <1>3, RanksAreWellFounded
=============================================================================
