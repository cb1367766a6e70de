--------------------------- MODULE WorkflowProofs ---------------------------
(***************************************************************************)
(* Proofs about the two parts of a workflow's life that its executions     *)
(* meet.  DefinitionSnapshot, for any number of PUTs, deletions,           *)
(* executions, connections and definitions: a run is of one definition.    *)
(* AutoPause: queue, hands and rows agree for any number of workers and    *)
(* any threshold.  With one slot, as deployed, a pause by the worker is     *)
(* justified: what a transaction has counted is still a row of failures    *)
(* when it commits, because only deletions and newer executions come in    *)
(* between; and a row of failures that has been counted last has paused    *)
(* the workflow.                                                           *)
(***************************************************************************)
EXTENDS DefinitionSnapshot, AutoPause, FiniteSetTheorems, TLAPS

-----------------------------------------------------------------------------
(* DefinitionSnapshot: the inductive invariant.                            *)

\* What a run has copied was current when it was read.
CopyInv == \A x \in Runs : run[x].nodes <= version

SnapshotInv ==
  /\ TypeOK
  /\ ConnectionIsHeld
  /\ CopyInv
  /\ RunsOneDefinition
  /\ LostConnectionWasReplaced

-----------------------------------------------------------------------------

\* The workflow that was created meets the invariant.
LEMMA SnapshotBegins == Init => SnapshotInv
<1> SUFFICES ASSUME Init PROVE SnapshotInv
  OBVIOUS
<1>1. TypeOK
  BY SnapshotAssumption DEF Init, TypeOK, Versions
<1>2. ConnectionIsHeld
  BY SnapshotAssumption DEF Init, ConnectionIsHeld, Available, Versions
<1>3. CopyInv
  BY DEF Init, CopyInv
<1>4. RunsOneDefinition /\ LostConnectionWasReplaced
  BY DEF Init, RunsOneDefinition, LostConnectionWasReplaced
<1> QED
  BY <1>1, <1>2, <1>3, <1>4 DEF SnapshotInv

\* Steps that leave the definition and its copies alone keep what is said of
\* them.
LEMMA FrameInv ==
  ASSUME SnapshotInv, TypeOK', UNCHANGED <<version, uses, run>>, ConnectionIsHeld'
  PROVE  SnapshotInv'
<1>1. CopyInv' /\ RunsOneDefinition' /\ LostConnectionWasReplaced'
  BY DEF SnapshotInv, CopyInv, RunsOneDefinition, LostConnectionWasReplaced
<1> QED
  BY <1>1 DEF SnapshotInv

\* The handler of a PUT: the foreign key holds the connection of the
\* definition it commits.
LEMMA EditorInv ==
  ASSUME SnapshotInv, NEW e \in Editors,
         \/ \E c \in Connections \cup {NoConnection} : Check(e, c)
         \/ Commit(e)
         \/ CommitFails(e)
  PROVE  SnapshotInv'
<1> USE SnapshotAssumption
<1>1. CASE \E c \in Connections \cup {NoConnection} : Check(e, c)
  <2>1. TypeOK'
    BY <1>1 DEF SnapshotInv, TypeOK, Check
  <2>2. UNCHANGED <<version, uses, run, connections>>
    BY <1>1 DEF Check
  <2>3. ConnectionIsHeld'
    BY <2>2 DEF SnapshotInv, ConnectionIsHeld, Available
  <2> QED
    BY <2>1, <2>2, <2>3, FrameInv
<1>2. CASE CommitFails(e)
  <2>1. TypeOK'
    BY <1>2 DEF SnapshotInv, TypeOK, CommitFails
  <2>2. UNCHANGED <<version, uses, run, connections>>
    BY <1>2 DEF CommitFails
  <2>3. ConnectionIsHeld'
    BY <2>2 DEF SnapshotInv, ConnectionIsHeld, Available
  <2> QED
    BY <2>1, <2>2, <2>3, FrameInv
<1>3. CASE Commit(e)
  <2>1. version' \in Versions /\ version' = version + 1 /\ version \in Nat
    BY <1>3 DEF SnapshotInv, TypeOK, Versions, Commit
  <2>2. TypeOK'
    BY <1>3, <2>1 DEF SnapshotInv, TypeOK, Commit
  <2>3. ConnectionIsHeld'
    BY <1>3, <2>1 DEF SnapshotInv, TypeOK, ConnectionIsHeld, Available, Commit
  <2>4. \A x \in Runs : run'[x] = run[x] /\ run[x].nodes \in Nat
    BY <1>3 DEF Commit, SnapshotInv, TypeOK
  <2>5. CopyInv' /\ LostConnectionWasReplaced'
    BY <2>1, <2>4 DEF SnapshotInv, CopyInv, LostConnectionWasReplaced
  <2>6. RunsOneDefinition'
    BY <2>4 DEF SnapshotInv, RunsOneDefinition
  <2> QED
    BY <2>2, <2>3, <2>5, <2>6 DEF SnapshotInv
<1> QED
  BY <1>1, <1>2, <1>3

\* The handler that deletes a connection: the foreign key refuses the one in
\* use.
LEMMA RemoverInv ==
  ASSUME SnapshotInv, NEW d \in Removers, CountUsage(d) \/ Delete(d) \/ DeleteFails(d)
  PROVE  SnapshotInv'
<1>1. TypeOK'
  <2>1. CASE CountUsage(d)
    BY <2>1 DEF SnapshotInv, TypeOK, CountUsage
  <2>2. CASE Delete(d)
    BY <2>2 DEF SnapshotInv, TypeOK, Delete
  <2>3. CASE DeleteFails(d)
    BY <2>3 DEF SnapshotInv, TypeOK, DeleteFails
  <2> QED
    BY <2>1, <2>2, <2>3
<1>2. UNCHANGED <<version, uses, run>>
  BY DEF CountUsage, Delete, DeleteFails
<1>3. ConnectionIsHeld'
  <2>1. CASE Delete(d)
    BY <1>2, <2>1 DEF SnapshotInv, ConnectionIsHeld, Available, Used, Delete
  <2>2. CASE CountUsage(d) \/ DeleteFails(d)
    BY <1>2, <2>2
       DEF SnapshotInv, ConnectionIsHeld, Available, CountUsage, DeleteFails
  <2> QED
    BY <2>1, <2>2
<1> QED
  BY <1>1, <1>2, <1>3, FrameInv

\* One SELECT of a run.
LEMMA ReadInv ==
  ASSUME SnapshotInv, NEW x \in Runs,
         SelectWorkflow(x) \/ SelectNodes(x) \/ SelectEdges(x)
  PROVE  SnapshotInv'
<1>1. /\ version \in Nat
      /\ version \in 0..MaxVersion
      /\ run \in [Runs ->
           [pc : {"idle", "row", "nodes", "queued", "ran", "rejected",
                  "unconnected"},
            version : 0..MaxVersion, nodes : 0..MaxVersion,
            edges : 0..MaxVersion]]
  BY SnapshotAssumption DEF SnapshotInv, TypeOK, Versions
<1>2. UNCHANGED <<version, uses, connections, editor, remover>>
  BY DEF SelectWorkflow, SelectNodes, SelectEdges, Read
<1>3. /\ run'[x].pc \in {"row", "nodes", "queued"}
      /\ run'[x].nodes \in {run[x].nodes, version}
      /\ \A y \in Runs : y # x => run'[y] = run[y]
  BY <1>1 DEF SelectWorkflow, SelectNodes, SelectEdges, Read
<1>4. run' \in [Runs ->
           [pc : {"idle", "row", "nodes", "queued", "ran", "rejected",
                  "unconnected"},
            version : 0..MaxVersion, nodes : 0..MaxVersion,
            edges : 0..MaxVersion]]
  <2>1. CASE SelectWorkflow(x)
    BY <1>1, <2>1 DEF SelectWorkflow, Read
  <2>2. CASE SelectNodes(x)
    BY <1>1, <2>2 DEF SelectNodes, Read
  <2>3. CASE SelectEdges(x)
    BY <1>1, <2>3 DEF SelectEdges, Read
  <2> QED
    BY <2>1, <2>2, <2>3
<1>5. TypeOK'
  BY <1>2, <1>4 DEF SnapshotInv, TypeOK
<1>6. ConnectionIsHeld'
  BY <1>2 DEF SnapshotInv, ConnectionIsHeld, Available
<1>7. CopyInv'
  BY <1>1, <1>2, <1>3 DEF SnapshotInv, CopyInv
<1>8. RunsOneDefinition' /\ LostConnectionWasReplaced'
  BY <1>2, <1>3 DEF SnapshotInv, RunsOneDefinition, LostConnectionWasReplaced
<1> QED
  BY <1>5, <1>6, <1>7, <1>8 DEF SnapshotInv

\* The worker resolves the copy and looks its connection up: a connection that
\* is missing is not the one of the current definition.
LEMMA ExecuteInv ==
  ASSUME SnapshotInv, NEW x \in Runs, Execute(x)
  PROVE  SnapshotInv'
<1>1. UNCHANGED <<version, uses, connections, editor, remover>>
  BY DEF Execute
<1>2. /\ run'[x].pc \in {"ran", "rejected", "unconnected"}
      /\ run'[x].nodes = run[x].nodes
      /\ run'[x].edges = run[x].edges
      /\ \A y \in Runs : y # x => run'[y] = run[y]
      /\ run'[x].pc # "rejected" => run[x].nodes = run[x].edges
      /\ run'[x].pc = "unconnected" => ~ Available(uses[run[x].nodes])
  BY DEF SnapshotInv, TypeOK, Execute, Resolves, Connected, NodeIds
<1>3. TypeOK'
  BY DEF SnapshotInv, TypeOK, Execute
<1>4. ConnectionIsHeld'
  BY <1>1 DEF SnapshotInv, ConnectionIsHeld, Available
<1>5. CopyInv'
  BY <1>1, <1>2 DEF SnapshotInv, CopyInv
<1>6. RunsOneDefinition'
  BY <1>1, <1>2 DEF SnapshotInv, RunsOneDefinition
<1>7. LostConnectionWasReplaced'
  <2>1. version \in Nat /\ run[x].nodes \in Nat /\ run[x].nodes <= version
    BY SnapshotAssumption DEF SnapshotInv, TypeOK, CopyInv, Versions
  <2>2. run'[x].pc = "unconnected" => run[x].nodes # version
    BY <1>2 DEF SnapshotInv, ConnectionIsHeld
  <2> QED
    BY <1>1, <1>2, <2>1, <2>2 DEF SnapshotInv, LostConnectionWasReplaced
<1> QED
  BY <1>3, <1>4, <1>5, <1>6, <1>7 DEF SnapshotInv

\* Every step keeps the invariant.
LEMMA SnapshotStep == SnapshotInv /\ [Next]_vars => SnapshotInv'
<1> SUFFICES ASSUME SnapshotInv, [Next]_vars PROVE SnapshotInv'
  OBVIOUS
<1>1. CASE \E e \in Editors :
             \/ \E c \in Connections \cup {NoConnection} : Check(e, c)
             \/ Commit(e)
             \/ CommitFails(e)
  BY <1>1, EditorInv
<1>2. CASE \E d \in Removers : CountUsage(d) \/ Delete(d) \/ DeleteFails(d)
  BY <1>2, RemoverInv
<1>3. CASE \E x \in Runs :
             SelectWorkflow(x) \/ SelectNodes(x) \/ SelectEdges(x)
  BY <1>3, ReadInv
<1>4. CASE \E x \in Runs : Execute(x)
  BY <1>4, ExecuteInv
<1>5. CASE UNCHANGED vars
  <2>1. UNCHANGED <<version, uses, connections, editor, remover, run>>
    BY <1>5 DEF vars
  <2>2. TypeOK' /\ ConnectionIsHeld'
    BY <2>1 DEF SnapshotInv, TypeOK, ConnectionIsHeld, Available
  <2> QED
    BY <2>1, <2>2, FrameInv
<1> QED
  BY <1>1, <1>2, <1>3, <1>4, <1>5 DEF Next

\* The inductive invariant holds in every reachable state.
THEOREM SnapshotInvariance == Spec => []SnapshotInv
  BY SnapshotBegins, SnapshotStep, PTL DEF Spec

\* Type correctness of the definition, its copies and the handlers.
THEOREM SnapshotTypeCorrect == Spec => []TypeOK
<1>1. SnapshotInv => TypeOK
  BY DEF SnapshotInv
<1> QED
  BY <1>1, SnapshotInvariance, PTL

\* No run executes a mixture of two definitions, whatever PUTs commit between
\* the SELECTs of its snapshot (assignServerNodeIds, ChainResolver.resolve).
THEOREM OneDefinition == Spec => []RunsOneDefinition
<1>1. SnapshotInv => RunsOneDefinition
  BY DEF SnapshotInv
<1> QED
  BY <1>1, SnapshotInvariance, PTL

\* A run misses its connection only when the definition it copied has been
\* replaced (the foreign key of WorkflowNode.connectionId, loadCredentials).
THEOREM LostWasReplaced == Spec => []LostConnectionWasReplaced
<1>1. SnapshotInv => LostConnectionWasReplaced
  BY DEF SnapshotInv
<1> QED
  BY <1>1, SnapshotInvariance, PTL

\* The connection of the current definition exists, although both checks are
\* made before the writes they guard.
THEOREM Held == Spec => []ConnectionIsHeld
<1>1. SnapshotInv => ConnectionIsHeld
  BY DEF SnapshotInv
<1> QED
  BY <1>1, SnapshotInvariance, PTL

-----------------------------------------------------------------------------
(* AutoPause: the inductive invariant.                                     *)

\* A row exists once it is created; a job is of one that was created.
QueueInv ==
  /\ \A e \in Ids : execution[e] = "none" <=> created < e
  /\ waiting \subseteq enqueued
  /\ \A e \in enqueued : e <= created

\* What a worker has in hand does not wait, is nobody else's, and is locked
\* while a transaction of the worker is open.
HandInv ==
  /\ \A w \in Workers : pc[w] = "idle" <=> at[w] = 0
  /\ \A w \in Workers : at[w] # 0 => at[w] \in enqueued /\ at[w] \notin waiting
  /\ \A v, w \in Workers : at[v] = at[w] /\ at[v] # 0 => v = w
  /\ \A w \in Workers :
       pc[w] \in {"failing", "counted"} => Exists(execution, at[w])

\* A count is a worker's while its transaction is open; only the outer catch
\* block updates again.
CountInv ==
  \A w \in Workers : /\ streak[w] => pc[w] = "counted"
                     /\ outer[w] => pc[w] # "idle"

PauseInv == PauseTypeOK /\ QueueInv /\ HandInv /\ CountInv

\* The rows as the transaction of a worker sees them.
Seen(w) == [execution EXCEPT ![at[w]] = "FAILED"]

\* What the one slot has counted are failures in a row.
Counted(w) == streak[w] => \E row \in SUBSET Ids : FailedInRow(Seen(w), row)

-----------------------------------------------------------------------------
(* Sets of executions.                                                     *)

\* Sets of executions are finite.
LEMMA IdsFinite == ASSUME NEW S \in SUBSET Ids
                   PROVE  IsFiniteSet(S) /\ Cardinality(S) \in Nat
<1>1. IsFiniteSet(Ids)
  BY AutoPauseAssumption, FS_Interval DEF Ids
<1> QED
  BY <1>1, FS_Subset, FS_CardinalityType

\* The window that is read, if it holds failures only, is a row of them.
LEMMA WindowIsRow ==
  ASSUME NEW rows, AllFailed(rows)
  PROVE  FailedInRow(rows, Latest(rows))
<1> USE AutoPauseAssumption
<1>1. ASSUME NEW e \in Ids, NEW f \in Latest(rows), f <= e, Exists(rows, e)
      PROVE  e \in Latest(rows)
  <2>1. f \in Ids /\ Cardinality(Newer(rows, f)) < Threshold
    BY <1>1 DEF Latest
  <2>2. Newer(rows, e) \subseteq Newer(rows, f)
    BY <1>1, <2>1 DEF Newer, Ids
  <2>3. /\ IsFiniteSet(Newer(rows, f)) /\ Cardinality(Newer(rows, f)) \in Nat
        /\ Cardinality(Newer(rows, e)) \in Nat
    BY IdsFinite DEF Newer
  <2>4. Cardinality(Newer(rows, e)) <= Cardinality(Newer(rows, f))
    BY <2>2, <2>3, FS_Subset
  <2> QED
    BY <1>1, <2>1, <2>3, <2>4 DEF Latest
<1> QED
  BY <1>1 DEF AllFailed, FailedInRow

\* Failures in a row stay so when others are deleted or created later.
LEMMA RowStays ==
  ASSUME NEW rows, NEW later, NEW row \in SUBSET Ids, FailedInRow(rows, row),
         \A e \in Ids : rows[e] \in {"FAILED", "withdrawn"}
                          => later[e] \in {"FAILED", "withdrawn"},
         \A e \in Ids : Exists(later, e) =>
                          Exists(rows, e) \/ \A f \in row : f < e
  PROVE  FailedInRow(later, row)
<1>1. \A e \in row : later[e] \in {"FAILED", "withdrawn"}
  BY DEF FailedInRow
<1>2. ASSUME NEW e \in Ids, NEW f \in row, NEW g \in row, f <= e, e <= g,
             Exists(later, e)
      PROVE  e \in row
  <2>1. ~ (g < e)
    BY <1>2 DEF Ids
  <2> QED
    BY <1>2, <2>1 DEF FailedInRow
<1> QED
  BY <1>1, <1>2 DEF FailedInRow

\* Rows that exist alike and are FAILED there only if they are here: failures
\* only there are failures only here.
LEMMA FewerFailures ==
  ASSUME NEW rows, NEW then, AllFailed(then),
         \A e \in Ids : /\ Exists(rows, e) <=> Exists(then, e)
                        /\ then[e] = "FAILED" => rows[e] = "FAILED"
  PROVE  AllFailed(rows)
<1>1. \A e \in Ids : Newer(rows, e) = Newer(then, e)
  BY DEF Newer
<1>2. Latest(rows) = Latest(then)
  BY <1>1 DEF Latest
<1>3. \A e \in Latest(rows) : e \in Ids /\ then[e] = "FAILED"
  BY <1>2 DEF AllFailed, Latest
<1>4. Cardinality(Latest(rows)) = Threshold
  BY <1>2 DEF AllFailed
<1> QED
  BY <1>3, <1>4 DEF AllFailed

\* The newest execution is always among those that are read.
LEMMA NewestIsRead ==
  ASSUME NEW rows, NEW e \in Ids, Exists(rows, e), rows[e] # "FAILED",
         \A f \in Ids : f > e => ~ Exists(rows, f)
  PROVE  ~ AllFailed(rows)
<1>1. Newer(rows, e) = {}
  BY DEF Newer
<1>2. Cardinality(Newer(rows, e)) = 0
  BY <1>1, FS_EmptySet
<1>3. e \in Latest(rows)
  BY <1>2, AutoPauseAssumption DEF Latest
<1> QED
  BY <1>3 DEF AllFailed

-----------------------------------------------------------------------------
(* The invariant is kept.                                                  *)

\* Before the first execution nothing is queued, in hand or counted.
LEMMA PauseBegins == PauseInit => PauseInv
<1> SUFFICES ASSUME PauseInit PROVE PauseInv
  OBVIOUS
<1> USE AutoPauseAssumption
<1>1. PauseTypeOK
  <2>1. created \in 0..MaxExecutions
        /\ activations \in 0..MaxActivations /\ faults \in 0..MaxFaults
    BY DEF PauseInit
  <2>2. execution \in [Ids -> {"none", "deleted", "withdrawn"} \cup Statuses]
    BY DEF PauseInit
  <2>3. /\ at \in [Workers -> Ids \cup {0}]
        /\ pc \in [Workers -> {"idle", "running", "erred", "failing", "counted", "done"}]
    BY DEF PauseInit
  <2>4. streak \in [Workers -> BOOLEAN] /\ outer \in [Workers -> BOOLEAN]
    BY DEF PauseInit
  <2> QED
    BY <2>1, <2>2, <2>3, <2>4 DEF PauseInit, PauseTypeOK
<1>2. QueueInv
  BY DEF PauseInit, QueueInv, Ids
<1>3. HandInv /\ CountInv
  BY DEF PauseInit, HandInv, CountInv
<1> QED
  BY <1>1, <1>2, <1>3 DEF PauseInv

\* Where a worker goes is a place.
LEMMA MoveType ==
  ASSUME PauseTypeOK, NEW w \in Workers,
         \/ Idle(w)
         \/ Errs(w)
         \/ \E place \in {"running", "erred", "failing", "counted", "done"} : Goto(w, place)
  PROVE  /\ at' \in [Workers -> Ids \cup {0}]
         /\ pc' \in [Workers -> {"idle", "running", "erred", "failing", "counted", "done"}]
  BY DEF PauseTypeOK, Idle, Errs, Goto

\* So is what the transaction says, and who called it.
LEMMA FlagType ==
  ASSUME PauseTypeOK, NEW w \in Workers, Idle(w) \/ Errs(w)
  PROVE  outer' \in [Workers -> BOOLEAN] /\ streak' \in [Workers -> BOOLEAN]
  BY DEF PauseTypeOK, Idle, Errs, Goto

\* Faults are counted.
LEMMA FaultType == ASSUME PauseTypeOK, Fault \/ UNCHANGED faults PROVE faults' \in 0..MaxFaults
  BY AutoPauseAssumption DEF PauseTypeOK, Fault

\* Type correctness of a step.
LEMMA TypeStep == PauseInv /\ [PauseNext]_pauseVars => PauseTypeOK'
<1> SUFFICES ASSUME PauseInv, [PauseNext]_pauseVars PROVE PauseTypeOK'
  OBVIOUS
<1> USE AutoPauseAssumption
    DEF PauseInv, PauseTypeOK, Statuses, Ids, rowVars, jobVars, workerVars, pauseVars
<1>1. CASE Create
  BY <1>1 DEF Create
<1>2. ASSUME NEW e \in Ids, Enqueue(e) PROVE PauseTypeOK'
  BY <1>2 DEF Enqueue
<1>3. ASSUME NEW e \in Ids, Withdraw(e) PROVE PauseTypeOK'
  BY <1>3 DEF Withdraw, Fault
<1>4. ASSUME NEW w \in Workers, Take(w) PROVE PauseTypeOK'
  BY <1>4 DEF Take
<1>5. ASSUME NEW w \in Workers, Succeed(w) PROVE PauseTypeOK'
  <2>1. /\ at' \in [Workers -> Ids \cup {0}]
        /\ pc' \in [Workers -> {"idle", "running", "erred", "failing", "counted", "done"}]
    BY <1>5, MoveType DEF Succeed
  <2>2. outer' \in [Workers -> BOOLEAN] /\ faults' \in 0..MaxFaults
    <3>1. outer' = outer \/ outer' = [outer EXCEPT ![w] = TRUE]
      BY <1>5 DEF Succeed
    <3>2. Fault \/ UNCHANGED faults
      BY <1>5 DEF Succeed
    <3> QED
      BY <3>1, <3>2, FaultType
  <2>3. execution' \in [Ids -> {"none", "deleted", "withdrawn"} \cup Statuses]
    BY <1>5 DEF Succeed
  <2>4. UNCHANGED <<workflow, created, jobVars, streak, excused, activations>>
    BY <1>5 DEF Succeed
  <2> QED
    BY <2>1, <2>2, <2>3, <2>4
<1>6. ASSUME NEW w \in Workers, Fail(w) PROVE PauseTypeOK'
  BY <1>6 DEF Fail, Goto
<1>7. ASSUME NEW w \in Workers, Count(w) PROVE PauseTypeOK'
  <2>1. AllFailed([execution EXCEPT ![at[w]] = "FAILED"]) \in BOOLEAN
    BY DEF AllFailed
  <2> QED
    BY <1>7, <2>1 DEF Count, Goto
<1>8. ASSUME NEW w \in Workers, CommitFailure(w) PROVE PauseTypeOK'
  <2>1. /\ at' \in [Workers -> Ids \cup {0}]
        /\ pc' \in [Workers -> {"idle", "running", "erred", "failing", "counted", "done"}]
    BY <1>8, MoveType DEF CommitFailure
  <2>2. outer' \in [Workers -> BOOLEAN] /\ streak' \in [Workers -> BOOLEAN]
    BY <1>8, FlagType DEF CommitFailure
  <2>3. faults' \in 0..MaxFaults /\ workflow' \in {"ACTIVE", "PAUSED"}
        /\ execution' \in [Ids -> {"none", "deleted", "withdrawn"} \cup Statuses]
    <3>1. UNCHANGED faults \/ Fault
      BY <1>8 DEF CommitFailure
    <3>2. execution' = [execution EXCEPT ![at[w]] = "FAILED"]
          /\ workflow' = IF streak[w] THEN "PAUSED" ELSE workflow
      BY <1>8 DEF CommitFailure
    <3> QED
      BY <3>1, <3>2, FaultType
  <2>4. UNCHANGED <<created, jobVars, excused, activations>>
    BY <1>8 DEF CommitFailure
  <2> QED
    BY <2>1, <2>2, <2>3, <2>4
<1>9. ASSUME NEW w \in Workers, RollBack(w) PROVE PauseTypeOK'
  BY <1>9, MoveType, FlagType DEF RollBack, Fault
<1>10. ASSUME NEW w \in Workers, RowGone(w) \/ Acknowledge(w) PROVE PauseTypeOK'
  BY <1>10, MoveType, FlagType DEF RowGone, Acknowledge
<1>11. ASSUME NEW w \in Workers, Crash(w) PROVE PauseTypeOK'
  <2>1. at[w] \in Ids
    BY <1>11 DEF Crash, HandInv
  <2>2. /\ at' \in [Workers -> Ids \cup {0}]
        /\ pc' \in [Workers -> {"idle", "running", "erred", "failing", "counted", "done"}]
        /\ outer' \in [Workers -> BOOLEAN] /\ streak' \in [Workers -> BOOLEAN]
    BY <1>11, MoveType, FlagType DEF Crash
  <2>3. /\ redelivered' \in SUBSET Ids
        /\ waiting' \in SUBSET Ids
        /\ faults' \in 0..MaxFaults
        /\ excused' \in BOOLEAN
    <3>1. /\ redelivered' = redelivered \cup {at[w]}
          /\ waiting' = waiting \cup ({at[w]} \ redelivered)
          /\ excused' = (excused \/ pc[w] = "counted")
          /\ Fault
      BY <1>11 DEF Crash
    <3>2. excused' \in BOOLEAN
      BY <3>1, Zenon
    <3> QED
      BY <2>1, <3>1, <3>2, FaultType
  <2>4. UNCHANGED <<workflow, rowVars, enqueued, activations>>
    BY <1>11 DEF Crash
  <2> QED
    BY <2>2, <2>3, <2>4
<1>12. CASE Activate
  BY <1>12 DEF Activate
<1>13. CASE Pause
  BY <1>13 DEF Pause
<1>14. CASE UNCHANGED pauseVars
  BY <1>14
<1> QED
  BY <1>1, <1>2, <1>3, <1>4, <1>5, <1>6, <1>7, <1>8, <1>9, <1>10, <1>11, <1>12, <1>13, <1>14
     DEF PauseNext, WorkerStep

\* What waits is not in hand, nor the other way round; rows in a transaction
\* stay.
LEMMA HandStep == PauseInv /\ [PauseNext]_pauseVars => QueueInv' /\ HandInv' /\ CountInv'
<1> SUFFICES ASSUME PauseInv, [PauseNext]_pauseVars PROVE QueueInv' /\ HandInv' /\ CountInv'
  OBVIOUS
<1> USE AutoPauseAssumption DEF rowVars, jobVars, workerVars, pauseVars, Exists, Statuses
<1>0. /\ QueueInv /\ HandInv /\ CountInv
      /\ created \in Nat /\ \A e \in Ids : e \in Nat /\ e # 0
      /\ execution \in [Ids -> {"none", "deleted", "withdrawn"} \cup Statuses]
      /\ enqueued \subseteq Ids /\ waiting \subseteq Ids
      /\ at \in [Workers -> Ids \cup {0}]
      /\ pc \in [Workers -> {"idle", "running", "erred", "failing", "counted", "done"}]
      /\ outer \in [Workers -> BOOLEAN] /\ streak \in [Workers -> BOOLEAN]
  BY DEF PauseInv, PauseTypeOK, Ids
<1>1. CASE Create
  <2>1. created + 1 \in Ids
    BY <1>0, <1>1 DEF Create, Ids, PauseInv, PauseTypeOK
  <2> QED
    BY <1>0, <1>1, <2>1 DEF Create, QueueInv, HandInv, CountInv
<1>2. ASSUME NEW e \in Ids, Enqueue(e) PROVE QueueInv' /\ HandInv' /\ CountInv'
  BY <1>0, <1>2 DEF Enqueue, QueueInv, HandInv, CountInv
<1>3. ASSUME NEW e \in Ids, Withdraw(e) PROVE QueueInv' /\ HandInv' /\ CountInv'
  BY <1>0, <1>3 DEF Withdraw, Locked, QueueInv, HandInv, CountInv
<1>4. ASSUME NEW w \in Workers, Take(w) PROVE QueueInv' /\ HandInv' /\ CountInv'
  <2>1. PICK e \in waiting :
          /\ waiting' = waiting \ {e}
          /\ IF Exists(execution, e)
               THEN /\ at' = [at EXCEPT ![w] = e]
                    /\ pc' = [pc EXCEPT ![w] = "running"]
                    /\ execution' = [execution EXCEPT ![e] = "RUNNING"]
               ELSE UNCHANGED <<at, pc, execution>>
    BY <1>4 DEF Take
  <2>2. pc[w] = "idle" /\ at[w] = 0 /\ UNCHANGED <<created, enqueued, outer, streak>>
        /\ ~ outer[w] /\ ~ streak[w]
    BY <1>0, <1>4 DEF Take, HandInv, CountInv
  <2>3. e \in Ids /\ e \in enqueued /\ \A v \in Workers : at[v] # e
    BY <1>0, <2>1 DEF QueueInv, HandInv
  <2>4. CASE Exists(execution, e)
    BY <1>0, <2>1, <2>2, <2>3, <2>4 DEF QueueInv, HandInv, CountInv
  <2>5. CASE ~ Exists(execution, e)
    BY <1>0, <2>1, <2>2, <2>3, <2>5 DEF QueueInv, HandInv, CountInv
  <2> QED
    BY <2>4, <2>5
<1>5. ASSUME NEW w \in Workers, Succeed(w) PROVE QueueInv' /\ HandInv' /\ CountInv'
  BY <1>0, <1>5 DEF Succeed, Goto, QueueInv, HandInv, CountInv
<1>6. ASSUME NEW w \in Workers, Fail(w) PROVE QueueInv' /\ HandInv' /\ CountInv'
  BY <1>0, <1>6 DEF Fail, Goto, QueueInv, HandInv, CountInv
<1>7. ASSUME NEW w \in Workers, Count(w) PROVE QueueInv' /\ HandInv' /\ CountInv'
  BY <1>0, <1>7 DEF Count, Goto, QueueInv, HandInv, CountInv
<1>8. ASSUME NEW w \in Workers, CommitFailure(w) PROVE QueueInv' /\ HandInv' /\ CountInv'
  <2>1. \/ Goto(w, "done") /\ streak' = [streak EXCEPT ![w] = FALSE] /\ UNCHANGED outer
        \/ Errs(w)
    BY <1>8 DEF CommitFailure
  <2>2. at[w] \in Ids /\ Exists(execution, at[w]) /\ pc[w] = "counted"
        /\ execution' = [execution EXCEPT ![at[w]] = "FAILED"]
        /\ UNCHANGED <<created, enqueued, waiting>>
    BY <1>0, <1>8 DEF CommitFailure, HandInv
  <2> QED
    BY <1>0, <2>1, <2>2 DEF Errs, Idle, Goto, QueueInv, HandInv, CountInv
<1>9. ASSUME NEW w \in Workers, RollBack(w) PROVE QueueInv' /\ HandInv' /\ CountInv'
  BY <1>0, <1>9 DEF RollBack, Errs, Idle, Goto, QueueInv, HandInv, CountInv
<1>10. ASSUME NEW w \in Workers, RowGone(w) \/ Acknowledge(w)
       PROVE  QueueInv' /\ HandInv' /\ CountInv'
  BY <1>0, <1>10 DEF RowGone, Acknowledge, Idle, QueueInv, HandInv, CountInv
<1>11. ASSUME NEW w \in Workers, Crash(w) PROVE QueueInv' /\ HandInv' /\ CountInv'
  BY <1>0, <1>11 DEF Crash, Idle, QueueInv, HandInv, CountInv
<1>12. CASE Activate \/ Pause \/ UNCHANGED pauseVars
  BY <1>0, <1>12 DEF Activate, Pause, QueueInv, HandInv, CountInv
<1> QED
  BY <1>1, <1>2, <1>3, <1>4, <1>5, <1>6, <1>7, <1>8, <1>9, <1>10, <1>11, <1>12
     DEF PauseNext, WorkerStep

-----------------------------------------------------------------------------
(* The theorems.                                                           *)

\* Queue, hands and rows agree, for any number of workers, whatever the api
\* deletes and however often jobs are delivered.
THEOREM PauseInvariance == PauseSpec => []PauseInv
<1>1. PauseInv /\ [PauseNext]_pauseVars => PauseInv'
  BY TypeStep, HandStep DEF PauseInv
<1> QED
  BY <1>1, PauseBegins, PTL DEF PauseSpec

\* The rows, the queue and the workers have their types.
THEOREM PauseTypeCorrect == PauseSpec => []PauseTypeOK
<1>1. PauseInv => PauseTypeOK
  BY DEF PauseInv
<1> QED
  BY <1>1, PauseInvariance, PTL

-----------------------------------------------------------------------------
(* One slot.                                                               *)

\* What an action changes of the count of the one slot, in the rows it sees.
LEMMA CountedStep ==
  ASSUME NEW w, Workers = {w}, PauseInv, Counted(w), [PauseNext]_pauseVars
  PROVE  Counted(w)'
<1> USE AutoPauseAssumption DEF Exists, Statuses
<1>0. /\ QueueInv /\ HandInv /\ CountInv /\ w \in Workers
      /\ created \in Nat /\ \A e \in Ids : e \in Nat /\ e # 0
      /\ execution \in [Ids -> {"none", "deleted", "withdrawn"} \cup Statuses]
      /\ pc \in [Workers -> {"idle", "running", "erred", "failing", "counted", "done"}]
      /\ at \in [Workers -> Ids \cup {0}]
      /\ streak \in [Workers -> BOOLEAN]
  BY DEF PauseInv, PauseTypeOK, Ids
<1>1. CASE Create
  <2> SUFFICES ASSUME streak'[w] PROVE \E row \in SUBSET Ids : FailedInRow(Seen(w)', row)
    BY DEF Counted
  <2>1. /\ streak[w] /\ at' = at /\ created + 1 \in Ids
        /\ execution' = [execution EXCEPT ![created + 1] = "PENDING"]
    BY <1>0, <1>1 DEF Create, workerVars, Ids, PauseInv, PauseTypeOK
  <2>2. PICK row \in SUBSET Ids : FailedInRow(Seen(w), row)
    BY <2>1 DEF Counted
  <2>3. at[w] \in Ids /\ at[w] <= created
    BY <1>0, <2>1 DEF HandInv, CountInv, QueueInv
  <2>4. \A e \in Ids : /\ e # created + 1 => Seen(w)'[e] = Seen(w)[e]
                       /\ e > created => Seen(w)[e] = "none"
    BY <1>0, <2>1, <2>3 DEF Seen, QueueInv
  <2>5. \A f \in row : f < created + 1
    BY <1>0, <2>2, <2>4 DEF FailedInRow
  <2>6. FailedInRow(Seen(w)', row)
    BY <2>2, <2>4, <2>5, RowStays, <1>0, <2>1
  <2> QED
    BY <2>6
<1>2. ASSUME NEW e \in Ids, Withdraw(e) PROVE Counted(w)'
  <2> SUFFICES ASSUME streak'[w] PROVE \E row \in SUBSET Ids : FailedInRow(Seen(w)', row)
    BY DEF Counted
  <2>1. /\ streak[w] /\ at' = at /\ pc[w] = "counted" /\ at[w] # e
        /\ execution' = [execution EXCEPT
                          ![e] = IF @ = "FAILED" THEN "withdrawn" ELSE "deleted"]
        /\ execution[e] \in Statuses
    BY <1>0, <1>2 DEF Withdraw, Locked, workerVars, CountInv
  <2>2. PICK row \in SUBSET Ids : FailedInRow(Seen(w), row)
    BY <2>1 DEF Counted
  <2>3. at[w] \in Ids
    BY <1>0, <2>1 DEF HandInv
  <2>4. /\ \A f \in Ids : f # e => Seen(w)'[f] = Seen(w)[f]
        /\ Seen(w)[e] = execution[e] /\ Seen(w)'[e] = execution'[e]
    BY <1>0, <2>1, <2>3 DEF Seen
  <2>5. /\ execution'[e] = IF execution[e] = "FAILED" THEN "withdrawn" ELSE "deleted"
    BY <1>0, <2>1
  <2>6. FailedInRow(Seen(w)', row)
    BY <2>1, <2>2, <2>4, <2>5, RowStays
  <2> QED
    BY <2>6
<1>3. CASE Count(w)
  <2> SUFFICES ASSUME streak'[w] PROVE \E row \in SUBSET Ids : FailedInRow(Seen(w)', row)
    BY DEF Counted
  <2>1. AllFailed(Seen(w)) /\ Seen(w)' = Seen(w)
    BY <1>0, <1>3 DEF Count, Goto, rowVars, Seen
  <2>2. FailedInRow(Seen(w), Latest(Seen(w)))
    BY <2>1, WindowIsRow
  <2>3. Latest(Seen(w)) \in SUBSET Ids
    BY DEF Latest
  <2> QED
    BY <2>1, <2>2, <2>3
<1>4. CASE Take(w) \/ Succeed(w) \/ Fail(w) \/ CommitFailure(w) \/ RollBack(w) \/ RowGone(w)
             \/ Acknowledge(w) \/ Crash(w)
  <2>1. ~ streak'[w]
    BY <1>0, <1>4 DEF Take, Succeed, Fail, CommitFailure, RollBack, RowGone, Acknowledge, Crash,
                      Errs, Idle, Goto, CountInv
  <2> QED
    BY <2>1 DEF Counted
<1>5. CASE (\E e \in Ids : Enqueue(e)) \/ Activate \/ Pause \/ UNCHANGED pauseVars
  <2>1. UNCHANGED <<execution, at, streak>>
    BY <1>5 DEF Enqueue, Activate, Pause, pauseVars, rowVars, workerVars
  <2> QED
    BY <2>1 DEF Counted, Seen
<1> QED
  BY <1>1, <1>2, <1>3, <1>4, <1>5 DEF PauseNext, WorkerStep

\* PauseIsJustified with one slot, as deployed: at the commit Threshold
\* executions in a row have failed, for every threshold and whatever the api
\* deletes and creates since the count.
THEOREM Justified ==
  ASSUME NEW w, Workers = {w} PROVE PauseSpec => PauseIsJustified
<1> DEFINE Just ==
             workflow = "ACTIVE" /\ workflow' = "PAUSED" /\ pc' # pc =>
               \E row \in SUBSET Ids : FailedInRow(execution', row)
<1>1. ASSUME PauseInv, Counted(w), [PauseNext]_pauseVars PROVE [Just]_pauseVars
  <2> SUFFICES ASSUME workflow = "ACTIVE", workflow' = "PAUSED", pc' # pc
               PROVE  \E row \in SUBSET Ids : FailedInRow(execution', row)
    OBVIOUS
  <2>1. CommitFailure(w) /\ streak[w]
    BY <1>1 DEF PauseNext, WorkerStep, Create, Enqueue, Withdraw, Take, Succeed, Fail, Count,
                CommitFailure, RollBack, RowGone, Acknowledge, Crash, Activate, Pause,
                pauseVars, rowVars, workerVars
  <2>2. execution' = Seen(w)
    BY <2>1 DEF CommitFailure, Seen
  <2> QED
    BY <1>1, <2>1, <2>2 DEF Counted
<1>2. PauseInit => Counted(w)
  BY DEF PauseInit, Counted
<1>3. PauseInv /\ Counted(w) /\ [PauseNext]_pauseVars => Counted(w)'
  BY CountedStep
<1>4. [][Just]_pauseVars <=> PauseIsJustified
  BY DEF PauseIsJustified
<1> QED
  BY <1>1, <1>2, <1>3, <1>4, PauseInvariance, PTL DEF PauseSpec

\* Nothing happens between the count of a slot and its commit that the count
\* would have read, but for what excuses it; and a row of failures that is
\* there when no count is pending has paused the workflow.
Heeded(w) ==
  /\ pc[w] # "counted" /\ ~ excused /\ AllFailed(execution) => workflow = "PAUSED"
  /\ pc[w] = "counted" /\ ~ streak[w] /\ ~ excused => ~ AllFailed(Seen(w))

\* Each action keeps the count of the one slot true.
LEMMA HeededStep ==
  ASSUME NEW w, Workers = {w}, PauseInv, Heeded(w), [PauseNext]_pauseVars
  PROVE  Heeded(w)'
<1> USE AutoPauseAssumption
<1>0. /\ PauseTypeOK /\ QueueInv /\ HandInv /\ w \in Workers
      /\ created \in Nat /\ \A e \in Ids : e \in Nat
  BY DEF PauseInv, PauseTypeOK, Ids
<1>1. CASE Create
  <2> DEFINE new == created + 1
             rows == [execution' EXCEPT ![at[w]] = "FAILED"]
  <2>1. /\ execution' = [execution EXCEPT ![new] = "PENDING"] /\ new \in Ids
        /\ UNCHANGED <<at, pc, streak, excused, workflow>>
    BY <1>0, <1>1 DEF Create, workerVars, Ids, PauseTypeOK
  <2>2. execution[new] = "none" /\ \A f \in Ids : f > new => execution[f] = "none"
    BY <1>0, <2>1 DEF QueueInv
  <2>3. Exists(execution', new) /\ execution'[new] # "FAILED"
        /\ \A f \in Ids : f > new => ~ Exists(execution', f)
    BY <1>0, <2>1, <2>2 DEF Exists, Statuses, PauseTypeOK
  <2>4. ~ AllFailed(execution')
    BY <2>1, <2>3, NewestIsRead
  <2>5. CASE pc[w] = "counted"
    <3>1. at[w] \in Ids /\ at[w] # new /\ at[w] <= created
      BY <1>0, <2>2, <2>5 DEF HandInv, QueueInv, PauseTypeOK
    <3>2. /\ \A f \in Ids : f # at[w] => rows[f] = execution'[f]
          /\ ~ (at[w] > new)
      BY <1>0, <2>1, <2>2, <3>1 DEF PauseTypeOK
    <3> HIDE DEF rows
    <3>3. Exists(rows, new) /\ rows[new] # "FAILED"
          /\ \A f \in Ids : f > new => ~ Exists(rows, f)
      BY <2>1, <2>3, <3>1, <3>2 DEF Exists
    <3>4. ~ AllFailed(rows)
      BY <2>1, <3>3, NewestIsRead
    <3> QED
      BY <2>1, <2>5, <3>4 DEF Heeded, rows, Seen
  <2> QED
    BY <2>1, <2>4, <2>5 DEF Heeded
<1>2. ASSUME NEW h \in Ids, NEW s \in {"RUNNING", "SUCCESS"},
             Exists(execution, h),
             execution' = [execution EXCEPT ![h] = s],
             pc[w] # "counted", pc'[w] # "counted", UNCHANGED <<excused, workflow>>
      PROVE  Heeded(w)'
  <2>1. \A e \in Ids : /\ Exists(execution, e) <=> Exists(execution', e)
                       /\ execution'[e] = "FAILED" => execution[e] = "FAILED"
    BY <1>0, <1>2 DEF Exists, Statuses, PauseTypeOK
  <2>2. AllFailed(execution') => AllFailed(execution)
    BY <2>1, FewerFailures
  <2> QED
    BY <1>2, <2>2 DEF Heeded
<1>3. ASSUME pc[w] # "counted", pc'[w] # "counted",
             UNCHANGED <<execution, excused, workflow>>
      PROVE  Heeded(w)'
  BY <1>3 DEF Heeded
<1>4. CASE Take(w)
  <2>1. PICK e \in waiting :
          IF Exists(execution, e)
            THEN /\ pc' = [pc EXCEPT ![w] = "running"]
                 /\ execution' = [execution EXCEPT ![e] = "RUNNING"]
            ELSE UNCHANGED <<pc, execution>>
    BY <1>4 DEF Take
  <2>2. e \in Ids /\ pc[w] = "idle" /\ UNCHANGED <<excused, workflow>>
    BY <1>0, <1>4 DEF Take, PauseTypeOK
  <2>3. CASE Exists(execution, e)
    <3>1. pc'[w] = "running"
      BY <1>0, <2>1, <2>3 DEF PauseTypeOK
    <3> QED
      BY <1>2, <2>1, <2>2, <2>3, <3>1
  <2>4. CASE ~ Exists(execution, e)
    BY <1>3, <2>1, <2>2, <2>4
  <2> QED
    BY <2>3, <2>4
<1>5. CASE Succeed(w)
  <2>1. /\ at[w] \in Ids /\ Exists(execution, at[w]) /\ pc[w] = "running"
        /\ pc'[w] # "counted" /\ UNCHANGED <<excused, workflow>>
        /\ execution' = [execution EXCEPT ![at[w]] = "SUCCESS"]
    BY <1>0, <1>5 DEF Succeed, Goto, HandInv, PauseTypeOK
  <2> QED
    BY <1>2, <2>1
<1>6. CASE Count(w)
  <2>1. /\ pc'[w] = "counted" /\ UNCHANGED <<execution, at>>
        /\ streak'[w] = AllFailed(Seen(w))
    BY <1>0, <1>6 DEF Count, Goto, rowVars, Seen, PauseTypeOK
  <2> QED
    BY <2>1 DEF Heeded, Seen
<1>7. CASE CommitFailure(w)
  <2>1. /\ pc[w] = "counted" /\ excused' = excused
        /\ workflow' = (IF streak[w] THEN "PAUSED" ELSE workflow)
        /\ execution' = Seen(w)
    BY <1>0, <1>7 DEF CommitFailure, Seen
  <2>2. pc'[w] # "counted"
    BY <1>0, <1>7 DEF CommitFailure, Errs, Idle, Goto, PauseTypeOK
  <2> QED
    BY <2>1, <2>2 DEF Heeded
<1>8. CASE excused'
  BY <1>8 DEF Heeded
<1>9. CASE Fail(w) \/ RowGone(w) \/ Acknowledge(w)
  <2>1. pc[w] # "counted" /\ pc'[w] # "counted" /\ UNCHANGED <<execution, excused, workflow>>
    BY <1>0, <1>9 DEF Fail, RowGone, Acknowledge, Goto, Idle, rowVars, PauseTypeOK
  <2> QED
    BY <1>3, <2>1
<1>10. CASE RollBack(w) \/ Crash(w)
  <2>1. /\ UNCHANGED <<execution, workflow>> /\ pc'[w] # "counted"
        /\ excused' = (excused \/ pc[w] = "counted")
    BY <1>0, <1>10 DEF RollBack, Crash, Errs, Goto, Idle, rowVars, PauseTypeOK
  <2>2. CASE pc[w] = "counted"
    BY <1>8, <2>1, <2>2
  <2>3. CASE pc[w] # "counted"
    <3>1. excused' <=> excused
      BY <2>1, <2>3
    <3> QED
      BY <2>1, <2>3, <3>1 DEF Heeded
  <2> QED
    BY <2>2, <2>3
<1>11. CASE (\E e \in Ids : Enqueue(e)) \/ Pause \/ UNCHANGED pauseVars
  <2>1. UNCHANGED <<execution, at, pc, streak, excused>> /\ workflow' \in {workflow, "PAUSED"}
    BY <1>11 DEF Enqueue, Pause, pauseVars, rowVars, workerVars
  <2> QED
    BY <2>1 DEF Heeded, Seen
<1>12. (\E e \in Ids : Withdraw(e)) \/ Activate => excused'
  BY DEF Withdraw, Activate
<1> QED
  BY <1>1, <1>4, <1>5, <1>6, <1>7, <1>8, <1>9, <1>10, <1>11, <1>12 DEF PauseNext, WorkerStep

\* StreakIsPaused with one slot, as deployed: a row of Threshold failures that is
\* the latest when the slot is idle has paused the workflow.
THEOREM OneSlotHeeds == ASSUME NEW w, Workers = {w} PROVE PauseSpec => []StreakIsPaused
<1>1. PauseInit => Heeded(w)
  <2> SUFFICES ASSUME PauseInit PROVE Heeded(w)
    OBVIOUS
  <2>1. \A e \in Ids : ~ Exists(execution, e)
    BY DEF PauseInit, Exists, Statuses
  <2>2. Latest(execution) = {}
    BY <2>1 DEF Latest
  <2>3. ~ AllFailed(execution)
    BY <2>2, FS_EmptySet, AutoPauseAssumption DEF AllFailed
  <2>4. pc[w] = "idle"
    BY DEF PauseInit
  <2> QED
    BY <2>3, <2>4 DEF Heeded
<1>2. PauseInv /\ Heeded(w) /\ [PauseNext]_pauseVars => Heeded(w)'
  BY HeededStep
<1>3. Heeded(w) => StreakIsPaused
  BY DEF Heeded, StreakIsPaused, Quiet
<1> QED
  BY <1>1, <1>2, <1>3, PauseInvariance, PTL DEF PauseSpec
=============================================================================
