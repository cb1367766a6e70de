------------------------- MODULE DefinitionSnapshot -------------------------
(***************************************************************************)
(* What an execution runs is a copy of the workflow's definition.  The     *)
(* copy is read by separate SELECTs at READ COMMITTED, of the row, its     *)
(* nodes and its edges, while PUTs replace all three in one transaction;   *)
(* the credentials are not copied but looked up when the worker runs the   *)
(* step, while connections can be deleted.                                 *)
(*                                                                         *)
(* Definitions are numbered by Workflow.version: the version increment is  *)
(* in the transaction that writes the nodes and edges.  A definition is    *)
(* one connection here: what its steps do is in ExecutionEngine, which     *)
(* graphs are accepted is in LinearGraph.                                  *)
(***************************************************************************)
EXTENDS Naturals, FiniteSets

CONSTANTS
  Editors,      \* PUT handlers
  Removers,     \* handlers that delete a connection
  Runs,         \* executions that are started or retried
  Connections,  \* the owner's connections
  NoConnection, \* a definition whose steps need none
  MaxVersion    \* bound: definitions

ASSUME SnapshotAssumption ==
  /\ NoConnection \notin Connections
  /\ MaxVersion \in Nat \ {0}

Versions == 1..MaxVersion

VARIABLES
  version,      \* Workflow.version as committed
  uses,         \* the connection of each definition; of the ones written
  connections,  \* rows of Connection
  editor,       \* each PUT in flight
  remover,      \* each deletion in flight
  run           \* each execution, from its first SELECT to its outcome

vars == <<version, uses, connections, editor, remover, run>>

TypeOK ==
  /\ version \in Versions
  /\ uses \in [Versions -> Connections \cup {NoConnection}]
  /\ connections \subseteq Connections
  /\ editor \in [Editors ->
       [pc : {"idle", "checked", "refused", "done"},
        wants : Connections \cup {NoConnection}]]
  /\ remover \in [Removers ->
       [pc : {"idle", "counted", "refused", "done"}, id : Connections]]
  /\ run \in [Runs ->
       [pc : {"idle", "row", "nodes", "queued", "ran", "rejected",
              "unconnected"},
        version : 0..MaxVersion, nodes : 0..MaxVersion,
        edges : 0..MaxVersion]]

\* A workflow that has been created, and the connections there are.
Init ==
  /\ version = 1
  /\ uses \in [Versions -> Connections \cup {NoConnection}]
  /\ \A v \in Versions : v > 1 => uses[v] = NoConnection
  /\ connections = Connections
  /\ editor = [e \in Editors |-> [pc |-> "idle", wants |-> NoConnection]]
  /\ remover \in [Removers -> [pc : {"idle"}, id : Connections]]
  /\ run = [x \in Runs |->
              [pc |-> "idle", version |-> 0, nodes |-> 0, edges |-> 0]]

Available(c) == c \in connections \cup {NoConnection}

\* Mutation of NodeIds: the ids of the client are stored.
ClientNodeIds(v) == 1

\* The node ids of definition v: assignServerNodeIds gives fresh ones at each
\* PUT, and the edges name them.
NodeIds(v) == v

-----------------------------------------------------------------------------
(* PUT: ensureConnectionsExist, then the transaction.                      *)

Check(e, c) ==
  /\ editor[e].pc = "idle"
  /\ editor' = [editor EXCEPT
       ![e] = [pc |-> IF Available(c) THEN "checked" ELSE "refused",
               wants |-> c]]
  /\ UNCHANGED <<version, uses, connections, remover, run>>

\* The version, the edges and the nodes in one transaction; the foreign key
\* refuses a connection that has gone since the check.
Commit(e) ==
  /\ editor[e].pc = "checked"
  /\ Available(editor[e].wants)
  /\ version < MaxVersion
  /\ version' = version + 1
  /\ uses' = [uses EXCEPT ![version + 1] = editor[e].wants]
  /\ editor' = [editor EXCEPT ![e].pc = "done"]
  /\ UNCHANGED <<connections, remover, run>>

CommitFails(e) ==
  /\ editor[e].pc = "checked"
  /\ ~ Available(editor[e].wants)
  /\ editor' = [editor EXCEPT ![e].pc = "refused"]
  /\ UNCHANGED <<version, uses, connections, remover, run>>

-----------------------------------------------------------------------------
(* DELETE of a connection: the count, then the row.                        *)

Used(c) == uses[version] = c

CountUsage(d) ==
  /\ remover[d].pc = "idle"
  /\ remover[d].id \in connections
  /\ remover' = [remover EXCEPT
       ![d].pc = IF Used(remover[d].id) THEN "refused" ELSE "counted"]
  /\ UNCHANGED <<version, uses, connections, editor, run>>

\* Mutation of Delete: the relation does not restrict the delete.
DeleteUnrestricted(d) ==
  /\ remover[d].pc = "counted"
  /\ connections' = connections \ {remover[d].id}
  /\ remover' = [remover EXCEPT ![d].pc = "done"]
  /\ UNCHANGED <<version, uses, editor, run>>

\* onDelete: Restrict.
Delete(d) ==
  /\ remover[d].pc = "counted"
  /\ ~ Used(remover[d].id)
  /\ connections' = connections \ {remover[d].id}
  /\ remover' = [remover EXCEPT ![d].pc = "done"]
  /\ UNCHANGED <<version, uses, editor, run>>

\* A PUT came between, or another request has deleted it.
DeleteFails(d) ==
  /\ remover[d].pc = "counted"
  /\ Used(remover[d].id) \/ remover[d].id \notin connections
  /\ remover' = [remover EXCEPT ![d].pc = "refused"]
  /\ UNCHANGED <<version, uses, connections, editor, run>>

-----------------------------------------------------------------------------
(* The copy, in startExecution and in retryExecution, and its use.         *)

Read(x, from, to, part) ==
  /\ run[x].pc = from
  /\ run' = [run EXCEPT ![x] = [@ EXCEPT !.pc = to, ![part] = version]]
  /\ UNCHANGED <<version, uses, connections, editor, remover>>

\* The SELECTs of findUnique with include: the row with its version, ...
SelectWorkflow(x) == Read(x, "idle", "row", "version")

\* ... its nodes, ...
SelectNodes(x) == Read(x, "row", "nodes", "nodes")

\* ... and its edges; then buildDefinitionSnapshot, create and enqueue.
SelectEdges(x) == Read(x, "nodes", "queued", "edges")

\* ChainResolver: edges name nodes of the same snapshot.
Resolves(x) == NodeIds(run[x].nodes) = NodeIds(run[x].edges)

\* loadCredentials.
Connected(x) == Available(uses[run[x].nodes])

Execute(x) ==
  /\ run[x].pc = "queued"
  /\ run' = [run EXCEPT ![x].pc = IF ~ Resolves(x) THEN "rejected"
                                  ELSE IF Connected(x) THEN "ran"
                                  ELSE "unconnected"]
  /\ UNCHANGED <<version, uses, connections, editor, remover>>

-----------------------------------------------------------------------------

Next ==
  \/ \E e \in Editors :
       \/ \E c \in Connections \cup {NoConnection} : Check(e, c)
       \/ Commit(e)
       \/ CommitFails(e)
  \/ \E d \in Removers : CountUsage(d) \/ Delete(d) \/ DeleteFails(d)
  \/ \E x \in Runs :
       SelectWorkflow(x) \/ SelectNodes(x) \/ SelectEdges(x) \/ Execute(x)

Spec == Init /\ [][Next]_vars

-----------------------------------------------------------------------------
(* Properties.                                                             *)

\* Whatever PUTs commit between the SELECTs, a run executes the nodes and
\* edges of one definition, never a mixture of two: a torn copy is refused by
\* the chain resolver because each PUT gives all nodes new ids
\* (assignServerNodeIds, ChainResolver.resolve).
RunsOneDefinition ==
  \A x \in Runs : run[x].pc \in {"ran", "unconnected"} =>
    run[x].nodes = run[x].edges

\* A run never loses its connection while the definition it copied is the
\* current one, although the check of a PUT and the count of a DELETE are
\* both made before the writes they guard (the foreign key).
LostConnectionWasReplaced ==
  \A x \in Runs : run[x].pc = "unconnected" => run[x].nodes < version

\* The connection of the current definition exists.
ConnectionIsHeld == Available(uses[version])
=============================================================================
