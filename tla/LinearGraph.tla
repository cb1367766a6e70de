----------------------------- MODULE LinearGraph -----------------------------
(***************************************************************************)
(* Four readings of one drawing.  The api accepts a workflow's graph       *)
(* (validateLinearWorkflowGraph), the editor tells its user what is wrong  *)
(* with it (validateWorkflowGraph), the worker turns the stored graph into *)
(* the list of actions it runs (ChainResolver.resolve), and the api lists  *)
(* the fields of earlier steps along it (resolveChainPositions).  Each is  *)
(* written separately; this module states each as it is written and        *)
(* compares them on every graph a client can draw up to a bound.           *)
(***************************************************************************)
EXTENDS Integers, Sequences, FiniteSetsExt

CONSTANTS
  Ids,       \* node ids a request can name
  NoNode,    \* where a walk has ended
  MaxEdges   \* bound: edges of a graph

ASSUME GraphAssumption ==
  /\ IsFiniteSet(Ids)
  /\ NoNode \notin Ids
  /\ MaxEdges \in Nat

VARIABLES
  kind,   \* nodeKind of each node of the graph; "absent" for the other ids
  edges   \* its edges in the order of the request

vars == <<kind, edges>>

Kinds == {"trigger", "action"}
Edges == [source : Ids, target : Ids]

TypeOK ==
  /\ kind \in [Ids -> Kinds \cup {"absent"}]
  /\ edges \in Seq(Edges)
  /\ Len(edges) <= MaxEdges

-----------------------------------------------------------------------------
(* What the four functions build first.  The edges that a function takes   *)
(* note of are given by their positions in the request.                    *)

Nodes == {n \in Ids : kind[n] # "absent"}
Triggers == {n \in Nodes : kind[n] = "trigger"}
Actions == {n \in Nodes : kind[n] = "action"}
Trigger == CHOOSE n \in Triggers : TRUE

\* outgoingEdgeMap, incomingEdgeMap.
Outgoing(es, n) == {i \in es : edges[i].source = n}
Incoming(es, n) == {i \in es : edges[i].target = n}

AllEdges == DOMAIN edges

NoMissingNodes == \A i \in DOMAIN edges :
                    edges[i].source \in Nodes /\ edges[i].target \in Nodes

NoSelfEdges == \A i \in DOMAIN edges : edges[i].source # edges[i].target

NoDuplicates == \A i, j \in DOMAIN edges : edges[i] = edges[j] => i = j

LinearDegrees(es) ==
  \A a \in Actions : /\ Cardinality(Outgoing(es, a)) <= 1
                     /\ Cardinality(Incoming(es, a)) <= 1

Terminal(es) == {a \in Actions : Outgoing(es, a) = {}}

\* The walk from the trigger along first edges: the node after i steps.  It
\* has come back to a node when it takes as many steps as there are nodes.
Steps == Cardinality(Nodes)

FollowFirst(es, n) ==
  IF n = NoNode \/ Outgoing(es, n) = {}
    THEN NoNode
    ELSE edges[Min(Outgoing(es, n))].target

Walk(es) ==
  LET at[i \in 0..Steps] ==
        IF i = 0 THEN Trigger ELSE FollowFirst(es, at[i - 1])
  IN  at

Cycles(es) == Walk(es)[Steps] # NoNode
Reached(es) == {Walk(es)[i] : i \in 0..Steps} \ {NoNode}

\* The nodes of a walk after the trigger, in order, up to where it ends.
AfterTrigger(walk) ==
  [i \in {j \in 1..Steps : walk[j] # NoNode} |-> walk[i]]

-----------------------------------------------------------------------------
(* The api: normalizeNodes and validateLinearWorkflowGraph.                *)

\* Mutation: a graph without a cycle is taken for connected.
ServerAcceptsIslands ==
  /\ Nodes # {}
  /\ Cardinality(Triggers) = 1
  /\ NoMissingNodes
  /\ NoSelfEdges
  /\ NoDuplicates
  /\ Cardinality(Outgoing(AllEdges, Trigger)) = 1
  /\ LinearDegrees(AllEdges)
  /\ ~ Cycles(AllEdges)

ServerAccepts ==
  /\ Nodes # {}
  /\ Cardinality(Triggers) = 1
  /\ NoMissingNodes
  /\ NoSelfEdges
  /\ NoDuplicates
  /\ Cardinality(Outgoing(AllEdges, Trigger)) = 1
  /\ LinearDegrees(AllEdges)
  /\ Cardinality(Terminal(AllEdges)) = 1
  /\ ~ Cycles(AllEdges)
  /\ Reached(AllEdges) = Nodes

-----------------------------------------------------------------------------
(* The worker: ChainResolver.resolve returns the actions or throws.        *)

ResolverThrows ==
  \/ ~ NoMissingNodes
  \/ Cardinality(Triggers) # 1
  \/ Cardinality(Outgoing(AllEdges, Trigger)) # 1
  \/ ~ LinearDegrees(AllEdges)
  \/ Cycles(AllEdges)
  \/ \E i \in 1..Steps : Walk(AllEdges)[i] \in Triggers
  \/ Reached(AllEdges) # Nodes

Resolve == IF ResolverThrows THEN <<>> ELSE AfterTrigger(Walk(AllEdges))

\* The api again: resolveChainPositions keeps the last edge of each source and
\* stops instead of throwing.
FollowLast(n) ==
  LET out == Outgoing(AllEdges, n)
      next == edges[Max(out)].target
  IN  IF out # {} /\ kind[next] = "action" THEN next ELSE NoNode

PositionWalk ==
  LET at[i \in 0..Steps] ==
        IF i = 0 THEN Trigger
        ELSE IF \/ at[i - 1] = NoNode
                \/ \E j \in 0..i - 2 : at[j] = at[i - 1]
               THEN NoNode
        ELSE FollowLast(at[i - 1])
  IN  at

ChainPositions == IF Triggers = {} THEN <<>> ELSE AfterTrigger(PositionWalk)

-----------------------------------------------------------------------------
(* The editor: validateWorkflowGraph collects errors and goes on, leaving  *)
(* the edges it reports out of its maps.                                   *)

GoodEdges ==
  {i \in AllEdges : /\ edges[i].source \in Nodes /\ edges[i].target \in Nodes
                    /\ edges[i].source # edges[i].target
                    /\ \A j \in 1..i - 1 : edges[j] # edges[i]}

EdgeErrors ==
  {c \in {"MISSING_NODE_REFERENCE", "SELF_REFERENCING_EDGE",
          "DUPLICATE_EDGES"} :
     \/ c = "MISSING_NODE_REFERENCE" /\ ~ NoMissingNodes
     \/ c = "SELF_REFERENCING_EDGE" /\ \E i \in DOMAIN edges :
          edges[i].source \in Nodes /\ edges[i].source = edges[i].target
     \/ c = "DUPLICATE_EDGES" /\ \E i, j \in DOMAIN edges :
          /\ i # j
          /\ edges[i] = edges[j]
          /\ edges[i].source # edges[i].target
          /\ {edges[i].source, edges[i].target} \subseteq Nodes}

TriggerErrors ==
  IF Triggers = {} THEN {"NO_TRIGGER"}
  ELSE (IF Cardinality(Triggers) > 1 THEN {"MULTIPLE_TRIGGERS"} ELSE {})
         \cup (IF Cardinality(Outgoing(GoodEdges, Trigger)) # 1
                 THEN {"INVALID_TRIGGER_OUTGOING"} ELSE {})
         \cup (IF Cycles(GoodEdges) THEN {"CYCLE"} ELSE {})
         \cup (IF Reached(GoodEdges) # Nodes
                 THEN {"DISCONNECTED_NODES"} ELSE {})

ActionErrors ==
  (IF LinearDegrees(GoodEdges) THEN {} ELSE {"INVALID_ACTION_DEGREE"})
    \cup (IF Actions = {} THEN {"NO_ACTIONS"}
          ELSE IF Cardinality(Terminal(GoodEdges)) # 1
                 THEN {"INVALID_TERMINAL_ACTIONS"} ELSE {})

NoEdgesError ==
  IF Steps > 1 /\ edges = <<>> THEN {"NO_EDGES"} ELSE {}

EditorErrors ==
  EdgeErrors \cup TriggerErrors \cup NoEdgesError \cup ActionErrors

-----------------------------------------------------------------------------
(* A client draws any graph, node by node and edge by edge: every state is *)
(* the graph of some request.                                              *)

Init ==
  /\ kind = [n \in Ids |-> "absent"]
  /\ edges = <<>>

AddNode(n, k) ==
  /\ kind[n] = "absent"
  /\ edges = <<>>
  /\ kind' = [kind EXCEPT ![n] = k]
  /\ UNCHANGED edges

\* An end of the edge may name a node that is not there.
AddEdge(e) ==
  /\ Len(edges) < MaxEdges
  /\ edges' = Append(edges, e)
  /\ UNCHANGED kind

Next ==
  \/ \E n \in Ids, k \in Kinds : AddNode(n, k)
  \/ \E e \in Edges : AddEdge(e)

Spec == Init /\ [][Next]_vars

-----------------------------------------------------------------------------
(* Properties.                                                             *)

\* The reference: all nodes in a row, the trigger first, actions after it, and
\* an edge exactly between neighbours.
IsChain(order) ==
  /\ Len(order) = Steps
  /\ {order[i] : i \in DOMAIN order} = Nodes
  /\ kind[order[1]] = "trigger"
  /\ \A i \in 2..Steps : kind[order[i]] = "action"
  /\ Len(edges) = Steps - 1
  /\ \A i \in 1..Steps - 1 :
       \E j \in DOMAIN edges :
         edges[j] = [source |-> order[i], target |-> order[i + 1]]

\* spec-v1.md: one trigger, then a chain without branches or loops.  The api
\* accepts exactly the graphs that are such a chain of at least one action;
\* its many separate tests neither miss one nor refuse a good one.
AcceptedIffChain ==
  ServerAccepts <=> Steps > 1 /\ \E order \in [1..Steps -> Nodes] :
                                    IsChain(order)

\* Whatever the api accepts, the worker runs as the whole chain in its order
\* (ChainResolver.resolve), and the fields the api offers for a step are those
\* of the steps before it (resolveChainPositions).
AcceptedIsRun ==
  ServerAccepts =>
    /\ IsChain(<<Trigger>> \o Resolve)
    /\ ChainPositions = Resolve

\* The editor shows no error for a graph if and only if the api accepts it.
EditorAgrees == EditorErrors = {} <=> ServerAccepts

\* The four readings of a drawing agree, and on the right drawings.
ReadingsAgree ==
  /\ TypeOK
  /\ AcceptedIffChain
  /\ AcceptedIsRun
  /\ EditorAgrees
=============================================================================
