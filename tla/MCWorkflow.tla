----------------------------- MODULE MCWorkflow -----------------------------
(* A workflow's definition and its status, one of them in each behaviour:  *)
(* neither reads or writes what the other is about.  One worker service    *)
(* with one slot is deployed.                                              *)
EXTENDS DefinitionSnapshot, AutoPause, TLC

CONSTANTS e1, e2, d1, d2, x1, x2, c1, c2, w1

VARIABLE subject

workflowVars == <<subject, vars, pauseVars>>

Same == Permutations({e1, e2}) \cup Permutations({d1, d2})
          \cup Permutations({x1, x2}) \cup Permutations({c1, c2})

\* What is not the subject has one state.
WorkflowInit ==
  /\ subject \in {"definition", "status"}
  /\ Init
  /\ subject # "definition" =>
       /\ \A v \in Versions : uses[v] = NoConnection
       /\ \A d, r \in Removers : remover[d].id = remover[r].id
  /\ PauseInit

WorkflowNext ==
  /\ UNCHANGED subject
  /\ \/ subject = "definition" /\ Next /\ UNCHANGED pauseVars
     \/ subject = "status" /\ PauseNext /\ UNCHANGED vars

WorkflowSpec == WorkflowInit /\ [][WorkflowNext]_workflowVars
=============================================================================
