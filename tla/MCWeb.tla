------------------------------- MODULE MCWeb -------------------------------
(* Four pages of the web application, one in each behaviour.              *)
EXTENDS WorkflowEditor, ExecutionPages, ConnectionPages, Dashboard

VARIABLE tab

webVars == <<tab, vars, listVars, catVars, dashVars>>

\* Saving, activating and moving about, two of the three at a time; logging out;
\* testing steps and drawing; previews.
TheHabits == {
  {"edit", "save", "move"}, {"edit", "toggle", "move"}, {"edit", "save", "toggle"},
  {"edit", "logout", "move"},
  {"edit", "draw", "test"},
  {"edit", "draw", "save", "preview", "share"}}

\* Filters are tried on every row beside one with two reasons for attention.
DashFlows ==
  LET running == [status |-> "ACTIVE", last |-> "other"]
      both == [status |-> "PAUSED", last |-> "FAILED"]
  IN  IF tab = "dashboard" /\ doing = "filters"
        THEN {f \in [Cards -> FlowRows] : \A w \in Cards \ Matching : f[w] = both}
        ELSE {[w \in Cards |-> running]}

\* A page that is not shown has one state.
WebInit ==
  /\ tab \in {"editor", "history", "connections", "dashboard"}
  /\ Init /\ (tab # "editor" => url = NewPage /\ habit = CHOOSE h \in Habits : TRUE)
  /\ ListInit /\ (tab # "history" => view.flow = "all")
  /\ CatInit /\ (tab # "connections" => conns = <<>> /\ screen = "picker")
  /\ DashInit /\ (tab # "dashboard" => doing = "acts") /\ flowsNow \in DashFlows

WebNext ==
  /\ UNCHANGED tab
  /\ \/ tab = "editor" /\ Next /\ UNCHANGED <<listVars, catVars, dashVars>>
     \/ tab = "history" /\ ListNext /\ UNCHANGED <<vars, catVars, dashVars>>
     \/ tab = "connections" /\ CatNext /\ UNCHANGED <<vars, listVars, dashVars>>
     \/ tab = "dashboard" /\ DashNext /\ UNCHANGED <<vars, listVars, catVars>>

WebSpec == WebInit /\ [][WebNext]_webVars

\* The lists of executions and of connections are those of what was chosen.
ListsShowTheChosen == HistoryShowsTheChosen /\ CatalogShowsTheChosen

\* Signs of loading, and the locks that go with them, end with what they wait
\* for, on the history and on the connections, but for the listed races.
LoadingSignsEnd == LoadingIsLostOnlyToRefresh /\ LocksAreLostOnlySo
=============================================================================
