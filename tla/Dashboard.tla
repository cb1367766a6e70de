----------------------------- MODULE Dashboard -----------------------------
(***************************************************************************)
(* The dashboard: the store with the last summary, which outlives the page, *)
(* and the page with its filters and the actions of its rows.  An action    *)
(* (run, toggle, delete) is a request and then a refresh; every summary     *)
(* that is answered replaces the list, in the order of the answers.         *)
(***************************************************************************)
EXTENDS Naturals, FiniteSets

CONSTANTS
  Cards,        \* the user's workflows
  NoCard,       \* no workflow, and a workflow that is not there
  Matching,     \* those of them whose name or description has what is searched
  MaxActs,      \* bound: clicks of the user, and openings of the page
  MaxChanges,   \* bound: changes by triggers, the worker and other tabs
  MaxLosses     \* bound: requests that fail on the way

ASSUME DashboardAssumption ==
  /\ IsFiniteSet(Cards) /\ NoCard \notin Cards /\ Matching \subseteq Cards
  /\ {MaxActs, MaxChanges, MaxLosses} \subseteq Nat

VARIABLES
  flowsNow,  \* the workflows, each with its status and its last execution
  changes,   \* how often they have changed: by anyone, by others
  board,     \* the store, and of what age its list is
  dash,      \* the page
  trips,     \* actions and loads that have not ended
  known,     \* what this tab was told of: changes, deletions, stale lists
  doing,     \* what the user is about: the filters, or the actions
  spent      \* clicks and losses so far

dashVars == <<flowsNow, changes, board, dash, trips, known, doing, spent>>

Reasons == {"failed", "paused", "draft", "activeWithoutRuns"}
StatusFilters == {"ALL", "ACTIVE", "PAUSED", "DRAFT"}

\* A last execution that is neither missing nor FAILED is "other".
FlowRows == [status : {"ACTIVE", "PAUSED", "DRAFT"}, last : {"none", "FAILED", "other"}]

-----------------------------------------------------------------------------
(* What the page shows of the list.                                        *)

Listed == {w \in Cards : board.workflows[w] # NoCard}

getAttentionReasonKey(f) ==
  CASE f.last = "FAILED" -> "failed"
    [] f.last # "FAILED" /\ f.status = "PAUSED" -> "paused"
    [] f.last # "FAILED" /\ f.status = "DRAFT" -> "draft"
    [] f.status = "ACTIVE" /\ f.last = "none" -> "activeWithoutRuns"
    [] OTHER -> "ALL"

\* The number on a card of the attention strip.
CountOf(k) ==
  Cardinality({w \in Listed :
    LET f == board.workflows[w] IN
    CASE k = "failed" -> f.last = "FAILED"
      [] k = "paused" -> f.status = "PAUSED"
      [] k = "draft" -> f.status = "DRAFT"
      [] k = "activeWithoutRuns" -> f.status = "ACTIVE" /\ f.last = "none"})

\* The list below it, under the two filters and the search.
filteredWorkflows ==
  {w \in Listed :
    /\ dash.status \in {"ALL", board.workflows[w].status}
    /\ dash.attention \in {"ALL", getAttentionReasonKey(board.workflows[w])}
    /\ dash.search => w \in Matching}

isAttentionCardActive(k) ==
  CASE k = "failed" -> dash.attention = "failed"
    [] k = "paused" -> dash.status = "PAUSED" /\ dash.attention = "ALL"
    [] k = "draft" -> dash.status = "DRAFT" /\ dash.attention = "ALL"
    [] k = "activeWithoutRuns" ->
         dash.status = "ACTIVE" /\ dash.attention = "activeWithoutRuns"

\* Mutation: the card of paused workflows filters by their reason.
CardFiltersByReason(k) ==
  CASE k = "failed" -> <<"ALL", "failed">>
    [] k = "paused" -> <<"ALL", "paused">>
    [] k = "draft" -> <<"DRAFT", "ALL">>
    [] k = "activeWithoutRuns" -> <<"ACTIVE", "activeWithoutRuns">>

\* The filters that a click on a card sets.
CardFilters(k) ==
  CASE k = "failed" -> <<"ALL", "failed">>
    [] k = "paused" -> <<"PAUSED", "ALL">>
    [] k = "draft" -> <<"DRAFT", "ALL">>
    [] k = "activeWithoutRuns" -> <<"ACTIVE", "activeWithoutRuns">>

-----------------------------------------------------------------------------
(* runWithLoading.                                                         *)

Begun(b) == [b EXCEPT !.pending = @ + 1, !.loading = TRUE]

\* Mutation: whichever request ends puts the sign out.
FinishedAlone(b) == [b EXCEPT !.pending = @ - 1, !.loading = FALSE]

Finished(b) ==
  LET left == IF b.pending = 0 THEN 0 ELSE b.pending - 1
  IN  [b EXCEPT !.pending = left, !.loading = left > 0]

-----------------------------------------------------------------------------
(* The user.  The controls of the list are there, and enabled, as soon as it *)
(* has rows.                                                               *)

Act == spent.acts < MaxActs /\ spent' = [spent EXCEPT !.acts = @ + 1]

Unread == [w \in Cards |-> NoCard]

Trip(kind, w, at) ==
  [no |-> spent.acts, kind |-> kind, card |-> w, mount |-> dash.mount, at |-> at,
   ok |-> TRUE, target |-> "none", did |-> 0, list |-> Unread, asOf |-> 0]

NewPageState(m) ==
  [open |-> TRUE, mount |-> m, error |-> FALSE, busy |-> <<>>, shared |-> FALSE,
   dialog |-> NoCard, status |-> "ALL", attention |-> "ALL", search |-> FALSE]

\* The page's effect on mounting loads a summary, whatever the store has.
OpenDashboard ==
  /\ ~ dash.open /\ Act
  /\ dash' = NewPageState(dash.mount + 1)
  /\ trips' = trips \cup {[Trip("load", NoCard, "asked") EXCEPT !.mount = dash.mount + 1]}
  /\ board' = Begun(board)
  /\ UNCHANGED <<flowsNow, changes, known, doing>>

LeaveDashboard ==
  /\ dash.open /\ dash' = [dash EXCEPT !.open = FALSE]
  /\ UNCHANGED <<flowsNow, changes, board, trips, known, doing, spent>>

\* The actions whose ends this page still hears of.
Live == {c \in trips : c.kind # "load" /\ c.mount = dash.mount}

\* setPendingAction: one slot for all rows.
Busied(d, c) == [d EXCEPT !.busy = <<c.card, c.kind>>, !.shared = Live # {}]

\* Mutation: without finally, a failure leaves the row busy.
RestedIfOk(d, c) ==
  IF c.kind = "load" \/ c.mount # d.mount THEN d
  ELSE [d EXCEPT !.busy = IF c.ok THEN <<>> ELSE @, !.shared = @ /\ Live # {c}]

Rested(d, c) ==
  IF c.kind = "load" \/ c.mount # d.mount THEN d
  ELSE [d EXCEPT !.busy = <<>>, !.shared = @ /\ Live # {c}]

\* A row's buttons are disabled while the slot names it; a dialog covers them.
Clickable(w) ==
  /\ doing = "acts" /\ dash.open /\ dash.dialog = NoCard /\ w \in filteredWorkflows
  /\ \A k \in {"run", "status", "delete"} : dash.busy # <<w, k>>

handleRunRow(w) ==
  /\ Clickable(w) /\ Act
  /\ LET c == Trip("run", w, "sent") IN
       dash' = Busied(dash, c) /\ trips' = trips \cup {c}
  /\ UNCHANGED <<flowsNow, changes, board, known, doing>>

handleToggleRow(w) ==
  LET next == IF board.workflows[w].status = "ACTIVE" THEN "PAUSED" ELSE "ACTIVE"
      c == [Trip("status", w, "sent") EXCEPT !.target = next]
  IN  /\ Clickable(w) /\ Act
      /\ dash' = Busied(dash, c) /\ trips' = trips \cup {c}
      /\ UNCHANGED <<flowsNow, changes, board, known, doing>>

handleDelete(w) ==
  /\ Clickable(w) /\ dash' = [dash EXCEPT !.dialog = w]
  /\ UNCHANGED <<flowsNow, changes, board, trips, known, doing, spent>>

\* The dialog is locked while the slot is held by a deletion.
DialogOpen ==
  /\ dash.open /\ dash.dialog # NoCard
  /\ \A w \in Cards : dash.busy # <<w, "delete">>

cancelDelete ==
  /\ DialogOpen /\ dash' = [dash EXCEPT !.dialog = NoCard]
  /\ UNCHANGED <<flowsNow, changes, board, trips, known, doing, spent>>

confirmDelete ==
  /\ DialogOpen /\ Act
  /\ LET c == Trip("delete", dash.dialog, "sent") IN
       dash' = Busied(dash, c) /\ trips' = trips \cup {c}
  /\ board' = Begun(board)
  /\ UNCHANGED <<flowsNow, changes, known, doing>>

Filtering(s, a, q) ==
  /\ doing = "filters" /\ dash.open /\ dash.dialog = NoCard /\ Act
  /\ dash' = [dash EXCEPT !.status = s, !.attention = a, !.search = q]
  /\ UNCHANGED <<flowsNow, changes, board, trips, known, doing>>

setStatusFilter(s) ==
  Listed # {} /\ s # dash.status /\ Filtering(s, dash.attention, dash.search)

setAttentionFilter(a) ==
  Listed # {} /\ a # dash.attention /\ Filtering(dash.status, a, dash.search)

setSearchQuery ==
  Listed # {} /\ Filtering(dash.status, dash.attention, ~ dash.search)

resetWorkflowFilters ==
  /\ ~ (Listed = {} /\ board.loading)
  /\ dash.search \/ <<dash.status, dash.attention>> # <<"ALL", "ALL">>
  /\ Filtering("ALL", "ALL", FALSE)

\* A card without workflows is shown only before the first summary.  A second
\* click takes the filters away, and leaves a search.
handleAttentionCardClick(k) ==
  /\ board.hasData => CountOf(k) > 0
  /\ IF isAttentionCardActive(k)
       THEN Filtering("ALL", "ALL", dash.search)
       ELSE Filtering(CardFilters(k)[1], CardFilters(k)[2], FALSE)

-----------------------------------------------------------------------------
(* The api.                                                                *)

Replaced(c, d) == (trips \ {c}) \cup {d}

\* executeWorkflow, updateWorkflowStatus or deleteWorkflow; 404 without a row.
Serve(c) ==
  /\ c \in trips /\ c.at = "sent"
  /\ IF flowsNow[c.card] = NoCard
       THEN /\ trips' = Replaced(c, [c EXCEPT !.at = "done", !.ok = FALSE])
            /\ UNCHANGED <<flowsNow, changes>>
       ELSE /\ trips' = Replaced(c, [c EXCEPT !.at = "done", !.did = changes.all + 1])
            /\ changes' = [changes EXCEPT !.all = @ + 1]
            /\ flowsNow' =
                 CASE c.kind = "run" -> [flowsNow EXCEPT ![c.card].last = "other"]
                   [] c.kind = "status" -> [flowsNow EXCEPT ![c.card].status = c.target]
                   [] c.kind = "delete" -> [flowsNow EXCEPT ![c.card] = NoCard]
  /\ UNCHANGED <<board, dash, known, doing, spent>>

\* A request that does not arrive, or whose answer does not.
Lose(c) ==
  /\ c \in trips /\ c.ok /\ c.at \in {"sent", "done", "asked"}
  /\ spent.losses < MaxLosses /\ spent' = [spent EXCEPT !.losses = @ + 1]
  /\ trips' = Replaced(c, [c EXCEPT !.ok = FALSE,
                             !.at = IF @ = "asked" THEN "read" ELSE "done"])
  /\ UNCHANGED <<flowsNow, changes, board, dash, known, doing>>

\* getDashboardSummary: the workflows, each with its last execution.
getDashboardSummary(c) ==
  /\ c \in trips /\ c.at = "asked"
  /\ trips' = Replaced(c, [c EXCEPT !.at = "read", !.list = flowsNow, !.asOf = changes.all])
  /\ UNCHANGED <<flowsNow, changes, board, dash, known, doing, spent>>

\* A trigger, the worker, or the user in another tab.
Change(w) ==
  /\ flowsNow[w] # NoCard /\ changes.others < MaxChanges
  /\ changes' = [all |-> changes.all + 1, others |-> changes.others + 1]
  /\ \/ flowsNow' = [flowsNow EXCEPT ![w] = NoCard]
     \/ \E s \in {"ACTIVE", "PAUSED"} \ {flowsNow[w].status} :
          flowsNow' = [flowsNow EXCEPT ![w].status = s]
     \/ \E l \in {"FAILED", "other"} \ {flowsNow[w].last} :
          flowsNow' = [flowsNow EXCEPT ![w].last = l]
  /\ UNCHANGED <<board, dash, trips, known, doing, spent>>

-----------------------------------------------------------------------------
(* The answers.                                                            *)

\* Mutation: the deletion is left to the refresh.
WithoutNone(b, w) == b

\* The list without a workflow that was deleted.
Without(b, w) == [b EXCEPT !.workflows[w] = NoCard]

\* refreshDashboardData, which takes an earlier error away.
Refreshing(d, c) == IF c.mount = d.mount THEN [d EXCEPT !.error = FALSE] ELSE d

\* Mutation: the page does not refresh after an action.
SucceededAlone(c) ==
  /\ c \in trips /\ c.at = "done" /\ c.ok
  /\ trips' = trips \ {c}
  /\ board' = IF c.kind = "delete" THEN Finished(Without(board, c.card)) ELSE board
  /\ dash' = Rested([dash EXCEPT !.dialog = IF c.mount = dash.mount THEN NoCard ELSE @], c)
  /\ known' = [known EXCEPT !.told = IF c.did > @ THEN c.did ELSE @]
  /\ UNCHANGED <<flowsNow, changes, doing, spent>>

\* An action that went well: its row goes, its dialog closes, the page refreshes.
Succeeded(c) ==
  /\ c \in trips /\ c.at = "done" /\ c.ok
  /\ trips' = Replaced(c, [c EXCEPT !.at = "asked"])
  /\ IF c.kind = "delete"
       THEN /\ board' = Begun(Finished(Without(board, c.card)))
            /\ dash' = Refreshing([dash EXCEPT !.dialog = IF c.mount = dash.mount
                                                          THEN NoCard ELSE @], c)
            /\ known' = [known EXCEPT !.told = IF c.did > @ THEN c.did ELSE @,
                                      !.removed = @ \cup {c.card}]
       ELSE /\ board' = Begun(board)
            /\ dash' = Refreshing(dash, c)
            /\ known' = [known EXCEPT !.told = IF c.did > @ THEN c.did ELSE @]
  /\ UNCHANGED <<flowsNow, changes, doing, spent>>

\* An action that failed: a toast, and the slot is free.
Refused(c) ==
  /\ c \in trips /\ c.at = "done" /\ ~ c.ok
  /\ trips' = trips \ {c}
  /\ board' = IF c.kind = "delete" THEN Finished(board) ELSE board
  /\ dash' = Rested(dash, c)
  /\ UNCHANGED <<flowsNow, changes, known, doing, spent>>

\* A summary replaces the list, whenever it was asked for.
Delivered(c) ==
  /\ c \in trips /\ c.at = "read" /\ c.ok
  /\ trips' = trips \ {c}
  /\ board' = [Finished(board) EXCEPT !.workflows = c.list, !.asOf = c.asOf, !.hasData = TRUE]
  /\ dash' = Rested(dash, c)
  /\ known' = [known EXCEPT !.late = c.asOf < known.told]
  /\ UNCHANGED <<flowsNow, changes, doing, spent>>

\* A page that is gone is told of nothing.
SummaryFails(c) ==
  /\ c \in trips /\ c.at = "read" /\ ~ c.ok
  /\ trips' = trips \ {c}
  /\ board' = Finished(board)
  /\ dash' = Rested(IF c.mount = dash.mount THEN [dash EXCEPT !.error = TRUE] ELSE dash, c)
  /\ known' = IF c.mount = dash.mount THEN known ELSE [known EXCEPT !.unheard = known.told]
  /\ UNCHANGED <<flowsNow, changes, doing, spent>>

-----------------------------------------------------------------------------
\* Specification.

DashInit ==
  /\ doing \in {"filters", "acts"} /\ flowsNow \in [Cards -> FlowRows]
  /\ changes = [all |-> 0, others |-> 0]
  /\ board = [workflows |-> Unread, loading |-> FALSE, pending |-> 0, asOf |-> 0, hasData |-> FALSE]
  /\ dash = [NewPageState(0) EXCEPT !.open = FALSE]
  /\ trips = {}
  /\ known = [told |-> 0, removed |-> {}, late |-> FALSE, unheard |-> 0]
  /\ spent = [acts |-> 0, losses |-> 0]

DashUser ==
  \/ OpenDashboard \/ LeaveDashboard \/ cancelDelete \/ confirmDelete
  \/ setSearchQuery \/ resetWorkflowFilters
  \/ \E w \in Cards : handleRunRow(w) \/ handleToggleRow(w) \/ handleDelete(w)
  \/ \E s \in StatusFilters : setStatusFilter(s)
  \/ \E a \in Reasons \cup {"ALL"} : setAttentionFilter(a)
  \/ \E k \in Reasons : handleAttentionCardClick(k)

DashNext ==
  \/ DashUser
  \/ \E w \in Cards : Change(w)
  \/ \E c \in trips : \/ Serve(c) \/ Lose(c) \/ getDashboardSummary(c)
                      \/ Succeeded(c) \/ Refused(c) \/ Delivered(c) \/ SummaryFails(c)

DashSpec == DashInit /\ [][DashNext]_dashVars

-----------------------------------------------------------------------------
\* Properties.

\* The sign of loading is on exactly while a summary or a deletion is out, also
\* over actions that overlap and a page that was left and opened again.
Waiting == {c \in trips : c.kind = "delete" \/ c.at \in {"asked", "read"}}

LoadingWhileWaiting ==
  board.pending = Cardinality(Waiting) /\ (board.loading <=> Waiting # {})

\* What this tab has done is seen when all is answered: the list is as new as
\* the last action that succeeded, unless an older summary was answered after
\* it, or its refresh failed, of which the page tells if it was not left.
OwnActionsAreShown ==
  trips = {} => \/ board.asOf >= known.told \/ known.late
                \/ dash.error \/ known.unheard = known.told

\* A workflow that was deleted here comes back only with an older summary.
DeletedStaysAway == Listed \cap known.removed # {} => known.late

\* A row is busy while its action is out, but when actions overlap: they share
\* one slot, which the first to end frees.
BusyWhileOut ==
  /\ Live = {} => dash.busy = <<>>
  /\ ~ dash.shared => \A c \in Live : dash.busy = <<c.card, c.kind>>

\* The list under a card of the attention strip has as many workflows as the
\* card says, whatever summary comes in, until another filter or a search is
\* added to the card's; and what needs attention has a card.
CardsCountTheirLists ==
  /\ \A k \in Reasons :
       <<dash.status, dash.attention>> = CardFilters(k) /\ ~ dash.search =>
         isAttentionCardActive(k) /\ Cardinality(filteredWorkflows) = CountOf(k)
  /\ \A w \in Listed : LET k == getAttentionReasonKey(board.workflows[w]) IN
                         k # "ALL" => CountOf(k) > 0

\* The dashboard tells of the workflows what the api told it, and of its own
\* actions what became of them.
DashboardShowsWhatIs ==
  /\ LoadingWhileWaiting /\ OwnActionsAreShown /\ DeletedStaysAway
  /\ BusyWhileOut /\ CardsCountTheirLists
=============================================================================
