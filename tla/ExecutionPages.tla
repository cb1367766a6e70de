--------------------------- MODULE ExecutionPages ---------------------------
(***************************************************************************)
(* The page with a workflow's executions and the page with the executions  *)
(* of all workflows.  Both ask the api for one page of a list under a      *)
(* filter; the first also shows one execution with its step logs, and asks *)
(* again every 5 s while something is in progress.  An api answer is read  *)
(* by several statements, each of which sees what is committed by then.    *)
(***************************************************************************)
EXTENDS Naturals, Sequences, FiniteSets, FiniteSetsExt

CONSTANTS
  Flows,      \* workflows of the user; the history page is that of one
  Filters,    \* status filters the user chooses from, "ALL" among them
  PageSize,   \* EXECUTIONS_PER_PAGE
  NoRow,      \* no execution
  MaxRows,    \* bound: executions
  MaxClicks,  \* bound: clicks of the user, and failures of requests and writes
  RunCost     \* bound: how many of these a redelivered job counts for

ASSUME PagesAssumption ==
  /\ "ALL" \in Filters /\ NoRow \notin Nat
  /\ {PageSize, MaxRows} \subseteq Nat \ {0} /\ {MaxClicks, RunCost} \subseteq Nat

VARIABLES
  rows,    \* the executions, in the order of createdAt
  view,    \* the state of the page
  asked,   \* requests in flight whose answers the page still takes
  clicks   \* clicks and failures so far

listVars == <<rows, view, asked, clicks>>

\* PENDING and RUNNING are one status to these pages, the api's IN_PROGRESS.
InProgress == {"IN_PROGRESS"}

Click == clicks < MaxClicks /\ clicks' = clicks + 1

-----------------------------------------------------------------------------
(* The worker, see ExecutionEngine.  Of the step logs a row has, it matters *)
(* whether the last is still open; of the times a job is delivered again,   *)
(* that each gives the row another startedAt.                               *)

EndRow(i, s) ==
  /\ rows[i].status \in InProgress /\ rows[i].log = "closed"
  /\ rows' = [rows EXCEPT ![i].status = s]
  /\ UNCHANGED <<view, asked, clicks>>

\* A log could not be closed: the execution fails with it.
EndRowUnclosed(i) ==
  /\ Click
  /\ rows[i].status \in InProgress /\ rows[i].log = "open"
  /\ rows' = [rows EXCEPT ![i].status = "FAILED"]
  /\ UNCHANGED <<view, asked>>

\* The reply of the write of SUCCESS is lost, and the catch block fails the row.
EndIsDoubted(i) ==
  /\ Click
  /\ rows[i].status = "SUCCESS"
  /\ rows' = [rows EXCEPT ![i].status = "FAILED"]
  /\ UNCHANGED <<view, asked>>

WorkOn(i) ==
  /\ rows[i].status \in InProgress
  /\ rows' = [rows EXCEPT ![i].log = IF @ = "open" THEN "closed" ELSE "open"]
  /\ UNCHANGED <<view, asked, clicks>>

\* The job is delivered again, whatever the status is by then; the logs stay.
Redelivered(i) ==
  /\ clicks + RunCost <= MaxClicks /\ clicks' = clicks + RunCost
  /\ rows' = [rows EXCEPT ![i].status = "IN_PROGRESS", ![i].run = @ + 1]
  /\ UNCHANGED <<view, asked>>

NewRow(w) == [flow |-> w, status |-> "IN_PROGRESS", log |-> "closed", run |-> 0]

\* An execution that another client, a trigger or the scheduler starts.
Started(w) ==
  /\ Len(rows) < MaxRows
  /\ rows' = Append(rows, NewRow(w))
  /\ UNCHANGED <<view, asked, clicks>>

-----------------------------------------------------------------------------
(* What the page asks for.                                                 *)

\* The key of a list: its page, its filter, its workflow ("all" of them).
Controls(v) == <<v.page, v.filter, v.flow>>

ListCall(key, background, retry) ==
  [slot |-> "list", key |-> key, background |-> background, retry |-> retry,
   read |-> 0, items |-> {}, total |-> 0, open |-> FALSE]

DetailCall(i, background) ==
  [slot |-> "detail", id |-> i, background |-> background, read |-> 0,
   status |-> "IN_PROGRESS", log |-> "closed", run |-> 0]

\* Mutation: answers are not compared with the latest request.
SupersedeNone(cs, c) == cs \cup {c}

\* listRequestRef and detailRequestRef: a request is dropped by the next.
Supersede(cs, c) == {d \in cs : d.slot # c.slot} \cup {c}

Fetching(slot, background) ==
  \E c \in asked : c.slot = slot /\ c.background = background

\* loadExecutionList, and the state with which it asks.
ListAsked(v, background) ==
  IF background THEN [v EXCEPT !.listRefreshing = TRUE, !.error = FALSE]
                ELSE [v EXCEPT !.listLoading = TRUE, !.error = FALSE]

DetailAsked(v, background) ==
  IF background THEN [v EXCEPT !.detailRefreshing = TRUE, !.detailError = FALSE]
                ELSE [v EXCEPT !.detailLoading = TRUE, !.detailError = FALSE]

\* The effect of another selection.
Selecting(v, cs, i) ==
  IF i = v.selected THEN view' = v /\ asked' = cs
  ELSE IF i = NoRow
    THEN /\ view' = [v EXCEPT !.selected = i, !.detail = NoRow,
                              !.detailLoading = FALSE, !.detailRefreshing = FALSE,
                              !.detailError = FALSE]
         /\ asked' = {c \in cs : c.slot # "detail"}
  ELSE /\ view' = DetailAsked([v EXCEPT !.selected = i], FALSE)
       /\ asked' = Supersede(cs, DetailCall(i, FALSE))

EmptyList(key) ==
  [key |-> key, retry |-> FALSE, items |-> {}, total |-> 0, open |-> FALSE]

Statuses(v) == {e.status : e \in {e \in v.list.items : e.id = v.selected}}

selectedExecutionInProgress(v) ==
  /\ v.selected # NoRow
  /\ (IF v.detail # NoRow THEN {v.detail.status} ELSE Statuses(v)) \cap InProgress # {}

hasInProgressExecutions(v) ==
  /\ v.flow # "all"
  /\ v.list.open \/ selectedExecutionInProgress(v)

-----------------------------------------------------------------------------
(* The user and the timer.                                                 *)

LoadFor(v) ==
  /\ Click
  /\ view' = ListAsked(v, FALSE)
  /\ asked' = Supersede(asked, ListCall(Controls(v), FALSE, FALSE))
  /\ UNCHANGED rows

TotalPages(v) == IF v.list.total = 0 THEN 1
                 ELSE (v.list.total + PageSize - 1) \div PageSize

\* The table pages from the page that is shown, the global page from its own.
onPageChange(step) ==
  LET from == IF view.flow = "all" THEN view.page ELSE view.list.key[1]
      to == CASE step = "next" -> from + 1 [] step = "previous" -> from - 1
  IN  /\ view.list.items # {}
      /\ IF step = "next" THEN from < TotalPages(view) ELSE from > 1
      /\ to # view.page
      /\ LoadFor([view EXCEPT !.page = to])

handleStatusFilterChange(f) ==
  /\ f # view.filter
  /\ LoadFor([view EXCEPT !.filter = f, !.page = 1])

handleSelectExecution(i) ==
  /\ Click
  /\ view.flow # "all"
  /\ \E e \in view.list.items : e.id = i
  /\ IF i = view.selected
       THEN /\ view' = DetailAsked(view, TRUE)
            /\ asked' = Supersede(asked, DetailCall(i, TRUE))
       ELSE Selecting(view, asked, i)
  /\ UNCHANGED rows

\* The reload after a retry asks for what was chosen when it was confirmed.
handleRetryConfirm(i) ==
  /\ Click
  /\ \E e \in view.list.items : e.id = i /\ e.status = "FAILED"
  /\ view.retrying # i
  /\ view' = [view EXCEPT !.retrying = i]
  /\ asked' = asked \cup {[slot |-> "retry", id |-> i, key |-> Controls(view),
                          answer |-> FALSE, background |-> FALSE]}
  /\ UNCHANGED rows

Poll ==
  /\ hasInProgressExecutions(view)
  /\ LET list == Supersede(asked, ListCall(Controls(view), TRUE, FALSE))
         listed == ListAsked(view, TRUE)
     IN  IF selectedExecutionInProgress(view)
           THEN /\ view' = DetailAsked(listed, TRUE)
                /\ asked' = Supersede(list, DetailCall(view.selected, TRUE))
           ELSE view' = listed /\ asked' = list
  /\ UNCHANGED <<rows, clicks>>

-----------------------------------------------------------------------------
(* The api: one statement after the other.  The count of the pages and the *)
(* page are taken as one, so that only paging could tell.                  *)

Of(i, flow) == flow \in {"all", rows[i].flow}

buildExecutionListWhere(i, f) ==
  CASE f = "ALL" -> TRUE
    [] OTHER -> rows[i].status = f

Found(key) ==
  {i \in DOMAIN rows : Of(i, key[3]) /\ buildExecutionListWhere(i, key[2])}

\* Skip and take, the newest first: an execution's place counts those after it.
PageOf(ids, n) ==
  {i \in ids : LET place == Cardinality({j \in ids : j >= i}) IN
                 (n - 1) * PageSize < place /\ place <= n * PageSize}

Reads(c, d) == asked' = (asked \ {c}) \cup {[d EXCEPT !.read = c.read + 1]}

getExecutions(c) ==
  /\ c.slot = "list"
  /\ CASE c.read = 0 ->
            Reads(c, [c EXCEPT !.total = Cardinality(Found(c.key)),
                               !.items = {[id |-> i, status |-> rows[i].status] :
                                            i \in PageOf(Found(c.key), c.key[1])}])
       [] c.read = 1 ->
            Reads(c, [c EXCEPT !.open =
              \E i \in DOMAIN rows :
                Of(i, c.key[3]) /\ rows[i].status \in InProgress])
       [] OTHER -> FALSE
  /\ UNCHANGED <<rows, view, clicks>>

\* Mutation: the step logs are read before the execution.
getExecutionLogsFirst(c) ==
  /\ c.slot = "detail"
  /\ CASE c.read = 0 -> Reads(c, [c EXCEPT !.log = rows[c.id].log])
       [] c.read = 1 -> Reads(c, [c EXCEPT !.status = rows[c.id].status,
                                           !.run = rows[c.id].run])
       [] OTHER -> FALSE
  /\ UNCHANGED <<rows, view, clicks>>

getExecution(c) ==
  /\ c.slot = "detail"
  /\ CASE c.read = 0 -> Reads(c, [c EXCEPT !.status = rows[c.id].status,
                                           !.run = rows[c.id].run])
       [] c.read = 1 -> Reads(c, [c EXCEPT !.log = rows[c.id].log])
       [] OTHER -> FALSE
  /\ UNCHANGED <<rows, view, clicks>>

\* See ExecutionIntake for its steps.  The api retries FAILED executions only.
retryExecution(c) ==
  /\ c.slot = "retry" /\ ~ c.answer
  /\ rows[c.id].status = "FAILED"
  /\ Len(rows) < MaxRows
  /\ rows' = Append(rows, NewRow(rows[c.id].flow))
  /\ asked' = (asked \ {c}) \cup {[c EXCEPT !.answer = TRUE]}
  /\ UNCHANGED <<view, clicks>>

-----------------------------------------------------------------------------
(* Answers and failures.                                                   *)

\* Mutation: the answer resets the wrong flag.
ListEndsWrongly(v, c) == [v EXCEPT !.listRefreshing = FALSE]

ListEnds(v, c) == IF c.background THEN [v EXCEPT !.listRefreshing = FALSE]
                                  ELSE [v EXCEPT !.listLoading = FALSE]

DetailEnds(v, c) == IF c.background THEN [v EXCEPT !.detailRefreshing = FALSE]
                                    ELSE [v EXCEPT !.detailLoading = FALSE]

listAnswer(c) ==
  /\ c.slot = "list" /\ c.read = 2
  /\ LET ids == {e.id : e \in c.items}
         next == IF view.flow = "all" \/ ids = {} THEN NoRow
                 ELSE IF view.selected \in ids THEN view.selected
                 ELSE Max(ids)
     IN  Selecting([ListEnds(view, c) EXCEPT
                      !.list = [key |-> c.key, retry |-> c.retry, items |-> c.items,
                                total |-> c.total, open |-> c.open]],
                   asked \ {c}, next)
  /\ UNCHANGED <<rows, clicks>>

listFails(c) ==
  /\ Click
  /\ c.slot = "list"
  /\ LET v == [ListEnds(view, c) EXCEPT !.error = TRUE] IN
       IF c.background THEN Selecting(v, asked \ {c}, v.selected)
       ELSE Selecting([v EXCEPT !.list = EmptyList(c.key)], asked \ {c}, NoRow)
  /\ UNCHANGED rows

detailAnswer(c) ==
  /\ c.slot = "detail" /\ c.read = 2
  /\ view' = [DetailEnds(view, c) EXCEPT
                !.detail = [id |-> c.id, status |-> c.status, log |-> c.log,
                            run |-> c.run]]
  /\ asked' = asked \ {c}
  /\ UNCHANGED <<rows, clicks>>

detailFails(c) ==
  /\ Click
  /\ c.slot = "detail"
  /\ view' = [DetailEnds(view, c) EXCEPT
                !.detailError = TRUE, !.detail = IF c.background THEN @ ELSE NoRow]
  /\ asked' = asked \ {c}
  /\ UNCHANGED rows

retryEnds(c) ==
  /\ c.slot = "retry"
  /\ LET v == [view EXCEPT !.retrying = NoRow]
         rest == asked \ {c}
     IN  \/ /\ c.answer
            /\ view' = ListAsked(v, FALSE)
            /\ asked' = Supersede(rest, ListCall(c.key, FALSE, TRUE))
         \/ view' = v /\ asked' = rest
  /\ UNCHANGED <<rows, clicks>>

-----------------------------------------------------------------------------

ListInit ==
  /\ \E flow \in Flows \cup {"all"} :
       LET key == <<1, "ALL", flow>> IN
       /\ view = [flow |-> flow, page |-> 1, filter |-> "ALL",
                  list |-> EmptyList(key), listLoading |-> TRUE,
                  listRefreshing |-> FALSE, error |-> FALSE, selected |-> NoRow,
                  detail |-> NoRow, detailLoading |-> FALSE,
                  detailRefreshing |-> FALSE, detailError |-> FALSE,
                  retrying |-> NoRow]
       /\ asked = {ListCall(key, FALSE, FALSE)}
  /\ rows = <<>> /\ clicks = 0

WorkerStep ==
  \/ \E i \in DOMAIN rows :
       \/ WorkOn(i) \/ EndRowUnclosed(i) \/ EndIsDoubted(i) \/ Redelivered(i)
       \/ \E s \in {"SUCCESS", "FAILED"} : EndRow(i, s)
  \/ \E w \in Flows : Started(w)

PageStep ==
  \/ \E step \in {"next", "previous"} : onPageChange(step)
  \/ \E f \in Filters : handleStatusFilterChange(f)
  \/ \E i \in DOMAIN rows : handleSelectExecution(i) \/ handleRetryConfirm(i)
  \/ Poll

AnswerOf(c) ==
  \/ getExecutions(c) \/ getExecution(c) \/ retryExecution(c)
  \/ listAnswer(c) \/ listFails(c) \/ detailAnswer(c) \/ detailFails(c) \/ retryEnds(c)

ListNext == WorkerStep \/ PageStep \/ \E c \in asked : AnswerOf(c)

ListSpec == ListInit /\ [][ListNext]_listVars

-----------------------------------------------------------------------------
(* Properties.                                                             *)

\* listRequestRef: the list shown is the one for the chosen page and filter, or
\* it is still awaited, or an error is shown, or a retry that was confirmed
\* before the choice has reloaded the earlier one (its closure is older).
ListIsForTheControls ==
  view.list.key # Controls(view) =>
    \/ view.error \/ view.list.retry
    \/ \E c \in asked : c.slot = "list" /\ (c.retry \/ c.key = Controls(view))

\* detailRequestRef: step logs of another execution than the selected one are
\* shown only until the answer for the selected one comes or an error shows,
\* although polls and clicks overtake each other's requests.
DetailIsOfSelection ==
  (view.detail # NoRow /\ view.detail.id # view.selected) =>
    \/ view.detailError
    \/ \E c \in asked : c.slot = "detail" /\ c.id = view.selected

\* getExecution reads the execution before its logs: what is shown when polling
\* has stopped because the execution has ended is complete, its last log as it
\* stays, were it open for ever in one that failed.  Unless the job has been
\* delivered again since: that starts an ended execution once more
\* (execution-engine.ts:67), and the page shows the end of the run before.
EndedIsComplete ==
  LET d == view.detail IN
    (d # NoRow /\ d.status \notin InProgress /\ d.run = rows[d.id].run) =>
      rows[d.id].status \notin InProgress /\ d.log = rows[d.id].log

\* The history shows what was chosen on it, and of an ended execution all of it.
HistoryShowsTheChosen == ListIsForTheControls /\ DetailIsOfSelection /\ EndedIsComplete

\* "Loading" stays on with no request behind it only if a poll, or a second
\* click on the selected row, has overtaken the request that turned it on.
LoadingIsLostOnlyToRefresh ==
  [][/\ (view'.listLoading /\ ~ Fetching("list", FALSE)') =>
          Poll \/ (view.listLoading /\ ~ Fetching("list", FALSE))
     /\ (view'.detailLoading /\ ~ Fetching("detail", FALSE)') =>
          \/ Poll \/ handleSelectExecution(view.selected)
          \/ view.detailLoading /\ ~ Fetching("detail", FALSE)]_listVars
=============================================================================
