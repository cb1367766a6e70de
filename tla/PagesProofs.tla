---------------------------- MODULE PagesProofs ----------------------------
(***************************************************************************)
(* Proofs about ExecutionPages, ConnectionPages and Dashboard, for any     *)
(* number of executions, connections, workflows, clicks, failures and      *)
(* changes by others: the list, the detail and the catalog shown are those *)
(* of what was chosen, pages put together are the beginning of the list,   *)
(* the signs of loading end with what they wait for, and the dashboard is  *)
(* as new as the last action unless an older summary was late.  Last the   *)
(* web application, of which these are three pages.                        *)
(***************************************************************************)
EXTENDS MCWeb, FiniteSetTheorems, SequenceTheorems, WellFoundedInduction, TLAPS

-----------------------------------------------------------------------------
(* The history of executions. *)

Sides == Flows \cup {"all"}
Keys == (Nat \ {0}) \X Filters \X Sides
RowStatuses == {"IN_PROGRESS", "SUCCESS", "FAILED"}
Logs == {"open", "closed"}

Executions == [flow : Flows, status : RowStatuses, log : Logs, run : Nat]
Items == [id : Nat, status : RowStatuses]
Lists == [key : Keys, retry : BOOLEAN, items : SUBSET Items, total : Nat,
          open : BOOLEAN]
Details == [id : Nat, status : RowStatuses, log : Logs, run : Nat]

Views ==
  [flow : Sides, page : Nat \ {0}, filter : Filters, list : Lists,
   listLoading : BOOLEAN, listRefreshing : BOOLEAN, error : BOOLEAN,
   selected : Nat \cup {NoRow}, detail : Details \cup {NoRow},
   detailLoading : BOOLEAN, detailRefreshing : BOOLEAN, detailError : BOOLEAN,
   retrying : Nat \cup {NoRow}]

ListCalls ==
  [slot : {"list"}, key : Keys, background : BOOLEAN, retry : BOOLEAN, read : 0..2,
   items : SUBSET Items, total : Nat, open : BOOLEAN]
DetailCalls ==
  [slot : {"detail"}, id : Nat, background : BOOLEAN, read : 0..2,
   status : RowStatuses, log : Logs, run : Nat]
RetryCalls ==
  [slot : {"retry"}, id : Nat, key : Keys, answer : BOOLEAN, background : {FALSE}]

HistoryCalls == ListCalls \cup DetailCalls \cup RetryCalls

RowsInv(r) == r \in Seq(Executions)

\* What x, an execution or what was read of one, says has ended, has in y, unless y
\* is of a later run.
IsOver(x, y) == x.run <= y.run /\ (x.run = y.run => y.status \notin InProgress)

\* An execution comes to the next run, or if it had ended, has its logs as before.
RowGoesOn(x, y) ==
  /\ x.run \in Nat /\ y.run \in Nat /\ x.run <= y.run
  /\ x.run = y.run /\ x.status \notin InProgress =>
       y.status \notin InProgress /\ y.log = x.log

\* The page shows executions there are; what it shows as ended is over.
ViewInv(v, r) ==
  /\ v \in Views
  /\ v.selected # NoRow => v.selected \in DOMAIN r
  /\ \A e \in v.list.items : e.id \in DOMAIN r
  /\ v.detail # NoRow =>
       /\ v.detail.id \in DOMAIN r
       /\ v.detail.status \notin InProgress =>
            /\ IsOver(v.detail, r[v.detail.id])
            /\ v.detail.run = r[v.detail.id].run => v.detail.log = r[v.detail.id].log

\* A request is for what is chosen, and holds what was true when it was read.
RequestInv(c, v, r) ==
  /\ c \in HistoryCalls
  /\ c.slot = "list" =>
       /\ c.retry \/ c.key = Controls(v)
       /\ \A e \in c.items : e.id \in DOMAIN r
  /\ c.slot = "detail" =>
       /\ c.id = v.selected /\ c.id \in DOMAIN r
       /\ c.status \notin InProgress =>
            /\ c.read # 0 /\ IsOver(c, r[c.id])
            /\ c.read = 2 /\ c.run = r[c.id].run => c.log = r[c.id].log
  /\ c.slot = "retry" => c.id \in DOMAIN r

\* What is not shown yet is awaited, or its failure is.
ListAwaited(v, cs) ==
  v.list.key # Controls(v) =>
    \/ v.error \/ v.list.retry
    \/ \E c \in cs : c.slot = "list" /\ (c.retry \/ c.key = Controls(v))

DetailAwaited(v, cs) ==
  v.detail # NoRow /\ v.detail.id # v.selected =>
    \/ v.detailError
    \/ \E c \in cs : c.slot = "detail" /\ c.id = v.selected

PageInv(v, cs, r) ==
  /\ ViewInv(v, r)
  /\ \A c \in cs : RequestInv(c, v, r)
  /\ ListAwaited(v, cs) /\ DetailAwaited(v, cs)

HistoryInv ==
  /\ RowsInv(rows) /\ PageInv(view, asked, rows)
  /\ clicks \in 0..MaxClicks

-----------------------------------------------------------------------------

LEMMA NewestOf ==
  ASSUME NEW n \in Nat, NEW S \in SUBSET (1..n), S # {}
  PROVE  Max(S) \in S /\ \A i \in S : i <= Max(S)
<1> DEFINE Gaps == {n - i : i \in S}
<1>1. \A i \in S : i \in Nat /\ i <= n
  OBVIOUS
<1>2. Gaps \subseteq Nat /\ Gaps # {}
  <2>1. \A i \in S : n - i \in Nat
    BY <1>1
  <2> QED BY <2>1
<1>3. PICK g \in Gaps : \A h \in Gaps : ~ (h < g)
  <2>1. IsWellFoundedOn(OpToRel(<, Nat), Nat)
    BY NatLessThanWellFounded
  <2>2. PICK g \in Gaps : \A h \in Gaps : <<h, g>> \notin OpToRel(<, Nat)
    BY <1>2, <2>1, WFMin
  <2> QED BY <1>2, <2>2 DEF OpToRel
<1>4. PICK m \in S : g = n - m
  OBVIOUS
<1>5. \A i \in S : m >= i
  <2> SUFFICES ASSUME NEW i \in S PROVE m >= i
    OBVIOUS
  <2>1. n - i \in Gaps
    OBVIOUS
  <2>2. ~ (n - i < n - m)
    BY <1>3, <1>4, <2>1
  <2> QED BY <1>1, <2>2
<1> QED BY <1>4, <1>5 DEF Max

LEMMA FewFound ==
  ASSUME rows \in Seq(Executions), NEW key
  PROVE  Cardinality(Found(key)) \in Nat
<1>1. IsFiniteSet(DOMAIN rows)
  BY FS_Interval
<1> QED BY <1>1, FS_Subset, FS_CardinalityType DEF Found

LEMMA ControlsType == ASSUME NEW v \in Views PROVE Controls(v) \in Keys
BY DEF Views, Controls, Keys

LEMMA AskingList ==
  ASSUME NEW v \in Views, NEW b \in BOOLEAN
  PROVE  LET w == ListAsked(v, b) IN
         /\ w \in Views /\ Controls(w) = Controls(v)
         /\ w.flow = v.flow /\ w.list = v.list /\ w.selected = v.selected
         /\ w.detail = v.detail /\ w.detailError = v.detailError
         /\ w.detailLoading = v.detailLoading /\ ~ w.error
         /\ w.listLoading = (~ b \/ v.listLoading)
BY DEF ListAsked, Views, Controls

LEMMA AskingDetail ==
  ASSUME NEW v \in Views, NEW b \in BOOLEAN
  PROVE  LET w == DetailAsked(v, b) IN
         /\ w \in Views /\ Controls(w) = Controls(v)
         /\ w.flow = v.flow /\ w.list = v.list /\ w.selected = v.selected
         /\ w.detail = v.detail /\ w.error = v.error
         /\ w.listLoading = v.listLoading /\ ~ w.detailError
         /\ w.detailLoading = (~ b \/ v.detailLoading)
BY DEF DetailAsked, Views, Controls

LEMMA ListEnding ==
  ASSUME NEW v \in Views, NEW c, c.background \in BOOLEAN
  PROVE  LET w == ListEnds(v, c) IN
         /\ w \in Views /\ Controls(w) = Controls(v)
         /\ w.flow = v.flow /\ w.list = v.list /\ w.selected = v.selected
         /\ w.detail = v.detail /\ w.detailError = v.detailError
         /\ w.detailLoading = v.detailLoading /\ w.error = v.error
         /\ w.listLoading = (c.background /\ v.listLoading)
BY DEF ListEnds, Views, Controls

LEMMA DetailEnding ==
  ASSUME NEW v \in Views, NEW c, c.background \in BOOLEAN
  PROVE  LET w == DetailEnds(v, c) IN
         /\ w \in Views /\ Controls(w) = Controls(v)
         /\ w.flow = v.flow /\ w.list = v.list /\ w.selected = v.selected
         /\ w.detail = v.detail /\ w.error = v.error /\ w.detailError = v.detailError
         /\ w.listLoading = v.listLoading
         /\ w.detailLoading = (c.background /\ v.detailLoading)
BY DEF DetailEnds, Views, Controls

LEMMA ListCallType ==
  ASSUME NEW key \in Keys, NEW b \in BOOLEAN, NEW again \in BOOLEAN
  PROVE  LET c == ListCall(key, b, again) IN
         /\ c \in HistoryCalls /\ c.slot = "list" /\ c.key = key /\ c.retry = again
         /\ c.background = b /\ c.items = {}
BY DEF ListCall, HistoryCalls, ListCalls

LEMMA DetailCallType ==
  ASSUME NEW i \in Nat, NEW b \in BOOLEAN
  PROVE  LET c == DetailCall(i, b) IN
         /\ c \in HistoryCalls /\ c.slot = "detail" /\ c.id = i
         /\ c.background = b /\ c.status = "IN_PROGRESS"
BY DEF DetailCall, HistoryCalls, DetailCalls, RowStatuses, Logs

LEMMA OneSlot ==
  ASSUME NEW c \in HistoryCalls
  PROVE  /\ c.background \in BOOLEAN
         /\ c.slot \in {"list", "detail", "retry"}
         /\ c.slot = "list" => c \in ListCalls
         /\ c.slot = "detail" => c \in DetailCalls
         /\ c.slot = "retry" => c \in RetryCalls
BY DEF HistoryCalls, ListCalls, DetailCalls, RetryCalls

LEMMA SameRequest ==
  ASSUME NEW c, NEW v, NEW w, NEW r, RequestInv(c, v, r),
         c.slot = "list" => Controls(w) = Controls(v),
         c.slot = "detail" => w.selected = v.selected
  PROVE  RequestInv(c, w, r)
BY DEF RequestInv

LEMMA ListIsAsked ==
  ASSUME NEW v, NEW cs, NEW r, NEW key \in Keys, NEW b \in BOOLEAN, NEW again \in BOOLEAN,
         ViewInv(v, r), DetailAwaited(v, cs), again \/ key = Controls(v),
         \A c \in cs : c.slot # "list" => RequestInv(c, v, r)
  PROVE  PageInv(ListAsked(v, b), Supersede(cs, ListCall(key, b, again)), r)
<1> DEFINE w == ListAsked(v, b)  new == ListCall(key, b, again)
           left == Supersede(cs, new)
<1>1. v \in Views
  BY DEF ViewInv
<1>2. /\ w \in Views /\ Controls(w) = Controls(v) /\ w.list = v.list
      /\ w.selected = v.selected /\ w.detail = v.detail
      /\ w.detailError = v.detailError
  BY <1>1, AskingList
<1>3. /\ new \in HistoryCalls /\ new.slot = "list" /\ new.key = key
      /\ new.retry = again /\ new.items = {}
  BY ListCallType
<1>4. left = {c \in cs : c.slot # "list"} \cup {new}
  BY <1>3 DEF Supersede
<1> HIDE DEF w, new, left
<1>5. ViewInv(w, r)
  BY <1>2 DEF ViewInv
<1>6. RequestInv(new, w, r)
  BY <1>2, <1>3 DEF RequestInv
<1>7. \A c \in cs : c.slot # "list" => RequestInv(c, w, r)
  BY <1>2, SameRequest
<1>8. ListAwaited(w, left)
  BY <1>2, <1>3, <1>4 DEF ListAwaited
<1>9. DetailAwaited(w, left)
  BY <1>2, <1>4 DEF DetailAwaited
<1> QED BY <1>4, <1>5, <1>6, <1>7, <1>8, <1>9 DEF PageInv, w, new, left

LEMMA DetailIsAsked ==
  ASSUME NEW v, NEW cs, NEW r, NEW b \in BOOLEAN, RowsInv(r),
         ViewInv(v, r), v.selected # NoRow, ListAwaited(v, cs),
         \A c \in cs : c.slot # "detail" => RequestInv(c, v, r)
  PROVE  PageInv(DetailAsked(v, b), Supersede(cs, DetailCall(v.selected, b)), r)
<1> DEFINE w == DetailAsked(v, b)  new == DetailCall(v.selected, b)
           left == Supersede(cs, new)
<1>1. v \in Views /\ v.selected \in Nat /\ v.selected \in DOMAIN r
  BY DEF ViewInv, RowsInv
<1>2. /\ w \in Views /\ Controls(w) = Controls(v) /\ w.list = v.list
      /\ w.selected = v.selected /\ w.detail = v.detail /\ w.error = v.error
  BY <1>1, AskingDetail
<1>3. /\ new \in HistoryCalls /\ new.slot = "detail" /\ new.id = v.selected
      /\ new.status = "IN_PROGRESS"
  BY <1>1, DetailCallType
<1>4. left = {c \in cs : c.slot # "detail"} \cup {new}
  BY <1>3 DEF Supersede
<1> HIDE DEF w, new, left
<1>5. ViewInv(w, r)
  BY <1>2 DEF ViewInv
<1>6. RequestInv(new, w, r)
  BY <1>1, <1>2, <1>3 DEF RequestInv, InProgress
<1>7. \A c \in cs : c.slot # "detail" => RequestInv(c, w, r)
  BY <1>2, SameRequest
<1>8. ListAwaited(w, left)
  BY <1>2, <1>4 DEF ListAwaited
<1>9. DetailAwaited(w, left)
  BY <1>2, <1>3, <1>4 DEF DetailAwaited
<1> QED BY <1>4, <1>5, <1>6, <1>7, <1>8, <1>9 DEF PageInv, w, new, left

\* What another selection leaves as it is.
LEMMA SelectingKeeps ==
  ASSUME NEW v \in Views, NEW cs, NEW i \in Nat \cup {NoRow}, Selecting(v, cs, i)
  PROVE  /\ view'.listLoading = v.listLoading
         /\ \A c \in cs : c.slot # "detail" => c \in asked'
         /\ view'.detailLoading =>
              \/ v.detailLoading /\ asked' = cs
              \/ Fetching("detail", FALSE)'
<1> DEFINE chosen == [v EXCEPT !.selected = i]
<1>0. /\ chosen \in Views /\ chosen.listLoading = v.listLoading
  BY DEF Views
<1>1. CASE i = v.selected
  BY <1>1 DEF Selecting
<1>2. CASE i # v.selected /\ i = NoRow
  BY <1>2 DEF Selecting, Views
<1>3. CASE i # v.selected /\ i # NoRow
  <2>1. view' = DetailAsked(chosen, FALSE) /\ asked' = Supersede(cs, DetailCall(i, FALSE))
    BY <1>3 DEF Selecting
  <2>2. view'.listLoading = v.listLoading
    BY <1>0, <2>1, AskingDetail
  <2>3. DetailCall(i, FALSE).slot = "detail" /\ DetailCall(i, FALSE).background = FALSE
    BY <1>3, DetailCallType
  <2>4. asked' = {c \in cs : c.slot # "detail"} \cup {DetailCall(i, FALSE)}
    BY <2>1, <2>3 DEF Supersede
  <2> QED BY <2>2, <2>3, <2>4 DEF Fetching
<1> QED BY <1>1, <1>2, <1>3

LEMMA IsSelected ==
  ASSUME NEW v, NEW cs, NEW r, NEW i, i # NoRow => i \in DOMAIN r,
         RowsInv(r), PageInv(v, cs, r), Selecting(v, cs, i)
  PROVE  PageInv(view', asked', r)
<1>0. /\ ViewInv(v, r) /\ v \in Views /\ ListAwaited(v, cs) /\ DetailAwaited(v, cs)
      /\ \A c \in cs : RequestInv(c, v, r)
      /\ i \in Nat \cup {NoRow}
  BY DEF PageInv, ViewInv, RowsInv
<1>1. CASE i = v.selected
  BY <1>1 DEF Selecting
<1>2. CASE i # v.selected /\ i = NoRow
  <2> DEFINE w == [v EXCEPT !.selected = i, !.detail = NoRow,
                            !.detailLoading = FALSE, !.detailRefreshing = FALSE,
                            !.detailError = FALSE]
             left == {c \in cs : c.slot # "detail"}
  <2>1. view' = w /\ asked' = left
    BY <1>2 DEF Selecting
  <2>2. /\ w \in Views /\ Controls(w) = Controls(v) /\ w.list = v.list /\ w.selected = NoRow
        /\ w.detail = NoRow /\ w.error = v.error
    BY <1>0, <1>2 DEF Views, Controls
  <2>9. \A c \in left : c \in cs /\ c.slot # "detail"
    OBVIOUS
  <2>8. \A c \in cs : c.slot = "list" => c \in left
    OBVIOUS
  <2> HIDE DEF w, left
  <2>3. ViewInv(w, r)
    BY <1>0, <2>2 DEF ViewInv
  <2>4. \A c \in left : RequestInv(c, w, r)
    BY <1>0, <2>2, <2>9, SameRequest
  <2>5. ListAwaited(w, left) /\ DetailAwaited(w, left)
    BY <1>0, <2>2, <2>8 DEF ListAwaited, DetailAwaited
  <2> QED BY <2>1, <2>3, <2>4, <2>5 DEF PageInv
<1>3. CASE i # v.selected /\ i # NoRow
  <2> DEFINE w == [v EXCEPT !.selected = i]
  <2>1. view' = DetailAsked(w, FALSE) /\ asked' = Supersede(cs, DetailCall(i, FALSE))
    BY <1>3 DEF Selecting
  <2>2. /\ w \in Views /\ Controls(w) = Controls(v) /\ w.list = v.list /\ w.selected = i
        /\ w.detail = v.detail /\ w.error = v.error
    BY <1>0 DEF Views, Controls
  <2> HIDE DEF w
  <2>3. ViewInv(w, r)
    BY <1>0, <1>3, <2>2 DEF ViewInv
  <2>4. \A c \in cs : c.slot # "detail" => RequestInv(c, w, r)
    BY <1>0, <2>2, SameRequest
  <2>5. ListAwaited(w, cs)
    BY <1>0, <2>2 DEF ListAwaited
  <2> QED BY <1>3, <2>1, <2>2, <2>3, <2>4, <2>5, DetailIsAsked
<1> QED BY <1>1, <1>2, <1>3

-----------------------------------------------------------------------------

\* What was read of an execution stays true of it as it goes on.
LEMMA StillOver ==
  ASSUME NEW d, NEW x, NEW y, d.run \in Nat, RowGoesOn(x, y), IsOver(d, x)
  PROVE  IsOver(d, y) /\ (d.run = y.run => x.run = y.run /\ y.log = x.log)
BY DEF RowGoesOn, IsOver

LEMMA RowsGoOn ==
  ASSUME NEW v, NEW cs, NEW r, NEW r2, PageInv(v, cs, r),
         \A i \in DOMAIN r : i \in DOMAIN r2 /\ RowGoesOn(r[i], r2[i])
  PROVE  PageInv(v, cs, r2)
<1>1. ViewInv(v, r2)
  <2>1. ViewInv(v, r)
    BY DEF PageInv
  <2>2. ASSUME v.detail # NoRow, v.detail.status \notin InProgress
        PROVE  /\ IsOver(v.detail, r2[v.detail.id])
               /\ v.detail.run = r2[v.detail.id].run => v.detail.log = r2[v.detail.id].log
    <3> DEFINE d == v.detail  x == r[v.detail.id]  y == r2[v.detail.id]
    <3>1. d.run \in Nat /\ RowGoesOn(x, y) /\ IsOver(d, x) /\ (d.run = x.run => d.log = x.log)
      BY <2>1, <2>2 DEF ViewInv, Views, Details
    <3> HIDE DEF d, x, y
    <3>2. IsOver(d, y) /\ (d.run = y.run => d.log = y.log)
      BY <3>1, StillOver
    <3> QED BY <3>2 DEF d, y
  <2> QED BY <2>1, <2>2 DEF ViewInv
<1>2. ASSUME NEW c \in cs PROVE RequestInv(c, v, r2)
  <2>1. RequestInv(c, v, r)
    BY DEF PageInv
  <2>2. ASSUME c.slot = "detail", c.status \notin InProgress
        PROVE  /\ IsOver(c, r2[c.id])
               /\ c.read = 2 /\ c.run = r2[c.id].run => c.log = r2[c.id].log
    <3> DEFINE x == r[c.id]  y == r2[c.id]
    <3>1. c.run \in Nat
      BY <2>1, <2>2, OneSlot DEF RequestInv, DetailCalls
    <3>2. /\ RowGoesOn(x, y) /\ IsOver(c, x)
          /\ c.read = 2 /\ c.run = x.run => c.log = x.log
      BY <2>1, <2>2 DEF RequestInv
    <3> HIDE DEF x, y
    <3>3. IsOver(c, y) /\ (c.read = 2 /\ c.run = y.run => c.log = y.log)
      BY <3>1, <3>2, StillOver
    <3> QED BY <3>3 DEF y
  <2> QED BY <2>1, <2>2 DEF RequestInv
<1> QED BY <1>1, <1>2 DEF PageInv

LEMMA RowIsExecution ==
  ASSUME NEW r, RowsInv(r), NEW i \in DOMAIN r
  PROVE  /\ r[i] \in Executions /\ r[i].status \in RowStatuses
         /\ r[i].log \in Logs /\ r[i].run \in Nat
<1>1. r[i] \in Executions
  BY DEF RowsInv
<1> QED BY <1>1 DEF Executions

LEMMA RowChanged ==
  ASSUME RowsInv(rows), NEW i \in DOMAIN rows, NEW row \in Executions, RowGoesOn(rows[i], row),
         rows' = [rows EXCEPT ![i] = row]
  PROVE  /\ RowsInv(rows')
         /\ \A j \in DOMAIN rows : j \in DOMAIN rows' /\ RowGoesOn(rows[j], rows'[j])
<1>1. rows' \in Seq(Executions) /\ DOMAIN rows' = DOMAIN rows
  BY DEF RowsInv
<1>2. \A j \in DOMAIN rows : rows'[j] = IF j = i THEN row ELSE rows[j]
  BY DEF RowsInv
<1>3. ASSUME NEW j \in DOMAIN rows PROVE RowGoesOn(rows[j], rows[j])
  <2>1. rows[j].run \in Nat
    BY RowIsExecution
  <2> QED BY <2>1 DEF RowGoesOn
<1> QED BY <1>1, <1>2, <1>3 DEF RowsInv

LEMMA RowAdded ==
  ASSUME RowsInv(rows), NEW w \in Flows, rows' = Append(rows, NewRow(w))
  PROVE  /\ RowsInv(rows')
         /\ \A j \in DOMAIN rows : j \in DOMAIN rows' /\ RowGoesOn(rows[j], rows'[j])
<1>1. NewRow(w) \in Executions
  BY DEF NewRow, Executions, RowStatuses, Logs
<1>2. /\ rows' \in Seq(Executions) /\ DOMAIN rows' = 1..(Len(rows) + 1)
      /\ DOMAIN rows = 1..Len(rows) /\ Len(rows) \in Nat
      /\ \A j \in 1..(Len(rows) + 1) :
           rows'[j] = IF j = Len(rows) + 1 THEN NewRow(w) ELSE rows[j]
  BY <1>1 DEF RowsInv
<1>3. ASSUME NEW j \in DOMAIN rows PROVE RowGoesOn(rows[j], rows[j])
  <2>1. rows[j].run \in Nat
    BY RowIsExecution
  <2> QED BY <2>1 DEF RowGoesOn
<1>4. \A j \in DOMAIN rows : j \in DOMAIN rows' /\ rows'[j] = rows[j]
  BY <1>2
<1> QED BY <1>2, <1>3, <1>4 DEF RowsInv

LEMMA HistoryBegins == ListInit => HistoryInv
<1> SUFFICES ASSUME ListInit PROVE HistoryInv
  OBVIOUS
<1> USE DEF ListInit
<1>1. PICK flow \in Sides :
        LET key == <<1, "ALL", flow>> IN
        /\ view = [flow |-> flow, page |-> 1, filter |-> "ALL",
                   list |-> EmptyList(key), listLoading |-> TRUE,
                   listRefreshing |-> FALSE, error |-> FALSE, selected |-> NoRow,
                   detail |-> NoRow, detailLoading |-> FALSE,
                   detailRefreshing |-> FALSE, detailError |-> FALSE,
                   retrying |-> NoRow]
        /\ asked = {ListCall(key, FALSE, FALSE)}
  BY DEF Sides
<1> DEFINE key == <<1, "ALL", flow>>
<1>2. key \in Keys
  BY PagesAssumption DEF Keys
<1>3. EmptyList(key) \in Lists /\ EmptyList(key).items = {} /\ EmptyList(key).key = key
  BY <1>2 DEF EmptyList, Lists
<1>4. view \in Views /\ Controls(view) = key /\ view.list = EmptyList(key)
  BY <1>1, <1>3, PagesAssumption DEF Views, Controls
<1>5. ViewInv(view, rows)
  BY <1>1, <1>3, <1>4 DEF ViewInv
<1>6. \A c \in asked : RequestInv(c, view, rows)
  <2> SUFFICES ASSUME NEW c \in asked PROVE RequestInv(c, view, rows)
    OBVIOUS
  <2>1. c = ListCall(key, FALSE, FALSE)
    BY <1>1
  <2>2. c \in HistoryCalls /\ c.slot = "list" /\ c.key = key /\ c.items = {}
    BY <1>2, <2>1, ListCallType
  <2> QED BY <1>4, <2>2 DEF RequestInv
<1>7. ListAwaited(view, asked) /\ DetailAwaited(view, asked)
  BY <1>1, <1>3, <1>4 DEF ListAwaited, DetailAwaited
<1>8. RowsInv(rows)
  BY DEF RowsInv
<1>9. clicks \in 0..MaxClicks
  BY PagesAssumption
<1> QED BY <1>5, <1>6, <1>7, <1>8, <1>9 DEF HistoryInv, PageInv

LEMMA Clicked == ASSUME HistoryInv, Click PROVE clicks' \in 0..MaxClicks
BY PagesAssumption DEF HistoryInv, Click

-----------------------------------------------------------------------------
(* The worker's steps. *)

LEMMA RowsStepInv ==
  ASSUME HistoryInv, WorkerStep
  PROVE  HistoryInv'
<1>0. RowsInv(rows) /\ PageInv(view, asked, rows)
  BY DEF HistoryInv
<1>1. ASSUME NEW i \in DOMAIN rows, NEW row \in Executions, RowGoesOn(rows[i], row),
             rows' = [rows EXCEPT ![i] = row], UNCHANGED <<view, asked>>,
             clicks' \in 0..MaxClicks
      PROVE  HistoryInv'
  <2>1. RowsInv(rows') /\ PageInv(view, asked, rows')
    BY <1>0, <1>1, RowChanged, RowsGoOn
  <2> QED BY <1>1, <2>1 DEF HistoryInv
<1>2. ASSUME NEW i \in DOMAIN rows
      PROVE  /\ rows[i].status \in RowStatuses /\ rows[i].log \in Logs /\ rows[i].run \in Nat
             /\ rows[i] \in Executions
  BY <1>0, RowIsExecution
<1>7. ASSUME NEW i \in DOMAIN rows,
             (\E s \in {"SUCCESS", "FAILED"} : EndRow(i, s)) \/ EndRowUnclosed(i)
               \/ EndIsDoubted(i) \/ WorkOn(i) \/ Redelivered(i)
      PROVE  \E row \in Executions :
               RowGoesOn(rows[i], row) /\ rows' = [rows EXCEPT ![i] = row]
  <2> DEFINE x == rows[i]
  <2>1. x.status \in RowStatuses /\ x.log \in Logs /\ x.run \in Nat /\ x \in Executions
    BY <1>2
  <2>2. ASSUME NEW s \in {"SUCCESS", "FAILED"}, EndRow(i, s) \/ (s = "FAILED" /\
                 (EndRowUnclosed(i) \/ EndIsDoubted(i)))
        PROVE  \E row \in Executions : RowGoesOn(x, row) /\ rows' = [rows EXCEPT ![i] = row]
    <3> DEFINE row == [x EXCEPT !.status = s]
    <3>1. rows' = [rows EXCEPT ![i] = row]
      BY <2>2 DEF EndRow, EndRowUnclosed, EndIsDoubted
    <3>2. s \in RowStatuses /\ s \notin InProgress
      BY DEF RowStatuses, InProgress
    <3> HIDE DEF x
    <3>3. row \in Executions /\ row.status = s /\ row.log = x.log /\ row.run = x.run
      BY <2>1, <3>2 DEF Executions
    <3> HIDE DEF row
    <3>4. RowGoesOn(x, row)
      BY <2>1, <3>2, <3>3 DEF RowGoesOn
    <3> QED BY <3>1, <3>3, <3>4
  <2>3. ASSUME WorkOn(i)
        PROVE  \E row \in Executions : RowGoesOn(x, row) /\ rows' = [rows EXCEPT ![i] = row]
    <3> DEFINE l == IF x.log = "open" THEN "closed" ELSE "open"  row == [x EXCEPT !.log = l]
    <3>1. rows' = [rows EXCEPT ![i] = row] /\ x.status \in InProgress
      BY <2>3 DEF WorkOn
    <3>2. l \in Logs
      BY DEF Logs
    <3> HIDE DEF x, l
    <3>3. row \in Executions /\ row.run = x.run
      BY <2>1, <3>2 DEF Executions
    <3> HIDE DEF row
    <3>4. RowGoesOn(x, row)
      BY <2>1, <3>1, <3>3 DEF RowGoesOn
    <3> QED BY <3>1, <3>3, <3>4
  <2>4. ASSUME Redelivered(i)
        PROVE  \E row \in Executions : RowGoesOn(x, row) /\ rows' = [rows EXCEPT ![i] = row]
    <3> DEFINE n == x.run + 1  s == "IN_PROGRESS"  row == [x EXCEPT !.status = s, !.run = n]
    <3>1. rows' = [rows EXCEPT ![i] = row]
      BY <2>4 DEF Redelivered
    <3>2. n \in Nat /\ x.run <= n /\ n # x.run /\ s \in RowStatuses
      BY <2>1 DEF RowStatuses
    <3> HIDE DEF x, n, s
    <3>3. row \in Executions /\ row.run = n
      BY <2>1, <3>2 DEF Executions
    <3> HIDE DEF row
    <3>4. RowGoesOn(x, row)
      BY <2>1, <3>2, <3>3 DEF RowGoesOn
    <3> QED BY <3>1, <3>3, <3>4
  <2> QED BY <1>7, <2>2, <2>3, <2>4
<1>8. ASSUME NEW i \in DOMAIN rows,
             (\E s \in {"SUCCESS", "FAILED"} : EndRow(i, s)) \/ EndRowUnclosed(i)
               \/ EndIsDoubted(i) \/ WorkOn(i) \/ Redelivered(i)
      PROVE  HistoryInv'
  <2>1. UNCHANGED <<view, asked>>
    BY <1>8 DEF EndRow, EndRowUnclosed, EndIsDoubted, WorkOn, Redelivered
  <2>2. clicks' \in 0..MaxClicks
    <3>1. clicks \in 0..MaxClicks /\ MaxClicks \in Nat /\ RunCost \in Nat
      BY PagesAssumption DEF HistoryInv
    <3>2. clicks' = clicks \/ Click \/ (clicks + RunCost <= MaxClicks /\ clicks' = clicks + RunCost)
      BY <1>8 DEF EndRow, EndRowUnclosed, EndIsDoubted, WorkOn, Redelivered
    <3> QED BY <3>1, <3>2 DEF Click
  <2>3. PICK row \in Executions : RowGoesOn(rows[i], row) /\ rows' = [rows EXCEPT ![i] = row]
    BY <1>7, <1>8
  <2> QED BY <1>1, <2>1, <2>2, <2>3
<1>3. ASSUME NEW w \in Flows, Started(w) PROVE HistoryInv'
  <2>1. RowsInv(rows') /\ PageInv(view, asked, rows')
    BY <1>0, <1>3, RowAdded, RowsGoOn DEF Started
  <2> QED BY <1>3, <2>1 DEF HistoryInv, Started
<1> QED BY <1>3, <1>8 DEF WorkerStep

-----------------------------------------------------------------------------
(* The user's. *)

\* Another page or filter: the list is asked for under the new key.
LEMMA LoadForInv ==
  ASSUME HistoryInv, NEW v \in Views, LoadFor(v),
         v.flow = view.flow, v.list = view.list, v.selected = view.selected,
         v.detail = view.detail, v.detailError = view.detailError
  PROVE  HistoryInv'
<1>0. RowsInv(rows) /\ PageInv(view, asked, rows)
  BY DEF HistoryInv
<1>1. ViewInv(v, rows) /\ DetailAwaited(v, asked)
  BY <1>0 DEF PageInv, ViewInv, DetailAwaited
<1>2. \A c \in asked : c.slot # "list" => RequestInv(c, v, rows)
  <2> SUFFICES ASSUME NEW c \in asked, c.slot # "list" PROVE RequestInv(c, v, rows)
    OBVIOUS
  <2>1. RequestInv(c, view, rows)
    BY <1>0 DEF PageInv
  <2> QED BY <2>1, SameRequest
<1>3. Controls(v) \in Keys
  BY ControlsType
<1>4. PageInv(view', asked', rows)
  BY <1>1, <1>2, <1>3, ListIsAsked DEF LoadFor
<1> QED BY <1>0, <1>4, Clicked DEF HistoryInv, LoadFor

LEMMA OtherPage ==
  ASSUME NEW u \in Views, NEW n \in Nat \ {0}
  PROVE  LET v == [u EXCEPT !.page = n] IN
         /\ v \in Views /\ v.flow = u.flow /\ v.list = u.list
         /\ v.selected = u.selected /\ v.detail = u.detail
         /\ v.detailError = u.detailError /\ v.detailLoading = u.detailLoading
BY DEF Views

LEMMA OtherFilter ==
  ASSUME NEW u \in Views, NEW f \in Filters
  PROVE  LET v == [u EXCEPT !.filter = f, !.page = 1] IN
         /\ v \in Views /\ v.flow = u.flow /\ v.list = u.list
         /\ v.selected = u.selected /\ v.detail = u.detail
         /\ v.detailError = u.detailError /\ v.detailLoading = u.detailLoading
<1> DEFINE w == [u EXCEPT !.filter = f]
<1>1. /\ w \in Views /\ w.flow = u.flow /\ w.list = u.list
      /\ w.selected = u.selected /\ w.detail = u.detail
      /\ w.detailError = u.detailError /\ w.detailLoading = u.detailLoading
  BY DEF Views
<1>2. [u EXCEPT !.filter = f, !.page = 1] = [w EXCEPT !.page = 1]
  OBVIOUS
<1>3. 1 \in Nat \ {0}
  OBVIOUS
<1> DEFINE v == [w EXCEPT !.page = 1]
<1>4. /\ v \in Views /\ v.flow = w.flow /\ v.list = w.list
      /\ v.selected = w.selected /\ v.detail = w.detail
      /\ v.detailError = w.detailError /\ v.detailLoading = w.detailLoading
  <2> HIDE DEF w
  <2> QED BY <1>1, <1>3, OtherPage, Zenon
<1> QED BY <1>1, <1>2, <1>4, Zenon

LEMMA PageTurned ==
  ASSUME HistoryInv, NEW step \in {"next", "previous"}, onPageChange(step)
  PROVE  \E n \in Nat \ {0} : LoadFor([view EXCEPT !.page = n])
<1> DEFINE from == IF view.flow = "all" THEN view.page ELSE view.list.key[1]
<1>0. view \in Views
  BY DEF HistoryInv, PageInv, ViewInv
<1>1. from \in Nat \ {0}
  BY <1>0 DEF Views, Lists, Keys
<1>2. CASE step = "next"
  <2>1. from + 1 \in Nat \ {0}
    BY <1>1
  <2>2. LoadFor([view EXCEPT !.page = from + 1])
    BY <1>2 DEF onPageChange
  <2> QED BY <2>1, <2>2
<1>3. CASE step = "previous"
  <2>1. from - 1 \in Nat \ {0}
    BY <1>1, <1>3 DEF onPageChange
  <2>2. LoadFor([view EXCEPT !.page = from - 1])
    BY <1>3 DEF onPageChange
  <2> QED BY <2>1, <2>2
<1> QED BY <1>2, <1>3

LEMMA PageChangeInv ==
  ASSUME HistoryInv, NEW step \in {"next", "previous"}, onPageChange(step)
  PROVE  HistoryInv'
<1>0. view \in Views
  BY DEF HistoryInv, PageInv, ViewInv
<1>2. PICK n \in Nat \ {0} : LoadFor([view EXCEPT !.page = n])
  BY PageTurned
<1> DEFINE v == [view EXCEPT !.page = n]
<1>3. /\ v \in Views /\ v.flow = view.flow /\ v.list = view.list
      /\ v.selected = view.selected /\ v.detail = view.detail
      /\ v.detailError = view.detailError
  BY <1>0, <1>2, OtherPage, Zenon
<1>4. LoadFor(v)
  BY <1>2
<1> HIDE DEF v
<1> QED BY <1>3, <1>4, LoadForInv

LEMMA FilterChangeInv ==
  ASSUME HistoryInv, NEW f \in Filters, handleStatusFilterChange(f)
  PROVE  HistoryInv'
<1> DEFINE v == [view EXCEPT !.filter = f, !.page = 1]
<1>0. view \in Views
  BY DEF HistoryInv, PageInv, ViewInv
<1>1. /\ v \in Views /\ v.flow = view.flow /\ v.list = view.list
      /\ v.selected = view.selected /\ v.detail = view.detail
      /\ v.detailError = view.detailError
  BY <1>0, OtherFilter, Zenon
<1>2. LoadFor(v)
  BY DEF handleStatusFilterChange
<1> HIDE DEF v
<1> QED BY <1>1, <1>2, LoadForInv

LEMMA SelectInv ==
  ASSUME HistoryInv, NEW i \in DOMAIN rows, handleSelectExecution(i)
  PROVE  HistoryInv'
<1>0. RowsInv(rows) /\ PageInv(view, asked, rows) /\ i \in Nat
  BY DEF HistoryInv, RowsInv
<1>1. rows' = rows /\ clicks' \in 0..MaxClicks
  BY Clicked DEF handleSelectExecution
<1>2. CASE i = view.selected /\ i # NoRow
  <2>1. view' = DetailAsked(view, TRUE) /\ asked' = Supersede(asked, DetailCall(i, TRUE))
    BY <1>2 DEF handleSelectExecution
  <2>2. PageInv(view', asked', rows)
    BY <1>0, <1>2, <2>1, DetailIsAsked DEF PageInv
  <2> QED BY <1>0, <1>1, <2>2 DEF HistoryInv
<1>3. CASE i # view.selected
  <2>1. PageInv(view', asked', rows)
    BY <1>0, <1>3, IsSelected DEF handleSelectExecution
  <2> QED BY <1>0, <1>1, <2>1 DEF HistoryInv
<1> QED BY <1>0, <1>2, <1>3, PagesAssumption

LEMMA RetryInv ==
  ASSUME HistoryInv, NEW i \in DOMAIN rows, handleRetryConfirm(i)
  PROVE  HistoryInv'
<1> DEFINE v == [view EXCEPT !.retrying = i]
           new == [slot |-> "retry", id |-> i, key |-> Controls(view),
                   answer |-> FALSE, background |-> FALSE]
<1>0. RowsInv(rows) /\ PageInv(view, asked, rows) /\ i \in Nat /\ view \in Views
  BY DEF HistoryInv, RowsInv, PageInv, ViewInv
<1>1. /\ v \in Views /\ Controls(v) = Controls(view) /\ v.list = view.list
      /\ v.selected = view.selected /\ v.detail = view.detail
      /\ v.detailError = view.detailError /\ v.error = view.error
  BY <1>0 DEF Views, Controls
<1>2. RequestInv(new, v, rows)
  BY <1>0, ControlsType DEF RequestInv, HistoryCalls, RetryCalls
<1>3. view' = v /\ asked' = asked \cup {new}
  BY DEF handleRetryConfirm
<1> HIDE DEF v, new
<1>4. \A c \in asked : RequestInv(c, v, rows)
  BY <1>0, <1>1, SameRequest DEF PageInv
<1>5. ViewInv(v, rows)
  BY <1>0, <1>1 DEF PageInv, ViewInv
<1>6. ListAwaited(v, asked') /\ DetailAwaited(v, asked')
  BY <1>0, <1>1, <1>3 DEF PageInv, ListAwaited, DetailAwaited
<1>7. PageInv(view', asked', rows)
  BY <1>2, <1>3, <1>4, <1>5, <1>6 DEF PageInv
<1> QED BY <1>0, <1>7, Clicked DEF HistoryInv, handleRetryConfirm

LEMMA PollInv == ASSUME HistoryInv, Poll PROVE HistoryInv'
<1> DEFINE key == Controls(view)
           list == Supersede(asked, ListCall(key, TRUE, FALSE))
           listed == ListAsked(view, TRUE)
<1>0. RowsInv(rows) /\ PageInv(view, asked, rows) /\ view \in Views
  BY DEF HistoryInv, PageInv, ViewInv
<1>1. PageInv(listed, list, rows)
  BY <1>0, ControlsType, ListIsAsked DEF PageInv
<1>2. listed.selected = view.selected
  BY <1>0, AskingList
<1> HIDE DEF listed, list
<1>3. CASE selectedExecutionInProgress(view)
  <2>1. /\ view' = DetailAsked(listed, TRUE)
        /\ asked' = Supersede(list, DetailCall(listed.selected, TRUE))
    BY <1>2, <1>3 DEF Poll, listed, list
  <2>2. listed.selected # NoRow
    BY <1>2, <1>3 DEF selectedExecutionInProgress
  <2>3. PageInv(view', asked', rows)
    BY <1>0, <1>1, <2>1, <2>2, DetailIsAsked DEF PageInv
  <2> QED BY <1>0, <2>3 DEF HistoryInv, Poll
<1>4. CASE ~ selectedExecutionInProgress(view)
  BY <1>0, <1>1, <1>4 DEF HistoryInv, Poll, listed, list
<1> QED BY <1>3, <1>4

-----------------------------------------------------------------------------
(* The api's steps. *)

LEMMA AskedIsKnown ==
  ASSUME HistoryInv, NEW c \in asked
  PROVE  /\ RowsInv(rows) /\ PageInv(view, asked, rows) /\ view \in Views
         /\ RequestInv(c, view, rows) /\ c \in HistoryCalls
BY DEF HistoryInv, PageInv, ViewInv, RequestInv

LEMMA ReadOn ==
  ASSUME NEW v, NEW cs, NEW r, NEW c \in cs, NEW n, PageInv(v, cs, r),
         RequestInv(n, v, r), n.slot = c.slot,
         c.slot = "list" => n.key = c.key /\ n.retry = c.retry,
         c.slot = "detail" => n.id = c.id
  PROVE  PageInv(v, (cs \ {c}) \cup {n}, r)
<1> DEFINE left == (cs \ {c}) \cup {n}
<1>1. \A d \in left : RequestInv(d, v, r)
  BY DEF PageInv
<1>2. \A d \in cs : d \in left \/ d = c
  OBVIOUS
<1>3. n \in left
  OBVIOUS
<1> HIDE DEF left
<1>4. ListAwaited(v, left)
  BY <1>2, <1>3 DEF PageInv, ListAwaited
<1>5. DetailAwaited(v, left)
  BY <1>2, <1>3 DEF PageInv, DetailAwaited
<1> QED BY <1>1, <1>4, <1>5 DEF PageInv, left

LEMMA ListReadInv ==
  ASSUME HistoryInv, NEW c \in asked, getExecutions(c)
  PROVE  HistoryInv'
<1>0. /\ RowsInv(rows) /\ PageInv(view, asked, rows)
      /\ RequestInv(c, view, rows) /\ c \in ListCalls /\ c.slot = "list"
  BY AskedIsKnown, OneSlot DEF getExecutions
<1>1. PICK n : /\ asked' = (asked \ {c}) \cup {n}
               /\ n \in ListCalls /\ n.key = c.key /\ n.retry = c.retry
               /\ \A e \in n.items : e.id \in DOMAIN rows
  <2>1. CASE c.read = 0
    <3> DEFINE total == Cardinality(Found(c.key))
               items == {[id |-> i, status |-> rows[i].status] :
                           i \in PageOf(Found(c.key), c.key[1])}
               d == [c EXCEPT !.total = total, !.items = items]
               n == [d EXCEPT !.read = c.read + 1]
    <3>1. total \in Nat
      BY <1>0, FewFound DEF RowsInv
    <3>2. PageOf(Found(c.key), c.key[1]) \subseteq DOMAIN rows
      BY DEF PageOf, Found
    <3>3. /\ items \in SUBSET Items
          /\ \A e \in items : e.id \in DOMAIN rows
      <4>1. \A i \in DOMAIN rows : i \in Nat /\ rows[i] \in Executions
        BY <1>0 DEF RowsInv
      <4>2. \A i \in DOMAIN rows : [id |-> i, status |-> rows[i].status] \in Items
        BY <4>1 DEF Items, Executions
      <4> QED BY <3>2, <4>2
    <3>4. asked' = (asked \ {c}) \cup {n}
      <4>1. Reads(c, d)
        BY <2>1 DEF getExecutions
      <4> QED BY <4>1 DEF Reads
    <3> HIDE DEF total, items
    <3>5. /\ d \in ListCalls /\ d.key = c.key /\ d.retry = c.retry /\ d.items = items
      BY <1>0, <3>1, <3>3 DEF ListCalls
    <3>6. /\ n \in ListCalls /\ n.key = d.key /\ n.retry = d.retry
          /\ n.items = d.items
      <4> HIDE DEF d
      <4> QED BY <2>1, <3>5 DEF ListCalls
    <3> HIDE DEF n
    <3> QED BY <3>3, <3>4, <3>5, <3>6
  <2>2. CASE c.read = 1
    <3> DEFINE some == \E i \in DOMAIN rows :
                         Of(i, c.key[3]) /\ rows[i].status \in InProgress
               d == [c EXCEPT !.open = some]
               n == [d EXCEPT !.read = c.read + 1]
    <3>1. asked' = (asked \ {c}) \cup {n}
      <4>1. Reads(c, d)
        BY <2>2 DEF getExecutions
      <4> QED BY <4>1 DEF Reads
    <3>2. some \in BOOLEAN
      OBVIOUS
    <3> HIDE DEF some
    <3>3. d \in ListCalls /\ d.key = c.key /\ d.retry = c.retry /\ d.items = c.items
      BY <1>0, <3>2 DEF ListCalls
    <3>4. /\ n \in ListCalls /\ n.key = d.key /\ n.retry = d.retry
          /\ n.items = d.items
      <4> HIDE DEF d
      <4> QED BY <2>2, <3>3 DEF ListCalls
    <3> HIDE DEF n
    <3> QED BY <1>0, <3>1, <3>3, <3>4 DEF RequestInv
  <2>3. c.read \in {0, 1}
    BY DEF getExecutions
  <2> QED BY <2>1, <2>2, <2>3
<1>2. n.slot = "list" /\ n \in HistoryCalls
  BY <1>1 DEF ListCalls, HistoryCalls
<1>3. RequestInv(n, view, rows)
  BY <1>0, <1>1, <1>2 DEF RequestInv
<1>4. PageInv(view, asked', rows)
  BY <1>0, <1>1, <1>2, <1>3, ReadOn
<1> QED BY <1>0, <1>4 DEF HistoryInv, getExecutions

LEMMA DetailReadInv ==
  ASSUME HistoryInv, NEW c \in asked, getExecution(c)
  PROVE  HistoryInv'
<1>0. /\ RowsInv(rows) /\ PageInv(view, asked, rows)
      /\ RequestInv(c, view, rows) /\ c \in DetailCalls /\ c.slot = "detail"
  BY AskedIsKnown, OneSlot DEF getExecution
<1>1. c.id \in DOMAIN rows /\ rows[c.id] \in Executions
  BY <1>0 DEF RequestInv, RowsInv
<1>2. PICK n : /\ asked' = (asked \ {c}) \cup {n}
               /\ n \in DetailCalls /\ n.id = c.id
               /\ RequestInv(n, view, rows)
  <2>1. CASE c.read = 0
    <3> DEFINE d == [c EXCEPT !.status = rows[c.id].status, !.run = rows[c.id].run]
               n == [d EXCEPT !.read = c.read + 1]
    <3>1. asked' = (asked \ {c}) \cup {n}
      BY <2>1 DEF getExecution, Reads
    <3>2. /\ d \in DetailCalls /\ d.id = c.id /\ d.status = rows[c.id].status
          /\ d.run = rows[c.id].run /\ d.run \in Nat
      BY <1>0, <1>1 DEF DetailCalls, Executions
    <3>3. /\ n \in DetailCalls /\ n.id = d.id /\ n.status = d.status /\ n.read = 1
          /\ n.run = d.run
      <4> HIDE DEF d
      <4> QED BY <2>1, <3>2 DEF DetailCalls
    <3> HIDE DEF d, n
    <3>4. n \in HistoryCalls /\ n.slot = "detail"
      BY <3>3 DEF HistoryCalls, DetailCalls
    <3>5. RequestInv(n, view, rows)
      BY <1>0, <1>1, <3>2, <3>3, <3>4 DEF RequestInv, IsOver
    <3> QED BY <3>1, <3>2, <3>3, <3>5
  <2>2. CASE c.read = 1
    <3> DEFINE d == [c EXCEPT !.log = rows[c.id].log]
               n == [d EXCEPT !.read = c.read + 1]
    <3>1. asked' = (asked \ {c}) \cup {n}
      BY <2>2 DEF getExecution, Reads
    <3>2. /\ d \in DetailCalls /\ d.id = c.id /\ d.status = c.status
          /\ d.log = rows[c.id].log /\ d.run = c.run
      BY <1>0, <1>1 DEF DetailCalls, Executions
    <3>3. /\ n \in DetailCalls /\ n.id = d.id /\ n.status = d.status
          /\ n.log = d.log /\ n.read = 2 /\ n.run = d.run
      <4> HIDE DEF d
      <4> QED BY <2>2, <3>2 DEF DetailCalls
    <3> HIDE DEF d, n
    <3>4. n \in HistoryCalls /\ n.slot = "detail"
      BY <3>3 DEF HistoryCalls, DetailCalls
    <3>5. RequestInv(n, view, rows)
      BY <1>0, <1>1, <3>2, <3>3, <3>4 DEF RequestInv, IsOver
    <3> QED BY <3>1, <3>2, <3>3, <3>5
  <2>3. c.read \in {0, 1}
    BY DEF getExecution
  <2> QED BY <2>1, <2>2, <2>3
<1>3. n.slot = "detail"
  BY <1>2 DEF DetailCalls
<1>4. PageInv(view, asked', rows)
  BY <1>0, <1>2, <1>3, ReadOn
<1> QED BY <1>0, <1>4 DEF HistoryInv, getExecution

LEMMA RetriedInv ==
  ASSUME HistoryInv, NEW c \in asked, retryExecution(c)
  PROVE  HistoryInv'
<1> DEFINE n == [c EXCEPT !.answer = TRUE]
<1>0. /\ RowsInv(rows) /\ PageInv(view, asked, rows)
      /\ RequestInv(c, view, rows) /\ c \in RetryCalls /\ c.slot = "retry"
  BY AskedIsKnown, OneSlot DEF retryExecution
<1>1. /\ c.id \in DOMAIN rows /\ rows[c.id].flow \in Flows
  <2>1. c.id \in DOMAIN rows
    BY <1>0 DEF RequestInv
  <2>2. rows[c.id] \in Executions
    BY <1>0, <2>1 DEF RowsInv
  <2> QED BY <2>1, <2>2 DEF Executions
<1>2. RowsInv(rows') /\ PageInv(view, asked, rows')
  BY <1>0, <1>1, RowAdded, RowsGoOn DEF retryExecution
<1>3. n \in RetryCalls /\ n.slot = "retry" /\ n.id = c.id
  BY <1>0 DEF RetryCalls
<1>4. asked' = (asked \ {c}) \cup {n}
  BY DEF retryExecution
<1> HIDE DEF n
<1>5. RequestInv(n, view, rows')
  BY <1>0, <1>2, <1>3 DEF RequestInv, HistoryCalls, PageInv
<1>6. PageInv(view, asked', rows')
  BY <1>0, <1>2, <1>3, <1>4, <1>5, ReadOn
<1> QED BY <1>2, <1>6 DEF HistoryInv, retryExecution

-----------------------------------------------------------------------------
(* Answers and failures. *)

\* A list that arrives, or an empty one with the error.
LEMMA NewList ==
  ASSUME NEW v, NEW cs, NEW r, NEW c \in cs, NEW w \in Views, PageInv(v, cs, r),
         c.slot = "list", Controls(w) = Controls(v),
         w.selected = v.selected, w.detail = v.detail, w.detailError = v.detailError,
         \A e \in w.list.items : e.id \in DOMAIN r,
         ~ w.error => (w.list.key = c.key /\ w.list.retry = c.retry)
  PROVE  PageInv(w, cs \ {c}, r)
<1>1. ViewInv(w, r)
  BY DEF PageInv, ViewInv
<1>2. \A d \in cs \ {c} : RequestInv(d, w, r)
  <2> SUFFICES ASSUME NEW d \in cs \ {c} PROVE RequestInv(d, w, r)
    OBVIOUS
  <2>1. RequestInv(d, v, r)
    BY DEF PageInv
  <2> QED BY <2>1, SameRequest
<1>3. RequestInv(c, v, r)
  BY DEF PageInv
<1>4. ListAwaited(w, cs \ {c})
  BY <1>3 DEF ListAwaited, RequestInv
<1>5. DetailAwaited(w, cs \ {c})
  <2>1. \A d \in cs : d.slot = "detail" => d \in cs \ {c}
    OBVIOUS
  <2>2. DetailAwaited(v, cs)
    BY DEF PageInv
  <2> QED BY <2>1, <2>2 DEF DetailAwaited
<1> QED BY <1>1, <1>2, <1>4, <1>5 DEF PageInv

LEMMA NextIsKnown ==
  ASSUME HistoryInv, NEW c \in asked, listAnswer(c)
  PROVE  LET ids == {e.id : e \in c.items}
             next == IF view.flow = "all" \/ ids = {} THEN NoRow
                     ELSE IF view.selected \in ids THEN view.selected
                     ELSE Max(ids)
         IN  /\ next # NoRow => next \in DOMAIN rows
             /\ next \in Nat \cup {NoRow}
<1> DEFINE ids == {e.id : e \in c.items}
<1>1. /\ RowsInv(rows) /\ RequestInv(c, view, rows) /\ c.slot = "list"
  BY AskedIsKnown DEF listAnswer
<1>2. ids \subseteq DOMAIN rows
  BY <1>1 DEF RequestInv
<1>3. DOMAIN rows = 1..Len(rows) /\ Len(rows) \in Nat
  BY <1>1 DEF RowsInv
<1> HIDE DEF ids
<1>4. ids # {} => Max(ids) \in ids
  BY <1>2, <1>3, NewestOf
<1>5. \A i \in DOMAIN rows : i \in Nat
  BY <1>3
<1> QED BY <1>2, <1>4, <1>5 DEF ids

LEMMA ListAnswerInv ==
  ASSUME HistoryInv, NEW c \in asked, listAnswer(c)
  PROVE  HistoryInv'
<1> DEFINE new == [key |-> c.key, retry |-> c.retry, items |-> c.items,
                   total |-> c.total, open |-> c.open]
           v == ListEnds(view, c)
           w == [v EXCEPT !.list = new]
           ids == {e.id : e \in c.items}
           next == IF view.flow = "all" \/ ids = {} THEN NoRow
                   ELSE IF view.selected \in ids THEN view.selected
                   ELSE Max(ids)
<1>0. /\ RowsInv(rows) /\ PageInv(view, asked, rows) /\ view \in Views
      /\ RequestInv(c, view, rows) /\ c \in ListCalls /\ c.slot = "list"
      /\ c.background \in BOOLEAN
  BY AskedIsKnown, OneSlot DEF listAnswer
<1>1. Selecting(w, asked \ {c}, next)
  BY DEF listAnswer
<1>2. new \in Lists /\ new.key = c.key /\ new.retry = c.retry /\ new.items = c.items
  BY <1>0 DEF ListCalls, Lists
<1>3. /\ v \in Views /\ Controls(v) = Controls(view) /\ v.list = view.list
      /\ v.selected = view.selected /\ v.detail = view.detail
      /\ v.detailError = view.detailError
  BY <1>0, ListEnding
<1>4. /\ w \in Views /\ Controls(w) = Controls(v) /\ w.list = new
      /\ w.selected = v.selected /\ w.detail = v.detail
      /\ w.detailError = v.detailError
  <2> HIDE DEF new, v
  <2> QED BY <1>2, <1>3 DEF Views, Controls
<1>6. next # NoRow => next \in DOMAIN rows
  BY NextIsKnown
<1> HIDE DEF w, v, new, next
<1>7. PageInv(w, asked \ {c}, rows)
  BY <1>0, <1>2, <1>3, <1>4, NewList DEF RequestInv
<1>8. PageInv(view', asked', rows)
  BY <1>0, <1>1, <1>6, <1>7, IsSelected
<1> QED BY <1>0, <1>8 DEF HistoryInv, listAnswer

LEMMA ListFailsInv ==
  ASSUME HistoryInv, NEW c \in asked, listFails(c)
  PROVE  HistoryInv'
<1> DEFINE u == ListEnds(view, c)
           v == [u EXCEPT !.error = TRUE]
           w == [v EXCEPT !.list = EmptyList(c.key)]
<1>0. /\ RowsInv(rows) /\ PageInv(view, asked, rows) /\ view \in Views
      /\ RequestInv(c, view, rows) /\ c \in ListCalls /\ c.slot = "list"
      /\ c.background \in BOOLEAN
  BY AskedIsKnown, OneSlot DEF listFails
<1>1. IF c.background THEN Selecting(v, asked \ {c}, v.selected)
      ELSE Selecting(w, asked \ {c}, NoRow)
  BY DEF listFails
<1>2. /\ u \in Views /\ Controls(u) = Controls(view) /\ u.list = view.list
      /\ u.selected = view.selected /\ u.detail = view.detail
      /\ u.detailError = view.detailError
  BY <1>0, ListEnding
<1>3. /\ v \in Views /\ Controls(v) = Controls(u) /\ v.list = u.list
      /\ v.selected = u.selected /\ v.detail = u.detail
      /\ v.detailError = u.detailError /\ v.error
  <2> HIDE DEF u
  <2> QED BY <1>2 DEF Views, Controls
<1>4. EmptyList(c.key) \in Lists /\ EmptyList(c.key).items = {}
  BY <1>0 DEF EmptyList, Lists, ListCalls
<1>5. /\ w \in Views /\ Controls(w) = Controls(v) /\ w.list = EmptyList(c.key)
      /\ w.selected = v.selected /\ w.detail = v.detail
      /\ w.detailError = v.detailError /\ w.error
  <2> HIDE DEF v
  <2> QED BY <1>3, <1>4 DEF Views, Controls
<1> HIDE DEF u, v, w
<1>6. \A e \in view.list.items : e.id \in DOMAIN rows
  BY <1>0 DEF PageInv, ViewInv
<1>7. PageInv(v, asked \ {c}, rows) /\ (v.selected # NoRow => v.selected \in DOMAIN rows)
  <2>2. /\ Controls(v) = Controls(view) /\ v.selected = view.selected
        /\ v.detail = view.detail /\ v.detailError = view.detailError
        /\ v.list = view.list
    BY <1>2, <1>3
  <2>1. PageInv(v, asked \ {c}, rows)
    BY <1>0, <1>3, <1>6, <2>2, NewList
  <2> QED BY <2>1 DEF PageInv, ViewInv
<1>8. PageInv(w, asked \ {c}, rows)
  <2>1. /\ Controls(w) = Controls(view) /\ w.selected = view.selected
        /\ w.detail = view.detail /\ w.detailError = view.detailError
        /\ \A e \in w.list.items : e.id \in DOMAIN rows
    BY <1>2, <1>3, <1>4, <1>5
  <2> QED BY <1>0, <1>5, <2>1, NewList
<1>9. PageInv(view', asked', rows)
  BY <1>0, <1>1, <1>7, <1>8, IsSelected
<1> QED BY <1>0, <1>9, Clicked DEF HistoryInv, listFails

\* An execution that arrives, or none with the error.
LEMMA NewDetail ==
  ASSUME NEW v, NEW cs, NEW r, NEW c \in cs, NEW w \in Views, PageInv(v, cs, r),
         c.slot = "detail", Controls(w) = Controls(v), w.list = v.list,
         w.selected = v.selected, w.error = v.error, ViewInv(w, r),
         w.detailError \/ w.detail.id = c.id
  PROVE  PageInv(w, cs \ {c}, r)
<1>2. \A d \in cs \ {c} : RequestInv(d, w, r)
  <2> SUFFICES ASSUME NEW d \in cs \ {c} PROVE RequestInv(d, w, r)
    OBVIOUS
  <2>1. RequestInv(d, v, r)
    BY DEF PageInv
  <2> QED BY <2>1, SameRequest
<1>3. RequestInv(c, v, r)
  BY DEF PageInv
<1>4. ListAwaited(w, cs \ {c})
  <2>1. \A d \in cs : d.slot = "list" => d \in cs \ {c}
    OBVIOUS
  <2>2. ListAwaited(v, cs)
    BY DEF PageInv
  <2> QED BY <2>1, <2>2 DEF ListAwaited
<1>5. DetailAwaited(w, cs \ {c})
  BY <1>3 DEF DetailAwaited, RequestInv
<1> QED BY <1>2, <1>4, <1>5 DEF PageInv

LEMMA DetailAnswerInv ==
  ASSUME HistoryInv, NEW c \in asked, detailAnswer(c)
  PROVE  HistoryInv'
<1> DEFINE new == [id |-> c.id, status |-> c.status, log |-> c.log, run |-> c.run]
           v == DetailEnds(view, c)
           w == [v EXCEPT !.detail = new]
<1>0. /\ RowsInv(rows) /\ PageInv(view, asked, rows) /\ view \in Views
      /\ RequestInv(c, view, rows) /\ c \in DetailCalls /\ c.slot = "detail"
      /\ c.background \in BOOLEAN /\ ViewInv(view, rows) /\ c.read = 2
  BY AskedIsKnown, OneSlot DEF detailAnswer, PageInv
<1>1. view' = w /\ asked' = asked \ {c}
  BY DEF detailAnswer
<1>2. /\ new \in Details /\ new.id = c.id /\ new.status = c.status /\ new.log = c.log
      /\ new.run = c.run
  BY <1>0 DEF DetailCalls, Details
<1>3. /\ v \in Views /\ Controls(v) = Controls(view) /\ v.list = view.list
      /\ v.selected = view.selected /\ v.error = view.error
  BY <1>0, DetailEnding
<1>4. /\ w \in Views /\ Controls(w) = Controls(v) /\ w.list = v.list
      /\ w.selected = v.selected /\ w.error = v.error /\ w.detail = new
  <2> HIDE DEF v, new
  <2> QED BY <1>2, <1>3 DEF Views, Controls
<1> HIDE DEF new, v, w
<1>5. ViewInv(w, rows)
  BY <1>0, <1>2, <1>3, <1>4 DEF ViewInv, RequestInv, IsOver
<1>6. PageInv(w, asked \ {c}, rows)
  BY <1>0, <1>2, <1>3, <1>4, <1>5, NewDetail
<1> QED BY <1>0, <1>1, <1>6 DEF HistoryInv, detailAnswer

LEMMA DetailFailsInv ==
  ASSUME HistoryInv, NEW c \in asked, detailFails(c)
  PROVE  HistoryInv'
<1> DEFINE v == DetailEnds(view, c)
           left == IF c.background THEN v.detail ELSE NoRow
           w == [v EXCEPT !.detailError = TRUE, !.detail = left]
<1>0. /\ RowsInv(rows) /\ PageInv(view, asked, rows) /\ view \in Views
      /\ RequestInv(c, view, rows) /\ c \in DetailCalls /\ c.slot = "detail"
      /\ c.background \in BOOLEAN /\ ViewInv(view, rows)
  BY AskedIsKnown, OneSlot DEF detailFails, PageInv
<1>3. /\ v \in Views /\ Controls(v) = Controls(view) /\ v.list = view.list
      /\ v.selected = view.selected /\ v.error = view.error /\ v.detail = view.detail
  BY <1>0, DetailEnding
<1>1. view' = w /\ asked' = asked \ {c}
  <2>1. v.detail = [v EXCEPT !.detailError = TRUE].detail
    <3> HIDE DEF v
    <3> QED BY <1>3 DEF Views
  <2>2. view' = [v EXCEPT !.detailError = TRUE, !.detail = IF c.background THEN @ ELSE NoRow]
    BY DEF detailFails
  <2>3. asked' = asked \ {c}
    BY DEF detailFails
  <2> HIDE DEF v
  <2> QED BY <2>1, <2>2, <2>3
<1>2. left \in Details \cup {NoRow} /\ left \in {view.detail, NoRow}
  <2> HIDE DEF v
  <2> QED BY <1>3 DEF Views
<1>4. /\ w \in Views /\ Controls(w) = Controls(v) /\ w.list = v.list
      /\ w.selected = v.selected /\ w.error = v.error /\ w.detail = left /\ w.detailError
  <2> HIDE DEF v, left
  <2> QED BY <1>2, <1>3 DEF Views, Controls
<1> HIDE DEF left, v, w
<1>5. ViewInv(w, rows)
  BY <1>0, <1>2, <1>3, <1>4 DEF ViewInv
<1>6. PageInv(w, asked \ {c}, rows)
  BY <1>0, <1>3, <1>4, <1>5, NewDetail
<1> QED BY <1>0, <1>1, <1>6, Clicked DEF HistoryInv, detailFails

LEMMA RetryEndsInv ==
  ASSUME HistoryInv, NEW c \in asked, retryEnds(c)
  PROVE  HistoryInv'
<1> DEFINE v == [view EXCEPT !.retrying = NoRow]
           rest == asked \ {c}
<1>0. /\ RowsInv(rows) /\ PageInv(view, asked, rows) /\ view \in Views
      /\ c \in RetryCalls /\ c.slot = "retry"
  BY AskedIsKnown, OneSlot DEF retryEnds
<1>1. /\ v \in Views /\ Controls(v) = Controls(view) /\ v.list = view.list
      /\ v.selected = view.selected /\ v.detail = view.detail
      /\ v.detailError = view.detailError /\ v.error = view.error
  BY <1>0 DEF Views, Controls
<1>2. \/ /\ view' = ListAsked(v, FALSE)
         /\ asked' = Supersede(rest, ListCall(c.key, FALSE, TRUE))
      \/ view' = v /\ asked' = rest
  BY DEF retryEnds
<1>3. \A d \in rest : d \in asked
  OBVIOUS
<1>4. \A d \in asked : d.slot # "retry" => d \in rest
  BY <1>0
<1> HIDE DEF v, rest
<1>5. ViewInv(v, rows)
  BY <1>0, <1>1 DEF PageInv, ViewInv
<1>6. \A d \in rest : RequestInv(d, v, rows)
  <2> SUFFICES ASSUME NEW d \in rest PROVE RequestInv(d, v, rows)
    OBVIOUS
  <2>1. RequestInv(d, view, rows)
    BY <1>0, <1>3 DEF PageInv
  <2> QED BY <1>1, <2>1, SameRequest
<1>7. ListAwaited(v, rest) /\ DetailAwaited(v, rest)
  BY <1>0, <1>1, <1>4 DEF PageInv, ListAwaited, DetailAwaited
<1>8. c.key \in Keys
  BY <1>0 DEF RetryCalls
<1>9. PageInv(ListAsked(v, FALSE), Supersede(rest, ListCall(c.key, FALSE, TRUE)), rows)
  BY <1>5, <1>6, <1>7, <1>8, ListIsAsked
<1>10. PageInv(view', asked', rows)
  BY <1>2, <1>5, <1>6, <1>7, <1>9 DEF PageInv
<1> QED BY <1>0, <1>10 DEF HistoryInv, retryEnds

-----------------------------------------------------------------------------

LEMMA HistoryStep ==
  ASSUME HistoryInv, [ListNext]_listVars
  PROVE  HistoryInv'
<1>1. CASE WorkerStep
  BY <1>1, RowsStepInv
<1>2. CASE PageStep
  BY <1>2, PageChangeInv, FilterChangeInv, SelectInv, RetryInv, PollInv DEF PageStep
<1>3. ASSUME NEW c \in asked, AnswerOf(c) PROVE HistoryInv'
  BY <1>3, ListReadInv, DetailReadInv, RetriedInv, ListAnswerInv, ListFailsInv,
     DetailAnswerInv, DetailFailsInv, RetryEndsInv DEF AnswerOf
<1>4. CASE UNCHANGED listVars
  BY <1>4 DEF HistoryInv, listVars
<1> QED BY <1>1, <1>2, <1>3, <1>4 DEF ListNext

\* The inductive invariant of the history: requests, list and selection agree, and
\* what is held of an execution as ended has ended in that run of its job, with the
\* log that is held, were it failed with one open or its success overturned.
THEOREM HistoryInvariance == ListSpec => []HistoryInv
<1>1. ListInit => HistoryInv
  BY HistoryBegins
<1>2. HistoryInv /\ [ListNext]_listVars => HistoryInv'
  BY HistoryStep
<1> QED BY <1>1, <1>2, PTL DEF ListSpec

LEMMA HistoryShows == HistoryInv => HistoryShowsTheChosen
<1> SUFFICES ASSUME HistoryInv PROVE HistoryShowsTheChosen
  OBVIOUS
<1>1. ListIsForTheControls
  BY DEF HistoryInv, PageInv, ListAwaited, ListIsForTheControls
<1>2. DetailIsOfSelection
  BY DEF HistoryInv, PageInv, DetailAwaited, DetailIsOfSelection
<1>3. EndedIsComplete
  BY DEF HistoryInv, PageInv, ViewInv, IsOver, EndedIsComplete
<1> QED BY <1>1, <1>2, <1>3 DEF HistoryShowsTheChosen

\* What the history shows is what was chosen on it, for any number of executions,
\* filters and clicks and any order of the answers.
THEOREM HistoryIsTrue == ListSpec => []HistoryShowsTheChosen
BY HistoryInvariance, HistoryShows, PTL

-----------------------------------------------------------------------------
(* Signs of loading. *)

ListSignKept ==
  (view'.listLoading /\ ~ Fetching("list", FALSE)') =>
    (view.listLoading /\ ~ Fetching("list", FALSE))

DetailSignKept ==
  (view'.detailLoading /\ ~ Fetching("detail", FALSE)') =>
    (view.detailLoading /\ ~ Fetching("detail", FALSE))

LEMMA LoadForSigns ==
  ASSUME HistoryInv, NEW v \in Views, LoadFor(v), v.detailLoading = view.detailLoading
  PROVE  ListSignKept /\ DetailSignKept
<1> DEFINE new == ListCall(Controls(v), FALSE, FALSE)
<1>1. new.slot = "list" /\ new.background = FALSE
  BY ControlsType, ListCallType
<1>2. view' = ListAsked(v, FALSE) /\ asked' = Supersede(asked, new)
  BY DEF LoadFor
<1> HIDE DEF new
<1>3. asked' = {c \in asked : c.slot # "list"} \cup {new}
  BY <1>1, <1>2 DEF Supersede
<1>4. view'.detailLoading = view.detailLoading
  BY <1>2, AskingList
<1> QED BY <1>1, <1>3, <1>4 DEF ListSignKept, DetailSignKept, Fetching

LEMMA UserSigns ==
  ASSUME HistoryInv, PageStep, ~ Poll
  PROVE  ListSignKept /\ (DetailSignKept \/ handleSelectExecution(view.selected))
<1>0. view \in Views /\ RowsInv(rows)
  BY DEF HistoryInv, PageInv, ViewInv
<1>1. ASSUME NEW step \in {"next", "previous"}, onPageChange(step)
      PROVE  ListSignKept /\ DetailSignKept
  <2>1. PICK n \in Nat \ {0} : LoadFor([view EXCEPT !.page = n])
    BY <1>1, PageTurned
  <2> DEFINE v == [view EXCEPT !.page = n]
  <2>2. v \in Views /\ v.detailLoading = view.detailLoading
    BY <1>0, OtherPage, Zenon
  <2>3. LoadFor(v)
    BY <2>1
  <2> HIDE DEF v
  <2> QED BY <2>2, <2>3, LoadForSigns
<1>2. ASSUME NEW f \in Filters, handleStatusFilterChange(f)
      PROVE  ListSignKept /\ DetailSignKept
  <2> DEFINE v == [view EXCEPT !.filter = f, !.page = 1]
  <2>2. v \in Views /\ v.detailLoading = view.detailLoading
    BY <1>0, OtherFilter, Zenon
  <2>3. LoadFor(v)
    BY <1>2 DEF handleStatusFilterChange
  <2> HIDE DEF v
  <2> QED BY <2>2, <2>3, LoadForSigns
<1>3. ASSUME NEW i \in DOMAIN rows, handleSelectExecution(i)
      PROVE  ListSignKept /\ (DetailSignKept \/ i = view.selected)
  <2>0. i \in Nat
    BY <1>0 DEF RowsInv
  <2>1. CASE i = view.selected
    <3> DEFINE new == DetailCall(i, TRUE)
    <3>1. view' = DetailAsked(view, TRUE) /\ asked' = Supersede(asked, new)
      BY <1>3, <2>1 DEF handleSelectExecution
    <3>2. new.slot = "detail"
      BY <2>0, DetailCallType
    <3>3. view'.listLoading = view.listLoading
      BY <1>0, <3>1, AskingDetail
    <3> HIDE DEF new
    <3>4. \A c \in asked : c.slot = "list" => c \in asked'
      BY <3>1, <3>2 DEF Supersede
    <3> QED BY <2>1, <3>3, <3>4 DEF ListSignKept, Fetching
  <2>2. CASE i # view.selected
    <3>1. Selecting(view, asked, i)
      BY <1>3, <2>2 DEF handleSelectExecution
    <3> QED BY <1>0, <2>0, <3>1, SelectingKeeps DEF ListSignKept, DetailSignKept, Fetching
  <2> QED BY <2>1, <2>2
<1>4. ASSUME NEW i \in DOMAIN rows, handleRetryConfirm(i)
      PROVE  ListSignKept /\ DetailSignKept
  <2>1. view'.listLoading = view.listLoading /\ view'.detailLoading = view.detailLoading
    BY <1>0, <1>4 DEF handleRetryConfirm, Views
  <2>2. asked \subseteq asked'
    BY <1>4 DEF handleRetryConfirm
  <2> QED BY <2>1, <2>2 DEF ListSignKept, DetailSignKept, Fetching
<1> QED BY <1>1, <1>2, <1>3, <1>4 DEF PageStep

LEMMA ReadSigns ==
  ASSUME HistoryInv, NEW c \in asked,
         getExecutions(c) \/ getExecution(c) \/ retryExecution(c)
  PROVE  ListSignKept /\ DetailSignKept
<1>0. c \in HistoryCalls
  BY AskedIsKnown
<1>1. PICK n : /\ asked' = (asked \ {c}) \cup {n} /\ view' = view
               /\ n.slot = c.slot /\ n.background = c.background
  <2>1. CASE getExecutions(c)
    <3>1. c \in ListCalls
      BY <1>0, <2>1, OneSlot DEF getExecutions
    <3>2. PICK total, items, open :
            \/ Reads(c, [c EXCEPT !.total = total, !.items = items])
            \/ Reads(c, [c EXCEPT !.open = open])
      BY <2>1 DEF getExecutions
    <3>3. CASE Reads(c, [c EXCEPT !.total = total, !.items = items])
      <4> DEFINE n == [[c EXCEPT !.total = total, !.items = items] EXCEPT !.read = c.read + 1]
      <4>1. n.slot = c.slot /\ n.background = c.background
        BY <3>1 DEF ListCalls
      <4>2. asked' = (asked \ {c}) \cup {n}
        BY <3>3 DEF Reads
      <4> HIDE DEF n
      <4> QED BY <2>1, <4>1, <4>2 DEF getExecutions
    <3>4. CASE Reads(c, [c EXCEPT !.open = open])
      <4> DEFINE n == [[c EXCEPT !.open = open] EXCEPT !.read = c.read + 1]
      <4>1. n.slot = c.slot /\ n.background = c.background
        BY <3>1 DEF ListCalls
      <4>2. asked' = (asked \ {c}) \cup {n}
        BY <3>4 DEF Reads
      <4> HIDE DEF n
      <4> QED BY <2>1, <4>1, <4>2 DEF getExecutions
    <3> QED BY <3>2, <3>3, <3>4
  <2>2. CASE getExecution(c)
    <3>1. c \in DetailCalls
      BY <1>0, <2>2, OneSlot DEF getExecution
    <3>2. PICK st, run, log :
            \/ Reads(c, [c EXCEPT !.status = st, !.run = run])
            \/ Reads(c, [c EXCEPT !.log = log])
      BY <2>2 DEF getExecution
    <3>3. CASE Reads(c, [c EXCEPT !.status = st, !.run = run])
      <4> DEFINE n == [[c EXCEPT !.status = st, !.run = run] EXCEPT !.read = c.read + 1]
      <4>1. n.slot = c.slot /\ n.background = c.background
        BY <3>1 DEF DetailCalls
      <4>2. asked' = (asked \ {c}) \cup {n}
        BY <3>3 DEF Reads
      <4> HIDE DEF n
      <4> QED BY <2>2, <4>1, <4>2 DEF getExecution
    <3>4. CASE Reads(c, [c EXCEPT !.log = log])
      <4> DEFINE n == [[c EXCEPT !.log = log] EXCEPT !.read = c.read + 1]
      <4>1. n.slot = c.slot /\ n.background = c.background
        BY <3>1 DEF DetailCalls
      <4>2. asked' = (asked \ {c}) \cup {n}
        BY <3>4 DEF Reads
      <4> HIDE DEF n
      <4> QED BY <2>2, <4>1, <4>2 DEF getExecution
    <3> QED BY <3>2, <3>3, <3>4
  <2>3. CASE retryExecution(c)
    <3> DEFINE n == [c EXCEPT !.answer = TRUE]
    <3>1. c \in RetryCalls
      BY <1>0, <2>3, OneSlot DEF retryExecution
    <3>2. n.slot = c.slot /\ n.background = c.background
      BY <3>1 DEF RetryCalls
    <3>3. asked' = (asked \ {c}) \cup {n} /\ view' = view
      BY <2>3 DEF retryExecution
    <3> HIDE DEF n
    <3> QED BY <3>2, <3>3
  <2> QED BY <2>1, <2>2, <2>3
<1>2. \A d \in asked : d \in asked' \/ d = c
  BY <1>1
<1>3. n \in asked'
  BY <1>1
<1> QED BY <1>1, <1>2, <1>3 DEF ListSignKept, DetailSignKept, Fetching

LEMMA AnswerSigns ==
  ASSUME HistoryInv, NEW c \in asked,
         \/ listAnswer(c) \/ listFails(c) \/ detailAnswer(c) \/ detailFails(c)
         \/ retryEnds(c)
  PROVE  ListSignKept /\ DetailSignKept
<1>0. /\ view \in Views /\ c \in HistoryCalls /\ c.background \in BOOLEAN
      /\ RowsInv(rows) /\ PageInv(view, asked, rows)
  BY AskedIsKnown, OneSlot
<1> DEFINE rest == asked \ {c}
<1>1. \A d \in asked : d \in rest \/ d = c
  OBVIOUS
<1> HIDE DEF rest
<1>2. ASSUME c.slot = "list", NEW w \in Views, NEW i \in Nat \cup {NoRow},
             Selecting(w, rest, i), w.detailLoading = view.detailLoading,
             w.listLoading = (c.background /\ view.listLoading)
      PROVE  ListSignKept /\ DetailSignKept
  <2>1. /\ view'.listLoading = w.listLoading
        /\ \A d \in rest : d.slot # "detail" => d \in asked'
        /\ view'.detailLoading =>
              \/ w.detailLoading /\ asked' = rest
              \/ Fetching("detail", FALSE)'
    BY <1>2, SelectingKeeps
  <2> QED BY <1>1, <1>2, <2>1 DEF ListSignKept, DetailSignKept, Fetching
<1>3. CASE listAnswer(c)
  <2> DEFINE new == [key |-> c.key, retry |-> c.retry, items |-> c.items,
                     total |-> c.total, open |-> c.open]
             v == ListEnds(view, c)
             w == [v EXCEPT !.list = new]
             ids == {e.id : e \in c.items}
             next == IF view.flow = "all" \/ ids = {} THEN NoRow
                     ELSE IF view.selected \in ids THEN view.selected
                     ELSE Max(ids)
  <2>1. c.slot = "list" /\ c \in ListCalls
    BY <1>0, <1>3, OneSlot DEF listAnswer
  <2>2. Selecting(w, rest, next)
    BY <1>3 DEF listAnswer, rest
  <2>3. next \in Nat \cup {NoRow}
    BY <1>0, <1>3, NextIsKnown
  <2>4. new \in Lists
    BY <2>1 DEF ListCalls, Lists
  <2>5. /\ v \in Views /\ v.detailLoading = view.detailLoading
        /\ v.listLoading = (c.background /\ view.listLoading)
    BY <1>0, ListEnding
  <2> HIDE DEF new, v, next
  <2>6. w \in Views /\ w.detailLoading = v.detailLoading /\ w.listLoading = v.listLoading
    BY <2>4, <2>5 DEF Views
  <2> HIDE DEF w
  <2> QED BY <1>2, <2>1, <2>2, <2>3, <2>5, <2>6
<1>4. CASE listFails(c)
  <2> DEFINE u == ListEnds(view, c)
             v == [u EXCEPT !.error = TRUE]
             w == [v EXCEPT !.list = EmptyList(c.key)]
  <2>1. c.slot = "list" /\ c \in ListCalls
    BY <1>0, <1>4, OneSlot DEF listFails
  <2>2. IF c.background THEN Selecting(v, rest, v.selected)
        ELSE Selecting(w, rest, NoRow)
    BY <1>4 DEF listFails, rest
  <2>3. EmptyList(c.key) \in Lists
    BY <2>1 DEF EmptyList, Lists, ListCalls
  <2>4. /\ u \in Views /\ u.detailLoading = view.detailLoading
        /\ u.listLoading = (c.background /\ view.listLoading)
    BY <1>0, ListEnding
  <2> HIDE DEF u
  <2>5. /\ v \in Views /\ v.detailLoading = u.detailLoading
        /\ v.listLoading = u.listLoading /\ v.selected \in Nat \cup {NoRow}
    BY <2>4 DEF Views
  <2> HIDE DEF v
  <2>6. w \in Views /\ w.detailLoading = v.detailLoading /\ w.listLoading = v.listLoading
    BY <2>3, <2>5 DEF Views
  <2> HIDE DEF w
  <2>7. CASE c.background
    BY <1>2, <2>1, <2>2, <2>4, <2>5, <2>7
  <2>8. CASE ~ c.background
    BY <1>2, <2>1, <2>2, <2>4, <2>5, <2>6, <2>8
  <2> QED BY <2>7, <2>8
<1>5. ASSUME c.slot = "detail", asked' = rest, view'.listLoading = view.listLoading,
             view'.detailLoading = (c.background /\ view.detailLoading)
      PROVE  ListSignKept /\ DetailSignKept
  BY <1>0, <1>1, <1>5 DEF ListSignKept, DetailSignKept, Fetching
<1>6. CASE detailAnswer(c)
  <2> DEFINE v == DetailEnds(view, c)
  <2>1. /\ v \in Views /\ v.listLoading = view.listLoading
        /\ v.detailLoading = (c.background /\ view.detailLoading)
    BY <1>0, DetailEnding
  <2>2. PICK new : view' = [v EXCEPT !.detail = new]
    BY <1>6 DEF detailAnswer
  <2>3. asked' = rest /\ c.slot = "detail"
    BY <1>6 DEF detailAnswer, rest
  <2> HIDE DEF v
  <2>4. view'.listLoading = v.listLoading /\ view'.detailLoading = v.detailLoading
    BY <2>1, <2>2 DEF Views
  <2> QED BY <1>5, <2>1, <2>3, <2>4
<1>7. CASE detailFails(c)
  <2> DEFINE v == DetailEnds(view, c)
  <2>1. /\ v \in Views /\ v.listLoading = view.listLoading
        /\ v.detailLoading = (c.background /\ view.detailLoading)
    BY <1>0, DetailEnding
  <2>2. view' = [v EXCEPT !.detailError = TRUE, !.detail = IF c.background THEN @ ELSE NoRow]
    BY <1>7 DEF detailFails
  <2>3. asked' = rest /\ c.slot = "detail"
    BY <1>7 DEF detailFails, rest
  <2> HIDE DEF v
  <2>4. view'.listLoading = v.listLoading /\ view'.detailLoading = v.detailLoading
    BY <2>1, <2>2 DEF Views
  <2> QED BY <1>5, <2>1, <2>3, <2>4
<1>8. CASE retryEnds(c)
  <2> DEFINE v == [view EXCEPT !.retrying = NoRow]
             new == ListCall(c.key, FALSE, TRUE)
  <2>0. c.slot = "retry" /\ c \in RetryCalls
    BY <1>0, <1>8, OneSlot DEF retryEnds
  <2>1. /\ v \in Views /\ v.listLoading = view.listLoading
        /\ v.detailLoading = view.detailLoading
    BY <1>0 DEF Views
  <2>2. \/ view' = ListAsked(v, FALSE) /\ asked' = Supersede(rest, new)
        \/ view' = v /\ asked' = rest
    BY <1>8 DEF retryEnds, rest
  <2>3. new.slot = "list" /\ new.background = FALSE
    BY <2>0, ListCallType DEF RetryCalls
  <2>4. ListAsked(v, FALSE).detailLoading = v.detailLoading
    BY <2>1, AskingList
  <2> HIDE DEF v, new
  <2>5. CASE view' = ListAsked(v, FALSE) /\ asked' = Supersede(rest, new)
    <3>1. asked' = {d \in rest : d.slot # "list"} \cup {new}
      BY <2>3, <2>5 DEF Supersede
    <3> QED BY <1>1, <2>0, <2>1, <2>3, <2>4, <2>5, <3>1
            DEF ListSignKept, DetailSignKept, Fetching
  <2>6. CASE view' = v /\ asked' = rest
    BY <1>1, <2>0, <2>1, <2>6 DEF ListSignKept, DetailSignKept, Fetching
  <2> QED BY <2>2, <2>5, <2>6
<1> QED BY <1>3, <1>4, <1>6, <1>7, <1>8

\* A sign of loading is left behind by a poll or a second click only.
THEOREM HistorySignsEnd == ListSpec => LoadingIsLostOnlyToRefresh
<1> DEFINE Stays ==
      /\ (view'.listLoading /\ ~ Fetching("list", FALSE)') =>
           Poll \/ (view.listLoading /\ ~ Fetching("list", FALSE))
      /\ (view'.detailLoading /\ ~ Fetching("detail", FALSE)') =>
           \/ Poll \/ handleSelectExecution(view.selected)
           \/ view.detailLoading /\ ~ Fetching("detail", FALSE)
<1>1. HistoryInv /\ [ListNext]_listVars => [Stays]_listVars
  <2> SUFFICES ASSUME HistoryInv, ListNext PROVE Stays
    OBVIOUS
  <2>1. CASE WorkerStep
    <3>1. view' = view /\ asked' = asked
      BY <2>1 DEF WorkerStep, WorkOn, EndRow, EndRowUnclosed, EndIsDoubted, Redelivered, Started
    <3> QED BY <3>1 DEF Fetching
  <2>2. CASE PageStep
    BY <2>2, UserSigns DEF ListSignKept, DetailSignKept
  <2>3. ASSUME NEW c \in asked, AnswerOf(c) PROVE Stays
    BY <2>3, ReadSigns, AnswerSigns DEF AnswerOf, ListSignKept, DetailSignKept
  <2> QED BY <2>1, <2>2, <2>3 DEF ListNext
<1>2. []HistoryInv /\ [][ListNext]_listVars => [][Stays]_listVars
  BY <1>1, PTL
<1> QED BY <1>2, HistoryInvariance, PTL DEF ListSpec, LoadingIsLostOnlyToRefresh

-----------------------------------------------------------------------------
(* The catalog of connections: what is left of a sequence. *)

Place(K, k) == Cardinality({j \in K : j <= k})

\* Every place up to the number of elements is somebody's.
LEMMA PlacesTaken ==
  ASSUME NEW m \in Nat, NEW K \in SUBSET (1..m)
  PROVE  /\ IsFiniteSet(K) /\ Cardinality(K) \in Nat
         /\ \A n \in 1..Cardinality(K) : \E k \in K : Place(K, k) = n
<1> DEFINE Missing(i, J, n) == n \in 1..Cardinality(J) /\ \A k \in J : Place(J, k) # n
           Bad == {i \in Nat : \E J \in SUBSET (1..i) : \E n \in Nat : Missing(i, J, n)}
<1>1. ASSUME NEW i \in Nat, NEW J \in SUBSET (1..i)
      PROVE  IsFiniteSet(J) /\ Cardinality(J) \in Nat
  <2>1. IsFiniteSet(1..i)
    BY FS_Interval
  <2>2. IsFiniteSet(J)
    BY <2>1, FS_Subset
  <2> QED BY <2>2, FS_CardinalityType
<1>2. SUFFICES ASSUME Bad # {} PROVE FALSE
  <2>1. m \notin Bad
    BY <1>2
  <2>2. IsFiniteSet(K) /\ Cardinality(K) \in Nat
    BY <1>1
  <2>3. \A n \in Nat : ~ Missing(m, K, n)
    BY <2>1
  <2>4. \A n \in 1..Cardinality(K) : n \in Nat
    BY <2>2
  <2> QED BY <2>2, <2>3, <2>4
<1>3. PICK i \in Bad : \A h \in Bad : ~ (h < i)
  <2>1. IsWellFoundedOn(OpToRel(<, Nat), Nat)
    BY NatLessThanWellFounded
  <2>2. Bad \subseteq Nat
    OBVIOUS
  <2>3. PICK i \in Bad : \A h \in Bad : <<h, i>> \notin OpToRel(<, Nat)
    BY <1>2, <2>1, <2>2, WFMin
  <2> QED BY <2>2, <2>3 DEF OpToRel
<1>4. PICK J \in SUBSET (1..i), n \in Nat : Missing(i, J, n)
  BY <1>3
<1>5. i \in Nat /\ i # 0
  <2>1. CASE i = 0
    <3>1. J = {}
      BY <2>1
    <3>2. Cardinality(J) = 0
      BY <3>1, FS_EmptySet
    <3> QED BY <1>4, <3>2
  <2> QED BY <1>3, <2>1
<1>6. i - 1 \in Nat /\ i - 1 < i
  BY <1>5
<1>7. i \in J
  <2> SUFFICES ASSUME i \notin J PROVE FALSE
    OBVIOUS
  <2>1. J \in SUBSET (1..(i - 1))
    BY <1>5
  <2>2. i - 1 \in Bad
    BY <1>4, <1>6, <2>1
  <2> QED BY <1>3, <1>6, <2>2
<1> DEFINE L == J \ {i}
<1>8. L \in SUBSET (1..(i - 1))
  BY <1>5
<1>9. /\ IsFiniteSet(L) /\ Cardinality(L) \in Nat
      /\ Cardinality(J) = Cardinality(L) + 1
  <2>1. IsFiniteSet(J) /\ IsFiniteSet(L)
    BY <1>1, <1>3, <1>6, <1>8
  <2>2. L \cup {i} = J /\ i \notin L
    BY <1>7
  <2> QED BY <2>1, <2>2, FS_AddElement, FS_CardinalityType
<1>10. n # Cardinality(J)
  <2>0. \A j \in J : j <= i
    BY <1>4, <1>5
  <2>1. {j \in J : j <= i} = J
    BY <2>0
  <2>2. Place(J, i) = Cardinality(J)
    BY <2>1 DEF Place
  <2> QED BY <1>4, <1>7, <2>2
<1>11. n \in 1..Cardinality(L)
  BY <1>4, <1>9, <1>10
<1>12. \A k \in L : Place(L, k) = Place(J, k)
  <2> SUFFICES ASSUME NEW k \in L PROVE Place(L, k) = Place(J, k)
    OBVIOUS
  <2>1. k \in 1..(i - 1)
    BY <1>8
  <2>2. {j \in L : j <= k} = {j \in J : j <= k}
    BY <1>5, <2>1
  <2> QED BY <2>2 DEF Place
<1>13. Missing(i - 1, L, n)
  BY <1>4, <1>11, <1>12
<1>14. i - 1 \in Bad
  BY <1>6, <1>8, <1>13
<1> QED BY <1>3, <1>6, <1>14

\* What is kept stands at positions of K, each of them once.
LEMMA KeptOnce ==
  ASSUME NEW S, NEW s \in Seq(S), NEW K \in SUBSET (DOMAIN s)
  PROVE  \E f \in [1..Cardinality(K) -> K] :
           /\ \A i, j \in 1..Cardinality(K) : f[i] = f[j] => i = j
           /\ Cardinality(K) \in Nat
           /\ Kept(s, K) = [n \in 1..Cardinality(K) |-> s[f[n]]]
<1>1. Len(s) \in Nat /\ DOMAIN s = 1..Len(s)
  OBVIOUS
<1>2. /\ Cardinality(K) \in Nat
      /\ \A n \in 1..Cardinality(K) : \E k \in K : Place(K, k) = n
  BY <1>1, PlacesTaken
<1> DEFINE at(n) == CHOOSE k \in K : Place(K, k) = n
           f == [n \in 1..Cardinality(K) |-> at(n)]
<1>3. \A n \in 1..Cardinality(K) : at(n) \in K /\ Place(K, at(n)) = n
  BY <1>2
<1>4. Kept(s, K) = [n \in 1..Cardinality(K) |-> s[at(n)]]
  BY DEF Kept, Place
<1> HIDE DEF at
<1>5. f \in [1..Cardinality(K) -> K]
  BY <1>3
<1>6. \A i, j \in 1..Cardinality(K) : f[i] = f[j] => i = j
  BY <1>3
<1>7. Kept(s, K) = [n \in 1..Cardinality(K) |-> s[f[n]]]
  BY <1>4
<1> QED BY <1>2, <1>5, <1>6, <1>7

\* What keeps every position keeps the sequence.
LEMMA KeptAll ==
  ASSUME NEW S, NEW s \in Seq(S)
  PROVE  Kept(s, DOMAIN s) = s
<1>1. Len(s) \in Nat /\ DOMAIN s = 1..Len(s)
  OBVIOUS
<1>2. Cardinality(DOMAIN s) = Len(s)
  BY <1>1, FS_Interval
<1>3. \A k \in DOMAIN s : Cardinality({j \in DOMAIN s : j <= k}) = k
  <2> SUFFICES ASSUME NEW k \in DOMAIN s
               PROVE  Cardinality({j \in DOMAIN s : j <= k}) = k
    OBVIOUS
  <2>1. {j \in DOMAIN s : j <= k} = 1..k /\ k \in Nat
    BY <1>1
  <2>2. Cardinality(1..k) = k
    BY <2>1, FS_Interval
  <2> QED BY <2>1, <2>2
<1> DEFINE at(n) == CHOOSE k \in DOMAIN s : Cardinality({j \in DOMAIN s : j <= k}) = n
<1>4. \A n \in 1..Len(s) : at(n) = n
  BY <1>1, <1>3
<1>5. Kept(s, DOMAIN s) = [n \in 1..Cardinality(DOMAIN s) |-> s[at(n)]]
  BY DEF Kept
<1> HIDE DEF at
<1>6. Kept(s, DOMAIN s) = [n \in 1..Len(s) |-> s[n]]
  BY <1>2, <1>4, <1>5
<1> QED BY <1>1, <1>6

-----------------------------------------------------------------------------

Connections == [id : Conns, hit : BOOLEAN]

\* The list of connections, each of them once.
ConnsInv(s) ==
  /\ s \in Seq(Connections)
  /\ \A j, k \in DOMAIN s : s[j].id = s[k].id => j = k

LEMMA KeptConns ==
  ASSUME NEW s, ConnsInv(s), NEW K \in SUBSET (DOMAIN s)
  PROVE  /\ ConnsInv(Kept(s, K))
         /\ \A n \in DOMAIN Kept(s, K) : \E k \in K : Kept(s, K)[n] = s[k]
<1>1. PICK f \in [1..Cardinality(K) -> K] :
        /\ \A i, j \in 1..Cardinality(K) : f[i] = f[j] => i = j
        /\ Cardinality(K) \in Nat
        /\ Kept(s, K) = [n \in 1..Cardinality(K) |-> s[f[n]]]
  BY KeptOnce DEF ConnsInv
<1>2. \A n \in 1..Cardinality(K) : f[n] \in K /\ s[f[n]] \in Connections
  BY DEF ConnsInv
<1>3. /\ Kept(s, K) \in Seq(Connections)
      /\ DOMAIN Kept(s, K) = 1..Cardinality(K)
      /\ \A n \in 1..Cardinality(K) : Kept(s, K)[n] = s[f[n]]
  BY <1>1, <1>2
<1> QED BY <1>1, <1>2, <1>3 DEF ConnsInv

LEMMA OthersInv ==
  ASSUME ConnsInv(conns), NEW id
  PROVE  /\ ConnsInv(Others(id))
         /\ \A n \in DOMAIN Others(id) : Others(id)[n].id # id
<1> DEFINE K == {k \in DOMAIN conns : conns[k].id # id}
<1>0. K \in SUBSET (DOMAIN conns)
  OBVIOUS
<1>1. /\ ConnsInv(Kept(conns, K))
      /\ \A n \in DOMAIN Kept(conns, K) : \E k \in K : Kept(conns, K)[n] = conns[k]
  <2> HIDE DEF K
  <2> QED BY <1>0, KeptConns
<1> QED BY <1>1 DEF Others

LEMMA SavedInv ==
  ASSUME ConnsInv(conns), NEW id \in Conns, NEW hit \in BOOLEAN, Saved(id, hit)
  PROVE  ConnsInv(conns') /\ stamp' = stamp + 1
<1> DEFINE new == [id |-> id, hit |-> hit]
           rest == Others(id)
<1>1. /\ ConnsInv(rest) /\ \A n \in DOMAIN rest : rest[n].id # id
  BY OthersInv
<1>2. new \in Connections /\ new.id = id
  BY DEF Connections
<1>3. conns' = <<new>> \o rest /\ stamp' = stamp + 1
  BY DEF Saved
<1> HIDE DEF new, rest
<1>4. rest \in Seq(Connections) /\ Len(rest) \in Nat /\ DOMAIN rest = 1..Len(rest)
  BY <1>1 DEF ConnsInv
<1>5. /\ conns' \in Seq(Connections) /\ DOMAIN conns' = 1..(Len(rest) + 1)
      /\ \A k \in 1..(Len(rest) + 1) :
           conns'[k] = IF k = 1 THEN new ELSE rest[k - 1]
  <2>1. <<new>> \in Seq(Connections) /\ Len(<<new>>) = 1 /\ <<new>>[1] = new
    BY <1>2
  <2> QED BY <1>3, <1>4, <2>1
<1>6. \A k \in 1..(Len(rest) + 1) : k # 1 => k - 1 \in DOMAIN rest
  BY <1>4
<1>7. \A j, k \in DOMAIN conns' : conns'[j].id = conns'[k].id => j = k
  <2> SUFFICES ASSUME NEW j \in DOMAIN conns', NEW k \in DOMAIN conns',
                      conns'[j].id = conns'[k].id
               PROVE  j = k
    OBVIOUS
  <2>1. CASE j = 1 \/ k = 1
    BY <1>1, <1>2, <1>5, <1>6, <2>1
  <2>2. CASE j # 1 /\ k # 1
    <3>1. rest[j - 1].id = rest[k - 1].id
      BY <1>5, <2>2
    <3>2. j - 1 = k - 1
      BY <1>1, <1>5, <1>6, <2>2, <3>1 DEF ConnsInv
    <3> QED BY <1>4, <1>5, <3>2
  <2> QED BY <2>1, <2>2
<1> QED BY <1>3, <1>5, <1>7 DEF ConnsInv

LEMMA RemovedInv ==
  ASSUME ConnsInv(conns), NEW id, apiRemoves(id)
  PROVE  ConnsInv(conns') /\ stamp' = stamp + 1
<1>1. conns' = Others(id) /\ stamp' = stamp + 1
  BY DEF apiRemoves
<1>2. ConnsInv(Others(id))
  BY OthersInv
<1> QED BY <1>1, <1>2 DEF ConnsInv

-----------------------------------------------------------------------------
(* What a page and a picker hold. *)

CatKeys == [page : Nat \ {0}, search : BOOLEAN, oldest : BOOLEAN]
Answers == [key : CatKeys, total : Nat, seen : Nat, items : Seq(Conns)]
Owners == {"none", "submit", "delete"}

Screens ==
  [page : Nat \ {0}, search : BOOLEAN, oldest : BOOLEAN,
   catalog : Answers \cup {NoConn}, by : Owners, loading : BOOLEAN,
   refreshing : BOOLEAN, error : BOOLEAN, dialog : {"none", "create", "edit"},
   edited : Conns \cup {NoConn}, editing : Conns \cup {NoConn},
   target : Conns \cup {NoConn}, submitting : BOOLEAN, deleting : BOOLEAN]

CatalogCalls ==
  [kind : {"list"}, key : CatKeys, background : BOOLEAN, owner : Owners,
   current : BOOLEAN, answer : Answers \cup {NoConn}]
EditCalls == [kind : {"edit"}, id : Conns, answer : {NoConn, "ok"}]
SubmitCalls ==
  [kind : {"submit"}, hit : BOOLEAN, key : CatKeys, id : Conns \cup {NoConn},
   answer : {NoConn, "ok"}]
DeleteCalls ==
  [kind : {"delete"}, id : Conns, key : CatKeys, answer : {NoConn, "ok"}]

PageCalls == CatalogCalls \cup EditCalls \cup SubmitCalls \cup DeleteCalls

\* For whom a request is made: a dialog waits for its own request first, for
\* the reload that follows then.
Owner(c) == IF c.kind = "list" THEN c.owner ELSE c.kind

SameSort(key, v) == key.search = v.search /\ key.oldest = v.oldest

\* The list shown is that of the controls, or of another page of theirs.
ListFits(v) ==
  v.catalog # NoConn =>
    /\ SameSort(v.catalog.key, v)
    /\ v.by = "none" => v.catalog.key = CatalogControls(v)

\* While a deletion is to be confirmed nothing else is going on.
ScreenInv(v) ==
  /\ v \in Screens /\ ListFits(v)
  /\ v.target # NoConn => ~ v.loading /\ v.dialog = "none" /\ v.editing = NoConn

\* What is asked for has the page wait for it.
CallInv(c, v) ==
  /\ c \in PageCalls
  /\ Owner(c) = "submit" => v.submitting
  /\ Owner(c) = "delete" => v.deleting
  /\ c.kind = "edit" => v.editing = c.id
  /\ c.kind = "submit" => v.dialog # "none" /\ SameSort(c.key, v)
  /\ c.kind = "delete" => v.target # NoConn /\ SameSort(c.key, v)
  /\ c.kind = "list" /\ c.answer # NoConn => c.answer.key = c.key

Current(cs) == {c \in cs : c.kind = "list" /\ c.current}

\* A list that will be taken is of the controls, and has its sign.
CurrentInv(c, v) ==
  /\ SameSort(c.key, v)
  /\ c.owner = "none" => c.key = CatalogControls(v)
  /\ IF c.background THEN v.refreshing ELSE v.loading
  /\ ~ v.error /\ v.target = NoConn

\* One request at most has a list that will be taken, and each dialog waits
\* for one at most.
OneEach(cs) ==
  /\ \A c, d \in Current(cs) : c = d
  /\ \A c, d \in cs : Owner(c) # "none" /\ Owner(c) = Owner(d) => c = d

CatalogPageInv(v, cs) ==
  /\ ScreenInv(v)
  /\ \A c \in cs : CallInv(c, v)
  /\ \A c \in Current(cs) : CurrentInv(c, v)
  /\ OneEach(cs)

Merged ==
  [items : Seq(Conns), total : Nat, page : Nat \ {0}, seen : SUBSET Nat,
   of : SUBSET BOOLEAN]
PickerStates ==
  [open : BOOLEAN, search : BOOLEAN, catalog : Merged \cup {NoConn},
   loading : BOOLEAN, loadingMore : BOOLEAN, error : BOOLEAN]
PickCalls ==
  [kind : {"pick"}, append : BOOLEAN, answer : Answers \cup {NoConn}, key : CatKeys]
CreateCalls ==
  [kind : {"submit"}, id : {NoConn}, hit : BOOLEAN, answer : {NoConn, "ok"}]

Least(m, n) == IF m < n THEN m ELSE n

Matched(s, found) == Kept(s, {k \in DOMAIN s : found => s[k].hit})

IdsOf(s) == [k \in DOMAIN s |-> s[k].id]

\* The first n connections of those that match, or of all.
TheFirst(s, found, n) ==
  [k \in 1..Least(n, Len(Matched(s, found))) |-> IdsOf(Matched(s, found))[k]]

\* Pages that were read of one list are its beginning.
MergedInv(p, s, now) ==
  /\ p \in PickerStates
  /\ p.catalog # NoConn =>
       /\ p.catalog.of # {} /\ p.catalog.seen # {} /\ p.catalog.seen \subseteq 0..now
       /\ \A x \in BOOLEAN : p.catalog.of = {x} /\ p.catalog.seen = {now} =>
            /\ p.catalog.items = TheFirst(s, x, p.catalog.page * Limit)
            /\ p.catalog.total = Len(Matched(s, x))

\* An answer that was found in the connections as they are.
AnswerIsOf(a, key, s) ==
  /\ a.total = Len(Matched(s, key.search))
  /\ a.items = SkipAndTake(IdsOf(Matched(s, key.search)), key.page)

\* The next page or the first is asked for, under the search that stands there.
PickInv(c, p, s, now) ==
  /\ c \in PickCalls \cup CreateCalls
  /\ c.kind = "pick" =>
       /\ c.key.search = p.search /\ ~ c.key.oldest
       /\ IF c.append THEN p.catalog # NoConn /\ c.key.page = p.catalog.page + 1
                      ELSE c.key.page = 1
       /\ c.answer # NoConn =>
            /\ c.answer.seen \in 0..now
            /\ c.answer.seen = now => AnswerIsOf(c.answer, c.key, s)

PickAwaited(p, cs) ==
  p.catalog # NoConn =>
    \/ p.error \/ p.catalog.of = BOOLEAN \/ p.catalog.of = {p.search}
    \/ \E c \in cs : c.kind = "pick" /\ (~ c.append \/ c.key.search \notin p.catalog.of)

PickerPartInv(p, cs, s, now) ==
  /\ MergedInv(p, s, now)
  /\ \A c \in cs : PickInv(c, p, s, now)
  /\ \A c, d \in cs : c.kind = "pick" /\ d.kind = "pick" => c = d
  /\ PickAwaited(p, cs)

CatalogInv ==
  /\ ConnsInv(conns) /\ stamp \in Nat /\ moves \in 0..MaxMoves
  /\ \/ screen = "page" /\ picker = Closed /\ CatalogPageInv(pg, reqs)
     \/ screen = "picker" /\ pg.catalog = NoConn /\ PickerPartInv(picker, reqs, conns, stamp)

-----------------------------------------------------------------------------
(* What the api answers. *)

LEMMA SomePages == \A n \in Nat : totalPages(n) \in Nat \ {0}
<1> SUFFICES ASSUME NEW n \in Nat, n # 0 PROVE totalPages(n) \in Nat \ {0}
  BY DEF totalPages
<1>1. Limit \in Nat /\ Limit > 0
  BY ConnectionsAssumption
<1>2. (n + Limit - 1) \div Limit \in Nat /\ (n + Limit - 1) \div Limit > 0
  BY <1>1
<1> QED BY <1>2 DEF totalPages

LEMMA MatchingInv ==
  ASSUME NEW s, ConnsInv(s), NEW found
  PROVE  ConnsInv(Matched(s, found))
<1> DEFINE K == {k \in DOMAIN s : found => s[k].hit}
<1>1. K \in SUBSET (DOMAIN s)
  OBVIOUS
<1>2. ConnsInv(Kept(s, K))
  <2> HIDE DEF K
  <2> QED BY <1>1, KeptConns
<1> QED BY <1>2 DEF Matched

LEMMA WhereIsMatching ==
  ASSUME NEW found
  PROVE  buildCatalogWhere(found) = Matched(conns, found)
BY DEF buildCatalogWhere, Matched

LEMMA Offset ==
  ASSUME NEW n \in Nat \ {0}
  PROVE  /\ (n - 1) * Limit \in Nat /\ n * Limit \in Nat
         /\ n * Limit = (n - 1) * Limit + Limit
<1>1. Limit \in Nat
  BY ConnectionsAssumption
<1>2. n - 1 \in Nat
  OBVIOUS
<1> DEFINE m == n - 1
<1>3. m \in Nat /\ n = m + 1
  BY <1>2
<1> HIDE DEF m
<1>4. (m + 1) * Limit = m * Limit + Limit /\ m * Limit \in Nat
  BY <1>1, <1>3
<1> QED BY <1>1, <1>3, <1>4 DEF m

LEMMA OnePageOf ==
  ASSUME NEW S, NEW t \in Seq(S), NEW n \in Nat \ {0}
  PROVE  /\ SkipAndTake(t, n) \in Seq(S)
         /\ SkipAndTake(t, n) =
              SubSeq(t, (n - 1) * Limit + 1, Least(n * Limit, Len(t)))
<1> DEFINE from == (n - 1) * Limit + 1  to == Least(n * Limit, Len(t))
<1> DEFINE before == (n - 1) * Limit  upto == n * Limit
<1>0. before \in Nat /\ upto \in Nat /\ Len(t) \in Nat
  BY Offset
<1>1. from \in Nat \ {0} /\ to \in Nat /\ to <= Len(t)
  <2>1. from = before + 1 /\ to = Least(upto, Len(t))
    OBVIOUS
  <2> HIDE DEF before, upto, from, to
  <2> QED BY <1>0, <2>1 DEF Least
<1>2. SkipAndTake(t, n) = SubSeq(t, from, to)
  BY DEF SkipAndTake, Least
<1> HIDE DEF from, to
<1>3. \A i \in from..to : t[i] \in S
  BY <1>1
<1>4. SubSeq(t, from, to) \in Seq(S)
  BY <1>1, <1>3, SubSeqProperties
<1> QED BY <1>2, <1>4 DEF from, to

LEMMA IdsType ==
  ASSUME NEW s \in Seq(Connections)
  PROVE  /\ IdsOf(s) \in Seq(Conns) /\ Len(IdsOf(s)) = Len(s)
         /\ \A k \in 1..Len(s) : IdsOf(s)[k] = s[k].id
<1>1. Len(s) \in Nat /\ DOMAIN s = 1..Len(s)
  OBVIOUS
<1>2. \A k \in 1..Len(s) : s[k].id \in Conns
  <2> SUFFICES ASSUME NEW k \in 1..Len(s) PROVE s[k].id \in Conns
    OBVIOUS
  <2>1. s[k] \in Connections
    BY <1>1
  <2> QED BY <2>1 DEF Connections
<1> QED BY <1>1, <1>2 DEF IdsOf

LEMMA CatalogFound ==
  ASSUME ConnsInv(conns), stamp \in Nat, NEW key \in CatKeys
  PROVE  LET a == findCatalog(key) IN
         /\ a \in Answers /\ a.key = key /\ a.seen = stamp
         /\ ~ key.oldest => AnswerIsOf(a, key, conns)
<1> DEFINE kept == buildCatalogWhere(key.search)
           all == buildCatalogOrderBy(key.oldest, kept)
           items == SkipAndTake(IdsOf(all), key.page)
<1>1. kept \in Seq(Connections) /\ kept = Matched(conns, key.search)
  BY MatchingInv, WhereIsMatching DEF ConnsInv
<1>2. key.page \in Nat \ {0} /\ key.oldest \in BOOLEAN
  BY DEF CatKeys
<1> HIDE DEF kept
<1>3. Reverse(kept) \in Seq(Connections)
  <2>1. Len(kept) \in Nat
    BY <1>1
  <2>2. \A i \in 1..Len(kept) : kept[Len(kept) - i + 1] \in Connections
    BY <1>1, <2>1
  <2> QED BY <2>1, <2>2 DEF Reverse
<1>4. all \in Seq(Connections) /\ (~ key.oldest => all = kept)
  BY <1>1, <1>3 DEF buildCatalogOrderBy
<1>5. findCatalog(key) = [key |-> key, total |-> Len(all), seen |-> stamp, items |-> items]
  BY DEF findCatalog, kept, IdsOf
<1> HIDE DEF all
<1>6. Len(all) \in Nat /\ items \in Seq(Conns)
  BY <1>2, <1>4, IdsType, OnePageOf
<1> HIDE DEF items
<1>7. [key |-> key, total |-> Len(all), seen |-> stamp, items |-> items] \in Answers
  BY <1>6 DEF Answers
<1> QED BY <1>1, <1>4, <1>5, <1>7 DEF items, AnswerIsOf

-----------------------------------------------------------------------------
(* The page's state and what its operations leave of it. *)

SameList(v, w) ==
  /\ w.catalog = v.catalog /\ w.by = v.by
  /\ w.page = v.page /\ w.search = v.search /\ w.oldest = v.oldest
SameDialog(v, w) ==
  /\ w.dialog = v.dialog /\ w.edited = v.edited
  /\ w.editing = v.editing /\ w.target = v.target
SameSigns(v, w) ==
  w.loading = v.loading /\ w.refreshing = v.refreshing /\ w.error = v.error
SameLocks(v, w) == w.submitting = v.submitting /\ w.deleting = v.deleting

Loads(v, b) ==
  IF b THEN [v EXCEPT !.refreshing = TRUE, !.error = FALSE]
  ELSE [v EXCEPT !.loading = TRUE, !.error = FALSE, !.catalog = NoConn, !.by = "none"]

LEMMA ControlsAre ==
  ASSUME NEW v \in Screens
  PROVE  /\ CatalogControls(v) \in CatKeys /\ SameSort(CatalogControls(v), v)
         /\ CatalogControls(v).page = v.page
BY DEF CatalogControls, CatKeys, SameSort, Screens

LEMMA LoadShape ==
  ASSUME NEW v \in Screens, NEW b \in BOOLEAN
  PROVE  LET w == Loads(v, b) IN
         /\ w \in Screens /\ SameDialog(v, w) /\ SameLocks(v, w) /\ ~ w.error
         /\ w.page = v.page /\ w.search = v.search /\ w.oldest = v.oldest
         /\ b => w.refreshing /\ w.loading = v.loading /\ SameList(v, w)
         /\ ~ b => w.loading /\ w.refreshing = v.refreshing /\ w.catalog = NoConn
BY DEF Loads, Screens, Owners, SameDialog, SameLocks, SameList

LEMMA FreeShape ==
  ASSUME NEW v \in Screens, NEW owner \in Owners
  PROVE  LET w == Frees(v, owner) IN
         /\ w \in Screens /\ SameList(v, w) /\ SameDialog(v, w) /\ SameSigns(v, w)
         /\ w.submitting = (v.submitting /\ owner # "submit")
         /\ w.deleting = (v.deleting /\ owner # "delete")
<1>1. CASE owner = "none"
  BY <1>1 DEF Frees, Screens, SameDialog, SameSigns, SameList
<1>2. CASE owner = "submit"
  BY <1>2 DEF Frees, Screens, SameDialog, SameSigns, SameList
<1>3. CASE owner = "delete"
  BY <1>3 DEF Frees, Screens, SameDialog, SameSigns, SameList
<1> QED BY <1>1, <1>2, <1>3 DEF Owners

LEMMA EndShape ==
  ASSUME NEW v \in Screens, NEW c \in CatalogCalls
  PROVE  LET w == Ends(v, c) IN
         /\ w \in Screens /\ SameList(v, w) /\ SameDialog(v, w) /\ w.error = v.error
         /\ w.loading = (v.loading /\ c.background)
         /\ w.refreshing = (v.refreshing /\ ~ c.background)
         /\ w.submitting = (v.submitting /\ c.owner # "submit")
         /\ w.deleting = (v.deleting /\ c.owner # "delete")
<1> DEFINE u == IF c.background THEN [v EXCEPT !.refreshing = FALSE]
                                ELSE [v EXCEPT !.loading = FALSE]
<1>1. c.background \in BOOLEAN /\ c.owner \in Owners
  BY DEF CatalogCalls
<1>2. /\ u \in Screens /\ SameList(v, u) /\ SameDialog(v, u) /\ SameLocks(v, u)
      /\ u.error = v.error
      /\ u.loading = (v.loading /\ c.background)
      /\ u.refreshing = (v.refreshing /\ ~ c.background)
  BY <1>1 DEF Screens, SameDialog, SameList, SameLocks
<1>3. Ends(v, c) = Frees(u, c.owner)
  BY DEF Ends
<1> HIDE DEF u
<1> QED BY <1>1, <1>2, <1>3, FreeShape
        DEF SameDialog, SameList, SameLocks, SameSigns

LEMMA CallKinds ==
  ASSUME NEW c \in PageCalls
  PROVE  /\ c.kind \in {"list", "edit", "submit", "delete"}
         /\ c.kind = "list" => c \in CatalogCalls /\ Owner(c) = c.owner
         /\ c.kind = "edit" => c \in EditCalls /\ Owner(c) = "edit"
         /\ c.kind = "submit" => c \in SubmitCalls /\ Owner(c) = "submit"
         /\ c.kind = "delete" => c \in DeleteCalls /\ Owner(c) = "delete"
BY DEF PageCalls, CatalogCalls, EditCalls, SubmitCalls, DeleteCalls, Owner

LEMMA NewCatalogCall ==
  ASSUME NEW key \in CatKeys, NEW b \in BOOLEAN, NEW owner \in Owners
  PROVE  LET c == CatalogCall(key, b, owner) IN
         /\ c \in PageCalls /\ c.kind = "list" /\ c.key = key /\ c.background = b
         /\ c.owner = owner /\ Owner(c) = owner /\ c.current /\ c.answer = NoConn
BY DEF CatalogCall, PageCalls, CatalogCalls, Owner

Faded(c) == IF c.kind = "list" THEN [c EXCEPT !.current = FALSE] ELSE c

LEMMA FadedShape ==
  ASSUME NEW c \in PageCalls
  PROVE  /\ Faded(c) \in PageCalls /\ Faded(c).kind = c.kind
         /\ Owner(Faded(c)) = Owner(c)
         /\ c.kind = "list" => ~ Faded(c).current /\ Faded(c).key = c.key
                               /\ Faded(c).answer = c.answer
         /\ c.kind # "list" => Faded(c) = c
<1>1. CASE c.kind = "list"
  <2>1. c \in CatalogCalls
    BY <1>1, CallKinds
  <2>2. /\ Faded(c) \in CatalogCalls /\ Faded(c).kind = "list" /\ Faded(c).owner = c.owner
        /\ ~ Faded(c).current /\ Faded(c).key = c.key /\ Faded(c).answer = c.answer
    BY <1>1, <2>1 DEF Faded, CatalogCalls
  <2> QED BY <1>1, <2>2 DEF PageCalls, Owner
<1>2. CASE c.kind # "list"
  BY <1>2 DEF Faded
<1> QED BY <1>1, <1>2

LEMMA Overtaken ==
  ASSUME NEW cs \in SUBSET PageCalls
  PROVE  \A x \in Overtake(cs) : \E c \in cs : x = Faded(c)
BY DEF Overtake, Faded

\* What a request says of the page is kept where these fields are.
LEMMA SameCall ==
  ASSUME NEW c, NEW v, NEW w, CallInv(c, v),
         w.submitting = v.submitting, w.deleting = v.deleting,
         w.editing = v.editing, w.dialog = v.dialog, w.target = v.target,
         w.search = v.search, w.oldest = v.oldest
  PROVE  CallInv(c, w)
BY DEF CallInv, SameSort

LEMMA CatalogAsked ==
  ASSUME NEW v \in Screens, NEW cs \in SUBSET PageCalls, NEW key \in CatKeys,
         NEW b \in BOOLEAN, NEW owner \in Owners,
         v.target = NoConn, b => ListFits(v), SameSort(key, v),
         owner = "none" => key = CatalogControls(v),
         owner = "submit" => v.submitting, owner = "delete" => v.deleting,
         \A c \in cs : CallInv(c, v),
         \A c, d \in cs : (Owner(c) # "none" /\ Owner(c) = Owner(d)) => c = d,
         \A c \in cs : Owner(c) = owner => owner = "none"
  PROVE  CatalogPageInv(Loads(v, b), Overtake(cs) \cup {CatalogCall(key, b, owner)})
<1> DEFINE w == Loads(v, b)  new == CatalogCall(key, b, owner)
           all == Overtake(cs) \cup {new}
<1>1. /\ w \in Screens /\ SameDialog(v, w) /\ SameLocks(v, w) /\ ~ w.error
      /\ w.page = v.page /\ w.search = v.search /\ w.oldest = v.oldest
      /\ b => w.refreshing /\ w.loading = v.loading /\ SameList(v, w)
      /\ ~ b => w.loading /\ w.refreshing = v.refreshing /\ w.catalog = NoConn
  BY LoadShape
<1>2. /\ new \in PageCalls /\ new.kind = "list" /\ new.key = key /\ new.background = b
      /\ new.owner = owner /\ Owner(new) = owner /\ new.current /\ new.answer = NoConn
  BY NewCatalogCall
<1>3. \A x \in all : x = new \/ \E c \in cs : x = Faded(c)
  BY Overtaken
<1> HIDE DEF w, new, all
<1>4. CatalogControls(w) = CatalogControls(v)
  BY <1>1 DEF CatalogControls
<1>5. ScreenInv(w)
  <2>1. ListFits(w)
    BY <1>1, <1>4 DEF ListFits, SameSort, SameList
  <2> QED BY <1>1, <2>1 DEF ScreenInv, SameDialog
<1>6. CallInv(new, w)
  BY <1>1, <1>2 DEF CallInv, SameLocks
<1>7. ASSUME NEW c \in cs PROVE CallInv(Faded(c), w) /\ Faded(c) \notin Current(all)
  <2>1. CallInv(c, w)
    BY <1>1, SameCall DEF SameDialog, SameLocks
  <2>2. c \in PageCalls
    OBVIOUS
  <2>3. /\ Faded(c) \in PageCalls /\ Faded(c).kind = c.kind
        /\ Owner(Faded(c)) = Owner(c)
        /\ c.kind = "list" => ~ Faded(c).current /\ Faded(c).key = c.key
                              /\ Faded(c).answer = c.answer
        /\ c.kind # "list" => Faded(c) = c
    BY FadedShape
  <2> DEFINE x == Faded(c)
  <2> HIDE DEF x
  <2>4. CallInv(x, w) /\ x \notin Current(all)
    BY <2>1, <2>3 DEF CallInv, Current, x
  <2> QED BY <2>4 DEF x
<1>8. CurrentInv(new, w)
  BY <1>1, <1>2, <1>4 DEF CurrentInv, SameSort, SameDialog
<1>9. \A x \in Current(all) : x = new
  <2> SUFFICES ASSUME NEW x \in Current(all) PROVE x = new
    OBVIOUS
  <2>1. x \in all
    BY DEF Current
  <2> QED BY <1>3, <1>7, <2>1
<1>10. ASSUME NEW x \in all, NEW y \in all, Owner(x) # "none", Owner(x) = Owner(y)
       PROVE  x = y
  <2>1. CASE x = new /\ y = new
    BY <2>1
  <2>2. ASSUME NEW c \in cs, x = Faded(c) \/ y = Faded(c), x = new \/ y = new
        PROVE  FALSE
    <3>1. Owner(Faded(c)) = Owner(c)
      BY FadedShape
    <3> QED BY <1>2, <1>10, <2>2, <3>1
  <2>3. ASSUME NEW c \in cs, NEW d \in cs, x = Faded(c), y = Faded(d)
        PROVE  x = y
    <3>1. Owner(Faded(c)) = Owner(c) /\ Owner(Faded(d)) = Owner(d)
      BY FadedShape
    <3>2. c = d
      BY <1>10, <2>3, <3>1
    <3> QED BY <2>3, <3>2
  <2> QED BY <1>3, <2>1, <2>2, <2>3
<1>11. OneEach(all)
  BY <1>9, <1>10 DEF OneEach
<1>12. \A x \in all : CallInv(x, w)
  BY <1>3, <1>6, <1>7
<1>13. \A x \in Current(all) : CurrentInv(x, w)
  BY <1>8, <1>9
<1> QED BY <1>5, <1>11, <1>12, <1>13 DEF CatalogPageInv, w, new, all

\* A request that has ended takes with it what it alone was waited for.
LEMMA Removed ==
  ASSUME NEW v, NEW w, NEW cs, NEW c \in cs, CatalogPageInv(v, cs), ScreenInv(w),
         w.page = v.page, w.search = v.search, w.oldest = v.oldest,
         w.target = v.target, w.dialog = "none" => v.dialog = "none",
         w.editing = v.editing \/ Owner(c) = "edit",
         w.submitting = v.submitting \/ Owner(c) = "submit",
         w.deleting = v.deleting \/ Owner(c) = "delete",
         c \in Current(cs) \/ SameSigns(v, w)
  PROVE  CatalogPageInv(w, cs \ {c})
<1> DEFINE rest == cs \ {c}
<1>1. ASSUME NEW d \in rest PROVE CallInv(d, w)
  <2>1. CallInv(d, v) /\ d \in PageCalls /\ d # c
    BY DEF CatalogPageInv, CallInv
  <2>2. Owner(d) # "none" => Owner(c) # Owner(d)
    BY <2>1 DEF CatalogPageInv, OneEach
  <2>3. d.kind = "edit" => Owner(d) = "edit"
    BY <2>1, CallKinds
  <2> QED BY <2>1, <2>2, <2>3 DEF CallInv, SameSort
<1>2. Current(rest) = Current(cs) \ {c}
  BY DEF Current
<1>3. ASSUME NEW d \in Current(rest) PROVE CurrentInv(d, w)
  <2>1. d \in Current(cs) /\ d # c /\ CurrentInv(d, v)
    BY <1>2 DEF CatalogPageInv
  <2>2. SameSigns(v, w)
    BY <2>1 DEF CatalogPageInv, OneEach
  <2> QED BY <2>1, <2>2 DEF CurrentInv, SameSigns, SameSort, CatalogControls
<1>4. OneEach(rest)
  BY <1>2 DEF CatalogPageInv, OneEach
<1> QED BY <1>1, <1>3, <1>4 DEF CatalogPageInv

\* A request that the api has answered is waited for as before.
LEMMA AnsweredKeeps ==
  ASSUME NEW v, NEW cs, NEW c \in cs, NEW x, CatalogPageInv(v, cs), CallInv(x, v),
         x.kind = c.kind, Owner(x) = Owner(c),
         c.kind = "list" => /\ x.current = c.current /\ x.key = c.key
                            /\ x.background = c.background /\ x.owner = c.owner
  PROVE  CatalogPageInv(v, (cs \ {c}) \cup {x})
<1> DEFINE all == (cs \ {c}) \cup {x}
<1>1. \A d \in all : CallInv(d, v)
  BY DEF CatalogPageInv
<1>2. \A d \in Current(all) : (d = x /\ c \in Current(cs)) \/ d \in Current(cs) \ {c}
  BY DEF Current
<1>3. c \in Current(cs) /\ x \in Current(all) => CurrentInv(x, v)
  <2>1. c \in Current(cs) => CurrentInv(c, v) /\ c.kind = "list"
    BY DEF CatalogPageInv, Current
  <2> QED BY <2>1 DEF CurrentInv
<1>4. \A d \in Current(all) : CurrentInv(d, v)
  BY <1>2, <1>3 DEF CatalogPageInv
<1>5. OneEach(all)
  <2>1. \A d, e \in Current(all) : d = e
    BY <1>2 DEF CatalogPageInv, OneEach
  <2>2. \A d, e \in all : (Owner(d) # "none" /\ Owner(d) = Owner(e)) => d = e
    BY DEF CatalogPageInv, OneEach
  <2> QED BY <2>1, <2>2 DEF OneEach
<1> QED BY <1>1, <1>4, <1>5 DEF CatalogPageInv

\* The controls have been moved from u to v.
Turned(u, v) ==
  /\ v.catalog = u.catalog /\ v.by = u.by
  /\ SameDialog(u, v) /\ SameSigns(u, v) /\ SameLocks(u, v)

LEMMA Settled ==
  ASSUME NEW u, NEW v \in Screens, NEW cs, CatalogPageInv(u, cs), Turned(u, v),
         u.target = NoConn, CatalogControls(u) = CatalogControls(pg),
         u.dialog = "none" \/ (u.search = v.search /\ u.oldest = v.oldest),
         Settle(v, cs)
  PROVE  CatalogPageInv(pg', reqs')
<1>0. u \in Screens
  BY DEF CatalogPageInv, ScreenInv
<1>1. CASE CatalogControls(v) = CatalogControls(pg)
  <2>1. pg' = v /\ reqs' = cs
    BY <1>1 DEF Settle
  <2>2. v.page = u.page /\ v.search = u.search /\ v.oldest = u.oldest
    BY <1>1 DEF CatalogControls
  <2>3. v = u
    BY <1>0, <2>2 DEF Screens, Turned, SameDialog, SameSigns, SameLocks
  <2> QED BY <2>1, <2>3
<1>2. CASE CatalogControls(v) # CatalogControls(pg)
  <2> DEFINE key == CatalogControls(v)
  <2>1. /\ pg' = Loads(v, FALSE)
        /\ reqs' = Overtake(cs) \cup {CatalogCall(key, FALSE, "none")}
    BY <1>2 DEF Settle, loadCatalog, Loads
  <2>2. key \in CatKeys /\ SameSort(key, v)
    BY ControlsAre
  <2>3. v.target = NoConn
    BY DEF Turned, SameDialog
  <2>4. cs \in SUBSET PageCalls
    BY DEF CatalogPageInv, CallInv
  <2>5. ASSUME NEW c \in cs PROVE CallInv(c, v)
    <3>1. CallInv(c, u)
      BY DEF CatalogPageInv
    <3>2. c.kind = "submit" => SameSort(c.key, v)
      BY <3>1 DEF CallInv, SameSort
    <3>3. c.kind # "delete"
      BY <3>1 DEF CallInv
    <3> QED BY <3>1, <3>2, <3>3 DEF CallInv, Turned, SameDialog, SameLocks
  <2>6. \A c, d \in cs : (Owner(c) # "none" /\ Owner(c) = Owner(d)) => c = d
    BY DEF CatalogPageInv, OneEach
  <2> HIDE DEF key
  <2>7. CatalogPageInv(Loads(v, FALSE), Overtake(cs) \cup {CatalogCall(key, FALSE, "none")})
    <3>1. FALSE \in BOOLEAN /\ "none" \in Owners
      BY DEF Owners
    <3> DEFINE b == FALSE  owner == "none"
    <3>2. b => ListFits(v)
      OBVIOUS
    <3>3. owner = "none" => key = CatalogControls(v)
      BY DEF key
    <3>4. (owner = "submit" => v.submitting) /\ (owner = "delete" => v.deleting)
      OBVIOUS
    <3>5. \A c \in cs : Owner(c) = owner => owner = "none"
      OBVIOUS
    <3>6. b \in BOOLEAN /\ owner \in Owners
      BY <3>1
    <3>7. CatalogPageInv(Loads(v, b), Overtake(cs) \cup {CatalogCall(key, b, owner)})
      <4> HIDE DEF b, owner
      <4> QED BY <2>2, <2>3, <2>4, <2>5, <2>6, <3>2, <3>3, <3>4, <3>5, <3>6, CatalogAsked
    <3> QED BY <3>7
  <2> QED BY <2>1, <2>7 DEF key
<1> QED BY <1>1, <1>2

\* loadCatalog, for the page and for who waits for its reload.
LEMMA Asked ==
  ASSUME NEW v \in Screens, NEW cs, CatalogPageInv(pg, reqs), cs \subseteq reqs,
         NEW key \in CatKeys, NEW b \in BOOLEAN, NEW owner \in Owners,
         v.target = NoConn, b => ListFits(v), SameSort(key, v),
         owner = "none" => key = CatalogControls(v),
         owner = "submit" => v.submitting, owner = "delete" => v.deleting,
         \A c \in cs : CallInv(c, v),
         \A c \in cs : Owner(c) = owner => owner = "none",
         loadCatalog(v, cs, key, b, owner)
  PROVE  CatalogPageInv(pg', reqs')
<1>1. /\ pg' = Loads(v, b)
      /\ reqs' = Overtake(cs) \cup {CatalogCall(key, b, owner)}
  BY DEF loadCatalog, Loads
<1>2. cs \in SUBSET PageCalls
  BY DEF CatalogPageInv, CallInv
<1>3. \A c, d \in cs : (Owner(c) # "none" /\ Owner(c) = Owner(d)) => c = d
  BY DEF CatalogPageInv, OneEach
<1>4. CatalogPageInv(Loads(v, b), Overtake(cs) \cup {CatalogCall(key, b, owner)})
  BY <1>2, <1>3, CatalogAsked
<1> QED BY <1>1, <1>4

\* The page changes and the requests are those before, and one more perhaps.
LEMMA BegunKeeps ==
  ASSUME NEW v, NEW cs, NEW w, NEW more, CatalogPageInv(v, cs), ScreenInv(w),
         \A c \in cs : CallInv(c, w), \A c \in Current(cs) : CurrentInv(c, w),
         \A x \in more : /\ CallInv(x, w) /\ x.kind # "list" /\ Owner(x) # "none"
                         /\ \A c \in cs : Owner(c) # Owner(x)
                         /\ \A y \in more : x = y
  PROVE  CatalogPageInv(w, cs \cup more)
<1>1. Current(cs \cup more) = Current(cs)
  BY DEF Current
<1>2. OneEach(cs \cup more)
  <2>1. OneEach(cs)
    BY DEF CatalogPageInv
  <2> QED BY <1>1, <2>1 DEF OneEach
<1> QED BY <1>1, <1>2 DEF CatalogPageInv

LEMMA TurnShape ==
  ASSUME NEW u \in Screens, NEW x \in BOOLEAN
  PROVE  /\ [u EXCEPT !.search = x, !.page = 1] \in Screens
         /\ Turned(u, [u EXCEPT !.search = x, !.page = 1])
         /\ [u EXCEPT !.oldest = x, !.page = 1] \in Screens
         /\ Turned(u, [u EXCEPT !.oldest = x, !.page = 1])
<1>1. 1 \in Nat \ {0}
  OBVIOUS
<1>2. [u EXCEPT !.search = x, !.page = 1] \in Screens
  BY <1>1 DEF Screens
<1>3. [u EXCEPT !.oldest = x, !.page = 1] \in Screens
  BY <1>1 DEF Screens
<1> QED BY <1>2, <1>3 DEF Turned, SameDialog, SameSigns, SameLocks, Screens

LEMMA TurnsKeep ==
  ASSUME CatalogPageInv(pg, reqs),
         search \/ setSort \/ resetFilters \/ \E n \in Nat : turnPage(n)
  PROVE  CatalogPageInv(pg', reqs')
<1>1. pg \in Screens
  BY DEF CatalogPageInv, ScreenInv
<1>2. pg.dialog = "none" /\ pg.target = NoConn
  BY DEF search, setSort, resetFilters, turnPage, PageClick
<1>3. ASSUME NEW v \in Screens, Turned(pg, v), Settle(v, reqs)
      PROVE  CatalogPageInv(pg', reqs')
  BY <1>2, <1>3, Settled
<1>4. CASE search
  <2> DEFINE v == [pg EXCEPT !.search = ~ @, !.page = 1]
  <2>1. v \in Screens /\ Turned(pg, v)
    <3>1. (~ pg.search) \in BOOLEAN
      OBVIOUS
    <3> QED BY <1>1, <3>1, TurnShape
  <2>2. Settle(v, reqs)
    BY <1>4 DEF search
  <2> QED BY <1>3, <2>1, <2>2
<1>5. CASE setSort
  <2> DEFINE v == [pg EXCEPT !.oldest = ~ @, !.page = 1]
  <2>1. v \in Screens /\ Turned(pg, v)
    <3>1. (~ pg.oldest) \in BOOLEAN
      OBVIOUS
    <3> QED BY <1>1, <3>1, TurnShape
  <2>2. Settle(v, reqs)
    BY <1>5 DEF setSort
  <2> QED BY <1>3, <2>1, <2>2
<1>6. CASE resetFilters
  <2> DEFINE v == [pg EXCEPT !.search = FALSE, !.page = 1]
  <2>1. v \in Screens /\ Turned(pg, v)
    <3>1. FALSE \in BOOLEAN
      OBVIOUS
    <3> QED BY <1>1, <3>1, TurnShape
  <2>2. Settle(v, reqs)
    BY <1>6 DEF resetFilters
  <2> QED BY <1>3, <2>1, <2>2
<1>7. ASSUME NEW n \in Nat, turnPage(n) PROVE CatalogPageInv(pg', reqs')
  <2> DEFINE v == [pg EXCEPT !.page = n]
  <2>1. n \in Nat \ {0}
    BY <1>7 DEF turnPage
  <2>2. v \in Screens /\ Turned(pg, v)
    BY <1>1, <2>1 DEF Screens, Turned, SameDialog, SameSigns, SameLocks
  <2>3. Settle(v, reqs)
    BY <1>7 DEF turnPage
  <2> QED BY <1>3, <2>2, <2>3
<1> QED BY <1>4, <1>5, <1>6, <1>7

LEMMA LoadsKeep ==
  ASSUME CatalogPageInv(pg, reqs), refresh \/ retryLoad
  PROVE  CatalogPageInv(pg', reqs')
<1>1. pg \in Screens /\ ListFits(pg)
  BY DEF CatalogPageInv, ScreenInv
<1>2. pg.target = NoConn
  BY DEF refresh, retryLoad, PageClick
<1> DEFINE key == CatalogControls(pg)
<1>3. key \in CatKeys /\ SameSort(key, pg)
  BY <1>1, ControlsAre
<1>4. \A c \in reqs : CallInv(c, pg)
  BY DEF CatalogPageInv
<1>5. ASSUME NEW b \in BOOLEAN, NEW owner \in Owners, owner = "none",
             loadCatalog(pg, reqs, key, b, owner)
      PROVE  CatalogPageInv(pg', reqs')
  <2>1. /\ owner = "none" => key = CatalogControls(pg)
        /\ owner = "submit" => pg.submitting
        /\ owner = "delete" => pg.deleting
        /\ \A c \in reqs : Owner(c) = owner => owner = "none"
    BY <1>5
  <2> HIDE DEF key
  <2> QED BY <1>1, <1>2, <1>3, <1>4, <1>5, <2>1, Asked
<1>6. "none" \in Owners
  BY DEF Owners
<1> QED BY <1>5, <1>6 DEF refresh, retryLoad

LEMMA DialogsKeep ==
  ASSUME CatalogPageInv(pg, reqs),
         \/ openCreateDialog \/ onClose
         \/ \E id \in Conns : handleEditClick(id) \/ setDeleteTarget(id)
  PROVE  CatalogPageInv(pg', reqs')
<1>0. ScreenInv(pg) /\ pg \in Screens
  BY DEF CatalogPageInv, ScreenInv
<1>1. \A c \in reqs : CallInv(c, pg)
  BY DEF CatalogPageInv
<1>2. \A c \in Current(reqs) : CurrentInv(c, pg)
  BY DEF CatalogPageInv
<1>3. \A c \in reqs : c.kind \in {"list", "edit", "submit", "delete"} /\ Owner(c) \in
        {"none", "submit", "delete", "edit"} /\ (c.kind # "list" => Owner(c) = c.kind)
  <2> SUFFICES ASSUME NEW c \in reqs
               PROVE  /\ c.kind \in {"list", "edit", "submit", "delete"}
                      /\ Owner(c) \in {"none", "submit", "delete", "edit"}
                      /\ c.kind # "list" => Owner(c) = c.kind
    OBVIOUS
  <2>1. c \in PageCalls
    BY <1>1 DEF CallInv
  <2>2. c \in CatalogCalls => c.owner \in Owners
    BY DEF CatalogCalls
  <2> QED BY <2>1, <2>2, CallKinds DEF Owners, Owner
<1>4. CASE openCreateDialog
  <2> DEFINE w == [pg EXCEPT !.dialog = "create"]
  <2>1. pg' = w /\ reqs' = reqs /\ pg.target = NoConn
    BY <1>4 DEF openCreateDialog, PageClick
  <2>2. /\ w \in Screens /\ SameList(pg, w) /\ SameSigns(pg, w) /\ SameLocks(pg, w)
        /\ w.dialog = "create" /\ w.target = pg.target /\ w.editing = pg.editing
    BY <1>0 DEF Screens, SameList, SameSigns, SameLocks
  <2> HIDE DEF w
  <2>3. ScreenInv(w)
    BY <1>0, <2>1, <2>2
       DEF ScreenInv, ListFits, SameSort, CatalogControls, SameList
  <2>4. \A c \in reqs : CallInv(c, w)
    BY <1>1, <2>2 DEF CallInv, SameSort, SameList, SameLocks
  <2>5. \A c \in Current(reqs) : CurrentInv(c, w)
    BY <1>2, <2>2 DEF CurrentInv, SameSort, CatalogControls, SameList, SameSigns
  <2>6. CatalogPageInv(w, reqs \cup {})
    BY <2>3, <2>4, <2>5, BegunKeeps
  <2> QED BY <2>1, <2>6
<1>5. CASE onClose
  <2> DEFINE w == pg'
  <2>1. /\ w \in Screens /\ SameList(pg, w) /\ SameSigns(pg, w) /\ SameLocks(pg, w)
        /\ w.editing = pg.editing /\ reqs' = reqs
        /\ \/ ~ pg.submitting /\ w.dialog = "none" /\ w.target = pg.target
           \/ ~ pg.deleting /\ w.target = NoConn /\ w.dialog = pg.dialog
    BY <1>0, <1>5 DEF onClose, Screens, SameList, SameSigns, SameLocks
  <2> HIDE DEF w
  <2>2. ScreenInv(w)
    BY <1>0, <2>1 DEF ScreenInv, ListFits, SameSort, CatalogControls, SameList, SameSigns
  <2>3. \A c \in reqs : CallInv(c, w)
    BY <1>1, <1>3, <2>1 DEF CallInv, SameSort, SameList, SameLocks
  <2>4. \A c \in Current(reqs) : CurrentInv(c, w)
    BY <1>2, <2>1 DEF CurrentInv, SameSort, CatalogControls, SameList, SameSigns
  <2>5. CatalogPageInv(w, reqs \cup {})
    BY <2>2, <2>3, <2>4, BegunKeeps
  <2> QED BY <2>1, <2>5 DEF w
<1>6. ASSUME NEW id \in Conns, handleEditClick(id) PROVE CatalogPageInv(pg', reqs')
  <2> DEFINE w == [pg EXCEPT !.editing = id]
             x == [kind |-> "edit", id |-> id, answer |-> NoConn]
  <2>1. /\ pg' = w /\ reqs' = reqs \cup {x} /\ pg.target = NoConn
        /\ pg.editing = NoConn
    BY <1>6 DEF handleEditClick, PageClick, controlsDisabled
  <2>2. /\ w \in Screens /\ SameList(pg, w) /\ SameSigns(pg, w) /\ SameLocks(pg, w)
        /\ w.dialog = pg.dialog /\ w.target = pg.target /\ w.editing = id
    BY <1>0 DEF Screens, SameList, SameSigns, SameLocks
  <2>3. x \in PageCalls /\ x.kind = "edit" /\ Owner(x) = "edit" /\ x.id = id
    BY DEF PageCalls, EditCalls, Owner
  <2> HIDE DEF w, x
  <2>4. ScreenInv(w)
    BY <1>0, <2>1, <2>2
       DEF ScreenInv, ListFits, SameSort, CatalogControls, SameList
  <2>5. \A c \in reqs : c.kind # "edit"
    <3> SUFFICES ASSUME NEW c \in reqs, c.kind = "edit" PROVE FALSE
      OBVIOUS
    <3>1. c \in EditCalls /\ c.id = NoConn
      BY <1>1, <2>1, CallKinds DEF CallInv
    <3> QED BY <3>1, ConnectionsAssumption DEF EditCalls
  <2>6. \A c \in reqs : CallInv(c, w)
    BY <1>1, <2>2, <2>5 DEF CallInv, SameSort, SameList, SameLocks
  <2>7. \A c \in Current(reqs) : CurrentInv(c, w)
    BY <1>2, <2>2 DEF CurrentInv, SameSort, CatalogControls, SameList, SameSigns
  <2>8. CallInv(x, w)
    BY <2>2, <2>3 DEF CallInv
  <2>9. \A c \in reqs : Owner(c) # "edit"
    <3> SUFFICES ASSUME NEW c \in reqs PROVE Owner(c) # "edit"
      OBVIOUS
    <3>1. c \in PageCalls
      BY <1>1 DEF CallInv
    <3>2. c \in CatalogCalls => c.owner # "edit"
      BY DEF CatalogCalls, Owners
    <3> QED BY <2>5, <3>1, <3>2, CallKinds
  <2>10. CatalogPageInv(w, reqs \cup {x})
    <3> DEFINE more == {x}
    <3>1. \A y \in more : /\ CallInv(y, w) /\ y.kind # "list" /\ Owner(y) # "none"
                          /\ \A c \in reqs : Owner(c) # Owner(y)
                          /\ \A z \in more : y = z
      BY <2>3, <2>8, <2>9
    <3> HIDE DEF more
    <3>2. CatalogPageInv(w, reqs \cup more)
      BY <2>4, <2>6, <2>7, <3>1, BegunKeeps
    <3> QED BY <3>2 DEF more
  <2> QED BY <2>1, <2>10
<1>7. ASSUME NEW id \in Conns, setDeleteTarget(id) PROVE CatalogPageInv(pg', reqs')
  <2> DEFINE w == [pg EXCEPT !.target = id]
  <2>1. /\ pg' = w /\ reqs' = reqs /\ pg.dialog = "none" /\ pg.editing = NoConn
        /\ ~ pg.loading /\ ~ pg.refreshing
    BY <1>7 DEF setDeleteTarget, PageClick, controlsDisabled, RowsShown
  <2>2. /\ w \in Screens /\ SameList(pg, w) /\ SameSigns(pg, w) /\ SameLocks(pg, w)
        /\ w.dialog = pg.dialog /\ w.target = id /\ w.editing = pg.editing
    BY <1>0 DEF Screens, SameList, SameSigns, SameLocks
  <2> HIDE DEF w
  <2>3. ScreenInv(w)
    BY <1>0, <2>1, <2>2
       DEF ScreenInv, ListFits, SameSort, CatalogControls, SameList, SameSigns
  <2>4. \A c \in reqs : CallInv(c, w)
    BY <1>1, <2>2, ConnectionsAssumption DEF CallInv, SameSort, SameList, SameLocks
  <2>5. \A c \in Current(reqs) : CurrentInv(c, w)
    BY <1>2, <2>1 DEF CurrentInv
  <2>6. CatalogPageInv(w, reqs \cup {})
    BY <2>3, <2>4, <2>5, BegunKeeps
  <2> QED BY <2>1, <2>6
<1> QED BY <1>4, <1>5, <1>6, <1>7

LEMMA OwnersAre ==
  ASSUME NEW c \in PageCalls
  PROVE  /\ Owner(c) \in {"none", "submit", "delete", "edit"}
         /\ c.kind # "list" => Owner(c) = c.kind
         /\ c.kind = "list" => Owner(c) # "edit"
<1>1. c \in CatalogCalls => c.owner \in Owners
  BY DEF CatalogCalls
<1> QED BY <1>1, CallKinds DEF Owners

LEMMA ConfirmsKeep ==
  ASSUME CatalogPageInv(pg, reqs),
         handleDeleteConfirm \/ \E hit \in BOOLEAN : handleSubmit(hit)
  PROVE  CatalogPageInv(pg', reqs')
<1>0. ScreenInv(pg) /\ pg \in Screens
  BY DEF CatalogPageInv, ScreenInv
<1>1. \A c \in reqs : CallInv(c, pg) /\ c \in PageCalls
  BY DEF CatalogPageInv, CallInv
<1>2. \A c \in Current(reqs) : CurrentInv(c, pg)
  BY DEF CatalogPageInv
<1> DEFINE key == CatalogControls(pg)
<1>3. key \in CatKeys /\ SameSort(key, pg)
  BY <1>0, ControlsAre
<1> HIDE DEF key
<1>4. ASSUME NEW w \in Screens, NEW x, NEW kind \in {"submit", "delete"},
             SameList(pg, w), SameDialog(pg, w), SameSigns(pg, w),
             w.submitting = (pg.submitting \/ kind = "submit"),
             w.deleting = (pg.deleting \/ kind = "delete"),
             CallInv(x, w), x.kind = kind,
             \A c \in reqs : Owner(c) # kind
      PROVE  CatalogPageInv(w, reqs \cup {x})
  <2>1. ScreenInv(w)
    BY <1>0, <1>4
       DEF ScreenInv, ListFits, SameSort, CatalogControls, SameList, SameDialog, SameSigns
  <2>2. \A c \in reqs : CallInv(c, w)
    BY <1>1, <1>4 DEF CallInv, SameSort, SameList, SameDialog
  <2>3. \A c \in Current(reqs) : CurrentInv(c, w)
    BY <1>2, <1>4
       DEF CurrentInv, SameSort, CatalogControls, SameList, SameSigns, SameDialog
  <2> DEFINE more == {x}
  <2>4. \A y \in more : /\ CallInv(y, w) /\ y.kind # "list" /\ Owner(y) # "none"
                        /\ \A c \in reqs : Owner(c) # Owner(y)
                        /\ \A z \in more : y = z
    BY <1>4 DEF Owner
  <2> HIDE DEF more
  <2>5. CatalogPageInv(w, reqs \cup more)
    BY <2>1, <2>2, <2>3, <2>4, BegunKeeps
  <2> QED BY <2>5 DEF more
<1>5. CASE handleDeleteConfirm
  <2> DEFINE w == [pg EXCEPT !.deleting = TRUE]
             x == [kind |-> "delete", id |-> pg.target, key |-> key, answer |-> NoConn]
  <2>1. /\ pg' = w /\ reqs' = reqs \cup {x} /\ pg.target # NoConn /\ ~ pg.deleting
    BY <1>5 DEF handleDeleteConfirm, key
  <2>2. /\ w \in Screens /\ SameList(pg, w) /\ SameDialog(pg, w) /\ SameSigns(pg, w)
        /\ w.submitting = pg.submitting /\ w.deleting
    BY <1>0 DEF Screens, SameList, SameSigns, SameDialog
  <2>3. x \in PageCalls /\ x.kind = "delete" /\ Owner(x) = "delete" /\ x.key = key
    BY <1>0, <1>3, <2>1 DEF PageCalls, DeleteCalls, Owner, Screens
  <2> HIDE DEF w, x
  <2>4. CallInv(x, w)
    BY <1>3, <2>1, <2>2, <2>3 DEF CallInv, SameSort, SameList, SameDialog
  <2>5. \A c \in reqs : Owner(c) # "delete"
    BY <1>1, <2>1 DEF CallInv
  <2>6. CatalogPageInv(w, reqs \cup {x})
    <3>1. w.deleting \in BOOLEAN /\ pg.deleting \in BOOLEAN
      BY <1>0, <2>2 DEF Screens
    <3>2. w.submitting = (pg.submitting \/ "delete" = "submit")
      BY <1>0, <2>2 DEF Screens
    <3> QED BY <1>4, <2>2, <2>3, <2>4, <2>5, <3>1, <3>2
  <2> QED BY <2>1, <2>6
<1>6. ASSUME NEW hit \in BOOLEAN, handleSubmit(hit) PROVE CatalogPageInv(pg', reqs')
  <2> DEFINE w == [pg EXCEPT !.submitting = TRUE]
             id == IF pg.dialog = "edit" THEN pg.edited ELSE NoConn
             x == [kind |-> "submit", hit |-> hit, key |-> key, id |-> id,
                   answer |-> NoConn]
  <2>1. /\ pg' = w /\ reqs' = reqs \cup {x} /\ pg.dialog # "none" /\ ~ pg.submitting
    BY <1>6 DEF handleSubmit, key
  <2>2. /\ w \in Screens /\ SameList(pg, w) /\ SameDialog(pg, w) /\ SameSigns(pg, w)
        /\ w.deleting = pg.deleting /\ w.submitting
    BY <1>0 DEF Screens, SameList, SameSigns, SameDialog
  <2>3. id \in Conns \cup {NoConn}
    BY <1>0 DEF Screens
  <2> HIDE DEF id
  <2>4. x \in PageCalls /\ x.kind = "submit" /\ Owner(x) = "submit" /\ x.key = key
    BY <1>3, <2>3 DEF PageCalls, SubmitCalls, Owner
  <2> HIDE DEF w, x
  <2>5. CallInv(x, w)
    BY <1>3, <2>1, <2>2, <2>4 DEF CallInv, SameSort, SameList, SameDialog
  <2>6. \A c \in reqs : Owner(c) # "submit"
    BY <1>1, <2>1 DEF CallInv
  <2>7. CatalogPageInv(w, reqs \cup {x})
    <3>1. w.deleting = (pg.deleting \/ "submit" = "delete")
      BY <1>0, <2>2 DEF Screens
    <3>2. w.submitting = (pg.submitting \/ "submit" = "submit")
      BY <2>2, <1>0 DEF Screens
    <3> QED BY <1>4, <2>2, <2>4, <2>5, <2>6, <3>1, <3>2
  <2> QED BY <2>1, <2>7
<1> QED BY <1>5, <1>6

\* Who waits for a reload that is not its own any more is let go all the same.
LEMMA FreedKeeps ==
  ASSUME CatalogPageInv(pg, reqs), NEW c \in reqs, NEW owner \in Owners,
         Owner(c) = owner \/ owner = "none"
  PROVE  CatalogPageInv(Frees(pg, owner), reqs \ {c})
<1> DEFINE w == Frees(pg, owner)
<1>0. ScreenInv(pg) /\ pg \in Screens
  BY DEF CatalogPageInv, ScreenInv
<1>1. /\ w \in Screens /\ SameList(pg, w) /\ SameDialog(pg, w) /\ SameSigns(pg, w)
      /\ w.submitting = (pg.submitting /\ owner # "submit")
      /\ w.deleting = (pg.deleting /\ owner # "delete")
  BY <1>0, FreeShape
<1> HIDE DEF w
<1>2. ScreenInv(w)
  BY <1>0, <1>1
     DEF ScreenInv, ListFits, SameSort, CatalogControls, SameList, SameDialog, SameSigns
<1>3. pg.submitting \in BOOLEAN /\ pg.deleting \in BOOLEAN
  BY <1>0 DEF Screens
<1>4. /\ w.submitting = pg.submitting \/ Owner(c) = "submit"
      /\ w.deleting = pg.deleting \/ Owner(c) = "delete"
  BY <1>1, <1>3
<1>5. /\ w.page = pg.page /\ w.search = pg.search /\ w.oldest = pg.oldest
      /\ w.target = pg.target /\ w.dialog = pg.dialog /\ w.editing = pg.editing
  BY <1>1 DEF SameList, SameDialog
<1>6. CatalogPageInv(w, reqs \ {c})
  BY <1>1, <1>2, <1>4, <1>5, Removed
<1> QED BY <1>6 DEF w

LEMMA CatalogEnds ==
  ASSUME CatalogPageInv(pg, reqs), NEW c \in reqs, c.kind = "list", c.current,
         NEW w \in Screens, NEW v, v = Ends(pg, c),
         ListFits(w), SameDialog(v, w), SameLocks(v, w), w.loading = v.loading,
         w.page = v.page, w.search = v.search, w.oldest = v.oldest
  PROVE  CatalogPageInv(w, reqs \ {c})
<1>0. ScreenInv(pg) /\ pg \in Screens /\ CallInv(c, pg) /\ c \in PageCalls
  BY DEF CatalogPageInv, ScreenInv, CallInv
<1>1. c \in CatalogCalls /\ Owner(c) = c.owner
  BY <1>0, CallKinds
<1>2. /\ v \in Screens /\ SameList(pg, v) /\ SameDialog(pg, v) /\ v.error = pg.error
      /\ v.loading = (pg.loading /\ c.background)
      /\ v.refreshing = (pg.refreshing /\ ~ c.background)
      /\ v.submitting = (pg.submitting /\ c.owner # "submit")
      /\ v.deleting = (pg.deleting /\ c.owner # "delete")
  BY <1>0, <1>1, EndShape
<1>3. pg.submitting \in BOOLEAN /\ pg.deleting \in BOOLEAN
  BY <1>0 DEF Screens
<1>4. /\ w.submitting = pg.submitting \/ Owner(c) = "submit"
      /\ w.deleting = pg.deleting \/ Owner(c) = "delete"
  BY <1>1, <1>2, <1>3 DEF SameLocks
<1>5. ScreenInv(w)
  BY <1>0, <1>2 DEF ScreenInv, SameDialog
<1>6. /\ w.page = pg.page /\ w.search = pg.search /\ w.oldest = pg.oldest
      /\ w.target = pg.target /\ w.dialog = pg.dialog /\ w.editing = pg.editing
  BY <1>2 DEF SameList, SameDialog
<1>7. c \in Current(reqs)
  BY DEF Current
<1> QED BY <1>4, <1>5, <1>6, <1>7, Removed

Took(v, w, a, o) ==
  /\ w \in Screens /\ SameDialog(v, w) /\ SameLocks(v, w) /\ SameSigns(v, w)
  /\ w.page = v.page /\ w.search = v.search /\ w.oldest = v.oldest
  /\ w.catalog = a /\ w.by = o

LEMMA TakeShape ==
  ASSUME NEW v \in Screens, NEW a \in Answers, NEW o \in Owners
  PROVE  Took(v, [v EXCEPT !.catalog = a, !.by = o], a, o)
<1> DEFINE w == [v EXCEPT !.catalog = a, !.by = o]
<1>1. w \in Screens
  BY DEF Screens
<1>2. /\ SameDialog(v, w) /\ SameLocks(v, w) /\ SameSigns(v, w)
      /\ w.page = v.page /\ w.search = v.search /\ w.oldest = v.oldest
      /\ w.catalog = a /\ w.by = o
  BY <1>1 DEF Screens, SameDialog, SameLocks, SameSigns
<1> QED BY <1>1, <1>2 DEF Took

LEMMA CatalogAnswerKeeps ==
  ASSUME CatalogPageInv(pg, reqs), NEW c \in reqs, catalogAnswer(c)
  PROVE  CatalogPageInv(pg', reqs')
<1>0. ScreenInv(pg) /\ pg \in Screens /\ CallInv(c, pg) /\ c \in PageCalls /\ c.kind = "list"
  BY DEF CatalogPageInv, ScreenInv, CallInv, catalogAnswer
<1>1. c \in CatalogCalls /\ Owner(c) = c.owner /\ c.owner \in Owners
  BY <1>0, CallKinds DEF CatalogCalls
<1>2. c.answer \in Answers /\ c.answer.key = c.key
  BY <1>0, <1>1 DEF catalogAnswer, CatalogCalls, CallInv
<1>3. CASE ~ c.current
  <2>1. pg' = Frees(pg, c.owner) /\ reqs' = reqs \ {c}
    BY <1>3 DEF catalogAnswer
  <2> QED BY <1>1, <2>1, FreedKeeps
<1>4. CASE c.current
  <2> DEFINE a == c.answer  v == Ends(pg, c)  last == totalPages(a.total)
  <2>1. /\ v \in Screens /\ SameList(pg, v) /\ SameDialog(pg, v)
    BY <1>0, <1>1, EndShape
  <2>2. CurrentInv(c, pg)
    BY <1>0, <1>4 DEF CatalogPageInv, Current
  <2>3. last \in Nat \ {0}
    <3>1. a.total \in Nat
      BY <1>2 DEF Answers
    <3> QED BY <3>1, SomePages
  <2>4. \/ Settle([v EXCEPT !.page = last], reqs \ {c})
        \/ pg' = [v EXCEPT !.catalog = a, !.by = c.owner] /\ reqs' = reqs \ {c}
    BY <1>4 DEF catalogAnswer
  <2>5. CASE pg' = [v EXCEPT !.catalog = a, !.by = c.owner] /\ reqs' = reqs \ {c}
    <3> DEFINE w == [v EXCEPT !.catalog = a, !.by = c.owner]
    <3>1. /\ w \in Screens /\ SameDialog(v, w) /\ SameLocks(v, w) /\ SameSigns(v, w)
          /\ w.page = v.page /\ w.search = v.search /\ w.oldest = v.oldest
          /\ w.catalog = a /\ w.by = c.owner
      <4>1. a \in Answers /\ v \in Screens /\ c.owner \in Owners
        BY <1>1, <1>2, <2>1
      <4> HIDE DEF a, v
      <4>2. Took(v, [v EXCEPT !.catalog = a, !.by = c.owner], a, c.owner)
        BY <4>1, TakeShape, Zenon
      <4>3. Took(v, w, a, c.owner)
        BY <4>2
      <4> HIDE DEF w
      <4> QED BY <4>3 DEF Took
    <3>2. pg' = w /\ reqs' = reqs \ {c}
      BY <2>5
    <3> HIDE DEF w
    <3>3. ListFits(w)
      BY <1>2, <2>1, <2>2, <3>1
         DEF ListFits, CurrentInv, SameSort, CatalogControls, SameList
    <3>4. w.loading = v.loading
      BY <3>1 DEF SameSigns
    <3> HIDE DEF v
    <3>5. v = Ends(pg, c)
      BY DEF v
    <3>6. CatalogPageInv(w, reqs \ {c})
      BY <1>0, <1>4, <3>1, <3>3, <3>4, <3>5, CatalogEnds
    <3> QED BY <3>2, <3>6
  <2>6. CASE Settle([v EXCEPT !.page = last], reqs \ {c})
    <3> DEFINE w == [v EXCEPT !.page = last]
    <3>1. Settle(w, reqs \ {c})
      BY <2>6
    <3>2. w \in Screens /\ Turned(v, w) /\ w.search = v.search /\ w.oldest = v.oldest
      <4> HIDE DEF v, last
      <4> QED BY <2>1, <2>3 DEF Screens, Turned, SameDialog, SameLocks, SameSigns
    <3> HIDE DEF w, last
    <3>3. CatalogPageInv(v, reqs \ {c})
      <4>1. ListFits(v)
        BY <1>0, <2>1 DEF ScreenInv, ListFits, SameSort, CatalogControls, SameList
      <4>2. SameDialog(v, v) /\ SameLocks(v, v)
        BY DEF SameDialog, SameLocks
      <4> QED BY <1>0, <1>4, <2>1, <4>1, <4>2, CatalogEnds
    <3>4. v.target = NoConn /\ CatalogControls(v) = CatalogControls(pg)
      BY <2>1, <2>2 DEF CurrentInv, SameDialog, SameList, CatalogControls
    <3> HIDE DEF v
    <3> QED BY <3>1, <3>2, <3>3, <3>4, Settled
  <2> QED BY <2>4, <2>5, <2>6
<1> QED BY <1>0, <1>1, <1>3, <1>4 DEF CatalogCalls

LEMMA EditEnds ==
  ASSUME CatalogPageInv(pg, reqs), NEW c \in reqs, c.kind = "edit",
         NEW w \in Screens, SameList(pg, w), SameSigns(pg, w), SameLocks(pg, w),
         w.target = pg.target, w.editing = NoConn,
         w.dialog = pg.dialog \/ w.dialog = "edit"
  PROVE  CatalogPageInv(w, reqs \ {c})
<1>0. ScreenInv(pg) /\ pg \in Screens /\ CallInv(c, pg) /\ c \in PageCalls
  BY DEF CatalogPageInv, ScreenInv, CallInv
<1>1. c.id \in Conns /\ pg.editing = c.id /\ Owner(c) = "edit"
  BY <1>0, CallKinds DEF CallInv, EditCalls
<1>2. pg.target = NoConn
  BY <1>0, <1>1, ConnectionsAssumption DEF ScreenInv
<1>3. ScreenInv(w)
  BY <1>0, <1>2 DEF ScreenInv, ListFits, SameSort, CatalogControls, SameList
<1>4. w.page = pg.page /\ w.search = pg.search /\ w.oldest = pg.oldest
  BY DEF SameList
<1>5. w.submitting = pg.submitting /\ w.deleting = pg.deleting
  BY DEF SameLocks
<1>6. w.dialog = "none" => pg.dialog = "none"
  OBVIOUS
<1> QED BY <1>1, <1>3, <1>4, <1>5, <1>6, Removed

LEMMA ReloadsKeep ==
  ASSUME CatalogPageInv(pg, reqs), NEW c \in reqs, submitAnswer(c) \/ deleteAnswer(c)
  PROVE  CatalogPageInv(pg', reqs')
<1>0. ScreenInv(pg) /\ pg \in Screens /\ CallInv(c, pg) /\ c \in PageCalls
  BY DEF CatalogPageInv, ScreenInv, CallInv
<1>1. ASSUME NEW owner \in {"submit", "delete"}, NEW v \in Screens,
             c.kind = owner, SameList(pg, v), SameLocks(pg, v), v.editing = pg.editing,
             v.target = NoConn, owner = "delete" => v.dialog = pg.dialog,
             owner = "submit" => pg.target = NoConn,
             loadCatalog(v, reqs \ {c}, c.key, TRUE, owner)
      PROVE  CatalogPageInv(pg', reqs')
  <2> DEFINE cs == reqs \ {c}
  <2>1. ListFits(v)
    BY <1>0, <1>1 DEF ScreenInv, ListFits, SameSort, CatalogControls, SameList
  <2>2. Owner(c) = owner /\ c.key \in CatKeys /\ SameSort(c.key, v)
    BY <1>0, <1>1, CallKinds DEF CallInv, SubmitCalls, DeleteCalls, SameSort, SameList
  <2>3. (owner = "submit" => v.submitting) /\ (owner = "delete" => v.deleting)
    BY <1>0, <1>1, <2>2 DEF CallInv, SameLocks
  <2>4. \A d \in cs : Owner(d) # owner
    BY <1>1, <2>2 DEF CatalogPageInv, OneEach
  <2>5. ASSUME NEW d \in cs PROVE CallInv(d, v)
    <3>1. CallInv(d, pg) /\ d \in PageCalls
      BY DEF CatalogPageInv, CallInv
    <3>2. Owner(d) # owner
      BY <2>4
    <3>3. (d.kind = "submit" => Owner(d) = "submit") /\ (d.kind = "delete" => Owner(d) = "delete")
      BY <3>1, CallKinds
    <3>4. d.kind = "submit" => v.dialog # "none"
      BY <1>1, <3>1, <3>2, <3>3 DEF CallInv
    <3>5. d.kind # "delete"
      BY <1>1, <3>1, <3>2, <3>3 DEF CallInv
    <3> QED BY <1>1, <3>1, <3>4, <3>5 DEF CallInv, SameSort, SameList, SameLocks
  <2>6. /\ owner \in Owners
        /\ \A d \in cs : Owner(d) = owner => owner = "none"
        /\ owner = "none" => c.key = CatalogControls(v)
        /\ cs \subseteq reqs /\ TRUE \in BOOLEAN
    BY <1>1, <2>4 DEF Owners
  <2> DEFINE b == TRUE  key == c.key
  <2>7. /\ b \in BOOLEAN /\ key \in CatKeys /\ SameSort(key, v) /\ (b => ListFits(v))
        /\ loadCatalog(v, cs, key, b, owner)
        /\ (owner = "none" => key = CatalogControls(v))
    BY <1>1, <2>1, <2>2, <2>6
  <2> HIDE DEF cs, b, key
  <2> QED BY <1>1, <2>3, <2>5, <2>6, <2>7, Asked
<1>2. CASE submitAnswer(c)
  <2> DEFINE v == [pg EXCEPT !.dialog = "none"]
  <2>1. /\ v \in Screens /\ SameList(pg, v) /\ SameLocks(pg, v) /\ v.editing = pg.editing
        /\ v.target = pg.target
    BY <1>0 DEF Screens, SameList, SameLocks
  <2>2. c.kind = "submit" /\ loadCatalog(v, reqs \ {c}, c.key, TRUE, "submit")
    BY <1>2 DEF submitAnswer
  <2>3. pg.target = NoConn
    BY <1>0, <2>2 DEF CallInv, ScreenInv
  <2> HIDE DEF v
  <2> QED BY <1>1, <2>1, <2>2, <2>3
<1>3. CASE deleteAnswer(c)
  <2> DEFINE v == [pg EXCEPT !.target = NoConn]
  <2>1. /\ v \in Screens /\ SameList(pg, v) /\ SameLocks(pg, v) /\ v.editing = pg.editing
        /\ v.target = NoConn /\ v.dialog = pg.dialog
    BY <1>0 DEF Screens, SameList, SameLocks
  <2>2. c.kind = "delete" /\ loadCatalog(v, reqs \ {c}, c.key, TRUE, "delete")
    BY <1>3 DEF deleteAnswer
  <2> HIDE DEF v
  <2> QED BY <1>1, <2>1, <2>2
<1> QED BY <1>2, <1>3

LEMMA FailureKeeps ==
  ASSUME CatalogPageInv(pg, reqs), NEW c \in reqs, requestFails(c)
  PROVE  CatalogPageInv(pg', reqs')
<1>0. ScreenInv(pg) /\ pg \in Screens /\ CallInv(c, pg) /\ c \in PageCalls
  BY DEF CatalogPageInv, ScreenInv, CallInv
<1>1. reqs' = reqs \ {c} /\ c.kind \in {"list", "edit", "submit", "delete"}
  BY <1>0, CallKinds DEF requestFails
<1>2. CASE c.kind = "list"
  <2>1. c \in CatalogCalls /\ Owner(c) = c.owner /\ c.owner \in Owners
    BY <1>0, <1>2, CallKinds DEF CatalogCalls
  <2>2. CASE ~ c.current
    <3>1. pg' = Frees(pg, c.owner)
      BY <1>2, <2>2 DEF requestFails
    <3> QED BY <1>1, <2>1, <3>1, FreedKeeps
  <2>3. CASE c.current
    <3> DEFINE v == Ends(pg, c)  w == [v EXCEPT !.error = TRUE]
    <3>1. pg' = w
      BY <1>2, <2>3 DEF requestFails
    <3>2. v \in Screens /\ SameList(pg, v)
      BY <1>0, <2>1, EndShape
    <3> HIDE DEF v
    <3>3. /\ w \in Screens /\ SameList(v, w) /\ SameDialog(v, w) /\ SameLocks(v, w)
          /\ w.loading = v.loading
      BY <3>2 DEF Screens, SameList, SameDialog, SameLocks
    <3> HIDE DEF w
    <3>4. ListFits(w)
      BY <1>0, <3>2, <3>3 DEF ScreenInv, ListFits, SameSort, CatalogControls, SameList
    <3>5. v = Ends(pg, c) /\ w.page = v.page /\ w.search = v.search /\ w.oldest = v.oldest
      BY <3>3 DEF v, SameList
    <3>6. CatalogPageInv(w, reqs \ {c})
      BY <1>2, <2>3, <3>3, <3>4, <3>5, CatalogEnds
    <3> QED BY <1>1, <3>1, <3>6
  <2> QED BY <2>1, <2>2, <2>3 DEF CatalogCalls
<1>3. CASE c.kind = "edit"
  <2> DEFINE w == [pg EXCEPT !.editing = NoConn]
  <2>1. pg' = w
    BY <1>3 DEF requestFails
  <2>2. /\ w \in Screens /\ SameList(pg, w) /\ SameSigns(pg, w) /\ SameLocks(pg, w)
        /\ w.dialog = pg.dialog /\ w.target = pg.target /\ w.editing = NoConn
    BY <1>0 DEF Screens, SameList, SameSigns, SameLocks
  <2> HIDE DEF w
  <2>3. CatalogPageInv(w, reqs \ {c})
    BY <1>3, <2>2, EditEnds
  <2> QED BY <1>1, <2>1, <2>3
<1>4. CASE c.kind \in {"submit", "delete"}
  <2>1. pg' = Frees(pg, c.kind)
    BY <1>4 DEF requestFails
  <2>2. c.kind \in Owners /\ Owner(c) = c.kind
    BY <1>0, <1>4, CallKinds DEF Owners
  <2> QED BY <1>1, <2>1, <2>2, FreedKeeps
<1> QED BY <1>1, <1>2, <1>3, <1>4

LEMMA AnswersKeep ==
  ASSUME CatalogPageInv(pg, reqs), NEW c \in reqs, PageAnswer(c)
  PROVE  CatalogPageInv(pg', reqs')
<1>1. CASE editAnswer(c)
  <2>0. pg \in Screens /\ c \in PageCalls /\ c.kind = "edit"
    BY <1>1 DEF CatalogPageInv, ScreenInv, CallInv, editAnswer
  <2>1. c.id \in Conns
    BY <2>0, CallKinds DEF EditCalls
  <2> DEFINE w == [pg EXCEPT !.editing = NoConn, !.dialog = "edit", !.edited = c.id]
  <2>2. pg' = w /\ reqs' = reqs \ {c}
    BY <1>1 DEF editAnswer
  <2>3. ASSUME NEW u \in Screens, NEW id \in Conns
        PROVE  LET y == [u EXCEPT !.editing = NoConn, !.dialog = "edit", !.edited = id] IN
               /\ y \in Screens /\ SameList(u, y) /\ SameSigns(u, y) /\ SameLocks(u, y)
               /\ y.dialog = "edit" /\ y.target = u.target /\ y.editing = NoConn
    <3> DEFINE y == [u EXCEPT !.editing = NoConn, !.dialog = "edit", !.edited = id]
    <3>1. y \in Screens
      BY DEF Screens
    <3> QED BY <3>1 DEF Screens, SameList, SameSigns, SameLocks
  <2>4. /\ w \in Screens /\ SameList(pg, w) /\ SameSigns(pg, w) /\ SameLocks(pg, w)
        /\ w.dialog = "edit" /\ w.target = pg.target /\ w.editing = NoConn
    BY <2>0, <2>1, <2>3
  <2> HIDE DEF w
  <2>5. CatalogPageInv(w, reqs \ {c})
    BY <2>0, <2>4, EditEnds
  <2> QED BY <2>2, <2>5
<1>2. \/ catalogAnswer(c) \/ editAnswer(c) \/ submitAnswer(c) \/ deleteAnswer(c)
      \/ requestFails(c)
  BY DEF PageAnswer
<1> QED BY <1>1, <1>2, CatalogAnswerKeeps, ReloadsKeep, FailureKeeps

-----------------------------------------------------------------------------
(* The picker: pages put together. *)

LEMMA MatchingIds ==
  ASSUME NEW s, ConnsInv(s), NEW found
  PROVE  LET m == Matched(s, found) IN
         /\ IdsOf(m) \in Seq(Conns) /\ Len(IdsOf(m)) = Len(m) /\ Len(m) \in Nat
         /\ \A j, k \in 1..Len(m) : IdsOf(m)[j] = IdsOf(m)[k] => j = k
<1> DEFINE m == Matched(s, found)
<1>1. ConnsInv(m)
  BY MatchingInv
<1> HIDE DEF m
<1>2. m \in Seq(Connections) /\ Len(m) \in Nat /\ DOMAIN m = 1..Len(m)
  BY <1>1 DEF ConnsInv
<1>3. /\ IdsOf(m) \in Seq(Conns) /\ Len(IdsOf(m)) = Len(m)
      /\ \A k \in 1..Len(m) : IdsOf(m)[k] = m[k].id
  BY <1>2, IdsType
<1>4. \A j, k \in 1..Len(m) : IdsOf(m)[j] = IdsOf(m)[k] => j = k
  BY <1>1, <1>2, <1>3 DEF ConnsInv
<1> QED BY <1>2, <1>3, <1>4 DEF m

LEMMA BeginningIs ==
  ASSUME NEW s, ConnsInv(s), NEW found, NEW n \in Nat
  PROVE  LET m == Matched(s, found) IN
         /\ TheFirst(s, found, n) = SubSeq(IdsOf(m), 1, Least(n, Len(m)))
         /\ TheFirst(s, found, n) \in Seq(Conns)
         /\ Len(TheFirst(s, found, n)) = Least(n, Len(m))
<1> DEFINE m == Matched(s, found)  ids == IdsOf(m)  to == Least(n, Len(m))
<1>1. ids \in Seq(Conns) /\ Len(ids) = Len(m) /\ Len(m) \in Nat
  BY MatchingIds
<1>2. TheFirst(s, found, n) = [k \in 1..to |-> ids[k]]
  BY DEF TheFirst
<1> HIDE DEF m, ids
<1>3. to \in Nat /\ to <= Len(ids)
  BY <1>1 DEF Least
<1> HIDE DEF to
<1>4. \A k \in 1..to : ids[k] \in Conns
  BY <1>1, <1>3
<1>5. /\ SubSeq(ids, 1, to) \in Seq(Conns) /\ Len(SubSeq(ids, 1, to)) = to
      /\ \A k \in 1..to : SubSeq(ids, 1, to)[k] = ids[k]
  <2>1. \A k \in 1..to : ids[k] \in Conns
    BY <1>4
  <2> QED BY <1>1, <1>3, <2>1
<1>6. SubSeq(ids, 1, to) = [k \in 1..to |-> ids[k]]
  BY <1>3, <1>5
<1> QED BY <1>2, <1>5, <1>6 DEF m, ids, to

LEMMA FirstPage ==
  ASSUME NEW s, ConnsInv(s), NEW found
  PROVE  SkipAndTake(IdsOf(Matched(s, found)), 1) = TheFirst(s, found, 1 * Limit)
<1> DEFINE m == Matched(s, found)  ids == IdsOf(m)
<1>1. ids \in Seq(Conns) /\ Len(ids) = Len(m) /\ Len(m) \in Nat
  BY MatchingIds
<1>2. 1 \in Nat \ {0} /\ 1 * Limit \in Nat /\ (1 - 1) * Limit + 1 = 1
  BY ConnectionsAssumption
<1>3. TheFirst(s, found, 1 * Limit) = SubSeq(ids, 1, Least(1 * Limit, Len(m)))
  BY <1>2, BeginningIs
<1> HIDE DEF ids, m
<1>4. SkipAndTake(ids, 1) = SubSeq(ids, (1 - 1) * Limit + 1, Least(1 * Limit, Len(ids)))
  BY <1>1, <1>2, OnePageOf
<1> QED BY <1>1, <1>2, <1>3, <1>4 DEF ids, m

\* mergeCatalogItems: the next page put behind the beginning of the list is the
\* longer beginning of the list, without a gap or a double.
LEMMA NextPage ==
  ASSUME NEW s, ConnsInv(s), NEW found, NEW n \in Nat \ {0}
  PROVE  mergeCatalogItems(TheFirst(s, found, n * Limit),
                           SkipAndTake(IdsOf(Matched(s, found)), n + 1))
         = TheFirst(s, found, (n + 1) * Limit)
<1> DEFINE m == Matched(s, found)  ids == IdsOf(m)
           old == n * Limit  all == (n + 1) * Limit
           first == Least(old, Len(m))  last == Least(all, Len(m))
           a == TheFirst(s, found, old)  t == SkipAndTake(ids, n + 1)
<1>1. /\ ids \in Seq(Conns) /\ Len(ids) = Len(m) /\ Len(m) \in Nat
      /\ \A j, k \in 1..Len(m) : ids[j] = ids[k] => j = k
  BY MatchingIds
<1>2. old \in Nat /\ all \in Nat /\ all = old + Limit /\ Limit \in Nat
  <2>1. n + 1 \in Nat \ {0} /\ (n + 1) - 1 = n
    OBVIOUS
  <2> QED BY <2>1, Offset, ConnectionsAssumption
<1>3. a = SubSeq(ids, 1, first) /\ TheFirst(s, found, all) = SubSeq(ids, 1, last)
  BY <1>2, BeginningIs
<1>4. t = SubSeq(ids, old + 1, last)
  <2>1. n + 1 \in Nat \ {0} /\ (n + 1) - 1 = n
    OBVIOUS
  <2>2. t = SubSeq(ids, ((n + 1) - 1) * Limit + 1, Least((n + 1) * Limit, Len(ids)))
    <3> HIDE DEF ids, m
    <3> QED BY <1>1, <2>1, OnePageOf
  <2> QED BY <1>1, <2>1, <2>2
<1> HIDE DEF m, ids, a, t
<1>5. /\ first \in Nat /\ last \in Nat /\ first <= last /\ last <= Len(ids)
      /\ first <= old /\ (first = old \/ (first = last /\ last < old + 1))
  BY <1>1, <1>2 DEF Least
<1> HIDE DEF old, all, first, last
<1>6. /\ a \in Seq(Conns) /\ Len(a) = first
      /\ \A k \in 1..first : a[k] = ids[k]
  <2>1. \A k \in 1..first : ids[k] \in Conns
    BY <1>1, <1>5
  <2> QED BY <1>1, <1>3, <1>5, <2>1
<1>7. /\ t \in Seq(Conns) /\ Len(t) = last - first
      /\ \A k \in 1..(last - first) : t[k] = ids[first + k]
  <2>1. CASE first = old
    <3>1. \A k \in (old + 1)..last : ids[k] \in Conns
      BY <1>1, <1>2, <1>5
    <3>2. /\ SubSeq(ids, old + 1, last) \in Seq(Conns)
          /\ Len(SubSeq(ids, old + 1, last)) = last - old
          /\ \A k \in 1..(last - old) : SubSeq(ids, old + 1, last)[k] = ids[old + k]
      BY <1>1, <1>2, <1>5, <2>1, <3>1
    <3> QED BY <1>4, <2>1, <3>2
  <2>2. CASE first = last /\ last < old + 1
    <3>1. t = <<>>
      BY <1>1, <1>2, <1>4, <1>5, <2>2
    <3> QED BY <1>5, <2>2, <3>1
  <2> QED BY <1>5, <2>1, <2>2
<1>8. \A k \in 1..(last - first) : \A j \in 1..first : a[j] # t[k]
  <2> SUFFICES ASSUME NEW k \in 1..(last - first), NEW j \in 1..first
               PROVE  a[j] # t[k]
    OBVIOUS
  <2>1. a[j] = ids[j] /\ t[k] = ids[first + k]
    BY <1>6, <1>7
  <2>2. first + k \in 1..Len(m) /\ j \in 1..Len(m) /\ j # first + k
    BY <1>1, <1>5
  <2> QED BY <1>1, <2>1, <2>2
<1>9. {k \in DOMAIN t : \A j \in DOMAIN a : a[j] # t[k]} = DOMAIN t
  <2>1. DOMAIN a = 1..first /\ DOMAIN t = 1..(last - first)
    BY <1>5, <1>6, <1>7
  <2> HIDE DEF first
  <2> QED BY <1>8, <2>1
<1>10. mergeCatalogItems(a, t) = a \o t
  <2>1. Kept(t, DOMAIN t) = t
    BY <1>7, KeptAll
  <2> QED BY <1>9, <2>1 DEF mergeCatalogItems
<1>11. a \o t = SubSeq(ids, 1, last)
  <2>1. /\ a \o t \in Seq(Conns) /\ Len(a \o t) = last
        /\ \A k \in 1..last : (a \o t)[k] = ids[k]
    BY <1>1, <1>5, <1>6, <1>7
  <2>2. /\ SubSeq(ids, 1, last) \in Seq(Conns) /\ Len(SubSeq(ids, 1, last)) = last
        /\ \A k \in 1..last : SubSeq(ids, 1, last)[k] = ids[k]
    <3>1. \A k \in 1..last : ids[k] \in Conns
      BY <1>1, <1>5
    <3> QED BY <1>1, <1>5, <3>1
  <2> HIDE DEF first
  <2>3. \A p, q \in Seq(Conns) : (/\ Len(p) = Len(q)
                                  /\ \A k \in 1..Len(p) : p[k] = q[k]) => p = q
    OBVIOUS
  <2> QED BY <1>5, <2>1, <2>2, <2>3
<1> QED BY <1>3, <1>10, <1>11 DEF a, t, ids, m, old, all

-----------------------------------------------------------------------------
(* The connections change. *)

LEMMA Changed ==
  ASSUME ConnsInv(conns),
         \/ \E hit \in BOOLEAN : apiCreates(hit)
         \/ \E id \in Ids : apiRemoves(id)
         \/ \E id \in Ids, hit \in BOOLEAN : apiUpdates(id, hit)
  PROVE  ConnsInv(conns') /\ stamp' = stamp + 1
<1>1. Ids \subseteq Conns
  <2> SUFFICES ASSUME NEW k \in DOMAIN conns PROVE conns[k].id \in Conns
    BY DEF Ids
  <2>1. conns[k] \in Connections
    BY DEF ConnsInv
  <2> QED BY <2>1 DEF Connections
<1>2. ASSUME NEW hit \in BOOLEAN, apiCreates(hit) PROVE ConnsInv(conns') /\ stamp' = stamp + 1
  <2>1. PICK id \in Conns \ Ids : Saved(id, hit)
    BY <1>2 DEF apiCreates
  <2> QED BY <2>1, SavedInv
<1>3. ASSUME NEW id \in Ids, NEW hit \in BOOLEAN, apiUpdates(id, hit)
      PROVE  ConnsInv(conns') /\ stamp' = stamp + 1
  BY <1>1, <1>3, SavedInv DEF apiUpdates
<1> QED BY <1>2, <1>3, RemovedInv

\* What was read before the connections changed is not of their present state.
LEMMA Outdated ==
  ASSUME NEW p, NEW cs, NEW s, NEW now \in Nat, NEW t, PickerPartInv(p, cs, s, now)
  PROVE  PickerPartInv(p, cs, t, now + 1)
<1>1. MergedInv(p, t, now + 1)
  <2>1. MergedInv(p, s, now)
    BY DEF PickerPartInv
  <2>2. p.catalog # NoConn =>
          p.catalog.seen \subseteq 0..(now + 1) /\ p.catalog.seen # {now + 1}
    BY <2>1 DEF MergedInv
  <2> QED BY <2>1, <2>2 DEF MergedInv
<1>2. ASSUME NEW c \in cs PROVE PickInv(c, p, t, now + 1)
  <2>1. PickInv(c, p, s, now)
    BY DEF PickerPartInv
  <2> QED BY <2>1 DEF PickInv
<1> QED BY <1>1, <1>2 DEF PickerPartInv

-----------------------------------------------------------------------------
(* The picker's operations. *)

PickCall(n, found, append) ==
  [kind |-> "pick", append |-> append, answer |-> NoConn,
   key |-> [page |-> n, search |-> found, oldest |-> FALSE]]

LEMMA PickKinds ==
  ASSUME NEW c \in PickCalls \cup CreateCalls
  PROVE  /\ c.kind \in {"pick", "submit"}
         /\ c.kind = "pick" => c \in PickCalls
         /\ c.kind = "submit" => c \in CreateCalls
BY DEF PickCalls, CreateCalls

LEMMA NewPickCall ==
  ASSUME NEW n \in Nat \ {0}, NEW found \in BOOLEAN, NEW append \in BOOLEAN
  PROVE  LET x == PickCall(n, found, append) IN
         /\ x \in PickCalls /\ x.kind = "pick" /\ x.append = append /\ x.answer = NoConn
         /\ x.key.page = n /\ x.key.search = found /\ ~ x.key.oldest
<1>1. [page |-> n, search |-> found, oldest |-> FALSE] \in CatKeys
  BY DEF CatKeys
<1> QED BY <1>1 DEF PickCall, PickCalls

\* A page is asked for, and what was asked for before is not taken any more.
LEMMA PickAsked ==
  ASSUME NEW p, NEW cs, NEW s, NEW now, PickerPartInv(p, cs, s, now),
         NEW w \in PickerStates, w.catalog = p.catalog, ~ w.error,
         NEW rest \in SUBSET cs, \A c \in rest : c.kind # "pick",
         NEW n \in Nat \ {0}, NEW append \in BOOLEAN,
         IF append THEN p.catalog # NoConn /\ n = p.catalog.page + 1 ELSE n = 1
  PROVE  PickerPartInv(w, rest \cup {PickCall(n, w.search, append)}, s, now)
<1> DEFINE x == PickCall(n, w.search, append)
<1>1. w.search \in BOOLEAN
  BY DEF PickerStates
<1>2. /\ x \in PickCalls /\ x.kind = "pick" /\ x.append = append /\ x.answer = NoConn
      /\ x.key.page = n /\ x.key.search = w.search /\ ~ x.key.oldest
  BY <1>1, NewPickCall
<1> HIDE DEF x
<1>3. MergedInv(w, s, now)
  BY DEF PickerPartInv, MergedInv
<1>4. PickInv(x, w, s, now)
  BY <1>2 DEF PickInv
<1>5. \A c \in rest : PickInv(c, w, s, now)
  BY DEF PickerPartInv, PickInv
<1>6. PickAwaited(w, rest \cup {x})
  <2> SUFFICES ASSUME w.catalog # NoConn, append, x.key.search \in w.catalog.of
               PROVE  w.catalog.of = BOOLEAN \/ w.catalog.of = {w.search}
    BY <1>2 DEF PickAwaited
  <2> DEFINE of == w.catalog.of
  <2>1. of \in SUBSET BOOLEAN /\ w.search \in of
    <3>1. w.catalog \in Merged
      BY DEF PickerStates
    <3> QED BY <1>2, <3>1 DEF Merged
  <2> HIDE DEF of
  <2>2. of = BOOLEAN \/ of = {w.search}
    <3>1. CASE (~ w.search) \in of
      BY <1>1, <2>1, <3>1
    <3>2. CASE (~ w.search) \notin of
      BY <1>1, <2>1, <3>2
    <3> QED BY <3>1, <3>2
  <2> QED BY <2>2 DEF of
<1>7. \A c, d \in rest \cup {x} : c.kind = "pick" /\ d.kind = "pick" => c = d
  OBVIOUS
<1> QED BY <1>3, <1>4, <1>5, <1>6, <1>7 DEF PickerPartInv, x

PickerNow == PickerPartInv(picker, reqs, conns, stamp)

LEMMA PageLoads ==
  ASSUME PickerNow, NEW v \in PickerStates, v.catalog = picker.catalog,
         NEW n \in Nat \ {0}, NEW append \in BOOLEAN,
         IF append THEN v.catalog # NoConn /\ n = v.catalog.page + 1 ELSE n = 1,
         loadCatalogPage(v, n, append)
  PROVE  PickerPartInv(picker', reqs', conns, stamp)
<1> DEFINE rest == {c \in reqs : c.kind # "pick"}
           w == picker'
<1>1. w \in PickerStates /\ w.catalog = v.catalog /\ w.search = v.search /\ ~ w.error
  BY DEF loadCatalogPage, PickerStates
<1>2. reqs' = rest \cup {PickCall(n, v.search, append)}
  BY DEF loadCatalogPage, PickCall
<1>3. rest \in SUBSET reqs /\ \A c \in rest : c.kind # "pick"
  OBVIOUS
<1> HIDE DEF rest, w
<1>4. PickerPartInv(w, rest \cup {PickCall(n, w.search, append)}, conns, stamp)
  BY <1>1, <1>3, PickAsked DEF PickerNow
<1> QED BY <1>1, <1>2, <1>4 DEF w

LEMMA PickerCloses ==
  ASSUME PickerNow, resetPicker
  PROVE  PickerPartInv(picker', reqs', conns, stamp)
<1>1. Closed \in PickerStates /\ Closed.catalog = NoConn
  BY DEF Closed, PickerStates
<1>2. \A c \in reqs' : c \in reqs /\ c.kind # "pick"
  BY DEF resetPicker
<1> QED BY <1>1, <1>2
        DEF resetPicker, PickerNow, PickerPartInv, MergedInv, PickInv, PickAwaited

LEMMA PicksKeep ==
  ASSUME PickerNow, handleToggle \/ handleSelect \/ setSearch \/ handleRefresh \/ loadMore
  PROVE  PickerPartInv(picker', reqs', conns, stamp)
<1>0. picker \in PickerStates
  BY DEF PickerNow, PickerPartInv, MergedInv
<1>1. ASSUME NEW v \in PickerStates, v.catalog = picker.catalog,
             loadCatalogPage(v, 1, FALSE)
      PROVE  PickerPartInv(picker', reqs', conns, stamp)
  <2> DEFINE n == 1  append == FALSE
  <2>1. /\ n \in Nat \ {0} /\ append \in BOOLEAN
        /\ IF append THEN v.catalog # NoConn /\ n = v.catalog.page + 1 ELSE n = 1
    OBVIOUS
  <2>2. loadCatalogPage(v, n, append)
    BY <1>1
  <2> HIDE DEF n, append
  <2> QED BY <1>1, <2>1, <2>2, PageLoads
<1> DEFINE opened == [picker EXCEPT !.open = TRUE]
           found == [picker EXCEPT !.search = ~ @]
<1>2. /\ opened \in PickerStates /\ opened.catalog = picker.catalog
      /\ found \in PickerStates /\ found.catalog = picker.catalog
  BY <1>0 DEF PickerStates
<1>3. CASE handleToggle
  <2>1. resetPicker \/ loadCatalogPage(opened, 1, FALSE)
    BY <1>3 DEF handleToggle
  <2> QED BY <1>1, <1>2, <2>1, PickerCloses
<1>4. CASE handleSelect
  BY <1>4, PickerCloses DEF handleSelect
<1>5. CASE setSearch
  BY <1>1, <1>2, <1>5 DEF setSearch
<1>6. CASE handleRefresh
  BY <1>1, <1>2, <1>6 DEF handleRefresh
<1>7. CASE loadMore
  <2> DEFINE n == picker.catalog.page + 1  append == TRUE
  <2>1. picker.catalog # NoConn /\ loadCatalogPage(picker, n, append)
    BY <1>7 DEF loadMore, hasMore
  <2>2. picker.catalog.page \in Nat \ {0}
    <3>1. picker.catalog \in Merged
      BY <1>0, <2>1 DEF PickerStates
    <3> QED BY <3>1 DEF Merged
  <2>3. /\ n \in Nat \ {0} /\ append \in BOOLEAN
        /\ IF append THEN picker.catalog # NoConn /\ n = picker.catalog.page + 1 ELSE n = 1
    BY <2>1, <2>2
  <2> HIDE DEF n, append
  <2> QED BY <1>0, <2>1, <2>3, PageLoads
<1> QED BY <1>3, <1>4, <1>5, <1>6, <1>7

LEMMA CreateKeeps ==
  ASSUME PickerNow, handleCreateConnection
  PROVE  PickerPartInv(picker', reqs', conns, stamp)
<1>1. PICK hit \in BOOLEAN :
        reqs' = reqs \cup {[kind |-> "submit", id |-> NoConn, hit |-> hit, answer |-> NoConn]}
  BY DEF handleCreateConnection
<1> DEFINE x == [kind |-> "submit", id |-> NoConn, hit |-> hit, answer |-> NoConn]
<1>2. x \in CreateCalls /\ x.kind = "submit"
  BY DEF CreateCalls
<1>3. reqs' = reqs \cup {x} /\ picker' = picker
  BY <1>1 DEF handleCreateConnection
<1> HIDE DEF x
<1> QED BY <1>2, <1>3 DEF PickerNow, PickerPartInv, PickInv, PickAwaited

LEMMA CreateAnswerKeeps ==
  ASSUME PickerNow, NEW c \in reqs, createAnswer(c)
  PROVE  PickerPartInv(picker', reqs', conns, stamp)
<1>0. picker \in PickerStates /\ c.kind = "submit"
  BY DEF PickerNow, PickerPartInv, MergedInv, createAnswer
<1>1. CASE picker.open
  <2> DEFINE w == picker'  n == 1  append == FALSE  rest == {}
  <2>1. /\ w \in PickerStates /\ w.catalog = picker.catalog /\ w.search = picker.search
        /\ ~ w.error
    BY <1>0, <1>1 DEF createAnswer, PickerStates
  <2>2. reqs' = rest \cup {PickCall(n, picker.search, append)}
    BY <1>1 DEF createAnswer, PickCall
  <2>3. /\ n \in Nat \ {0} /\ append \in BOOLEAN
        /\ IF append THEN picker.catalog # NoConn /\ n = picker.catalog.page + 1 ELSE n = 1
        /\ rest \in SUBSET reqs /\ \A d \in rest : d.kind # "pick"
    OBVIOUS
  <2> HIDE DEF w, n, append, rest
  <2>4. PickerPartInv(w, rest \cup {PickCall(n, w.search, append)}, conns, stamp)
    BY <2>1, <2>3, PickAsked DEF PickerNow
  <2> QED BY <2>1, <2>2, <2>4 DEF w
<1>2. CASE ~ picker.open
  <2>1. picker' = picker /\ reqs' = reqs \ {c}
    BY <1>2 DEF createAnswer
  <2> QED BY <1>0, <2>1 DEF PickerNow, PickerPartInv, PickAwaited
<1> QED BY <1>1, <1>2

LEMMA PickFailureKeeps ==
  ASSUME PickerNow, NEW c \in reqs, pickFails(c)
  PROVE  PickerPartInv(picker', reqs', conns, stamp)
<1>0. picker \in PickerStates /\ reqs' = reqs \ {c}
  BY DEF PickerNow, PickerPartInv, MergedInv, pickFails
<1>1. CASE c.kind = "pick"
  <2>1. /\ picker' \in PickerStates /\ picker'.catalog = picker.catalog
        /\ picker'.search = picker.search /\ picker'.error
    BY <1>0, <1>1 DEF pickFails, PickerStates
  <2> QED BY <1>0, <2>1 DEF PickerNow, PickerPartInv, MergedInv, PickInv, PickAwaited
<1>2. CASE c.kind # "pick"
  <2>1. picker' = picker
    BY <1>2 DEF pickFails
  <2> QED BY <1>0, <1>2, <2>1 DEF PickerNow, PickerPartInv, PickAwaited
<1> QED BY <1>1, <1>2

LEMMA KeptType ==
  ASSUME NEW S, NEW s \in Seq(S), NEW K \in SUBSET (DOMAIN s)
  PROVE  Kept(s, K) \in Seq(S)
<1>1. PICK f \in [1..Cardinality(K) -> K] :
        /\ Cardinality(K) \in Nat
        /\ Kept(s, K) = [n \in 1..Cardinality(K) |-> s[f[n]]]
  BY KeptOnce
<1>2. \A n \in 1..Cardinality(K) : s[f[n]] \in S
  OBVIOUS
<1> QED BY <1>1, <1>2

LEMMA MergeType ==
  ASSUME NEW s \in Seq(Conns), NEW t \in Seq(Conns)
  PROVE  mergeCatalogItems(s, t) \in Seq(Conns)
<1> DEFINE K == {k \in DOMAIN t : \A j \in DOMAIN s : s[j] # t[k]}
<1>1. K \in SUBSET (DOMAIN t)
  OBVIOUS
<1>2. Kept(t, K) \in Seq(Conns)
  <2> HIDE DEF K
  <2> QED BY <1>1, KeptType
<1> QED BY <1>2 DEF mergeCatalogItems

LEMMA PickAnswerKeeps ==
  ASSUME ConnsInv(conns), stamp \in Nat, PickerNow, NEW c \in reqs, pickAnswer(c)
  PROVE  PickerPartInv(picker', reqs', conns, stamp)
<1>0. /\ picker \in PickerStates /\ c.kind = "pick" /\ reqs' = reqs \ {c}
      /\ PickInv(c, picker, conns, stamp) /\ MergedInv(picker, conns, stamp)
  BY DEF PickerNow, PickerPartInv, MergedInv, pickAnswer
<1> DEFINE a == c.answer  old == picker.catalog
           adds == c.append /\ old # NoConn
           items == IF adds THEN mergeCatalogItems(old.items, a.items) ELSE a.items
           seen == {a.seen} \cup IF adds THEN old.seen ELSE {}
           of == {c.key.search} \cup IF adds THEN old.of ELSE {}
           cat == [items |-> items, total |-> a.total, page |-> c.key.page,
                   seen |-> seen, of |-> of]
           q == IF c.append THEN [picker EXCEPT !.loadingMore = FALSE]
                            ELSE [picker EXCEPT !.loading = FALSE]
<1>1. picker' = [q EXCEPT !.catalog = cat]
  BY DEF pickAnswer
<1>2. c \in PickCalls
  BY <1>0, PickKinds DEF PickInv
<1>3. /\ a \in Answers /\ c.key \in CatKeys /\ c.append \in BOOLEAN
      /\ a.seen \in 0..stamp /\ (a.seen = stamp => AnswerIsOf(a, c.key, conns))
      /\ c.key.search = picker.search /\ ~ c.key.oldest
      /\ IF c.append THEN old # NoConn /\ c.key.page = old.page + 1 ELSE c.key.page = 1
  BY <1>0, <1>2 DEF PickInv, PickCalls, pickAnswer
<1>4. adds = c.append
  BY <1>3
<1>5. /\ a.items \in Seq(Conns) /\ a.total \in Nat /\ c.key.page \in Nat \ {0}
      /\ c.key.search \in BOOLEAN
  BY <1>3 DEF Answers, CatKeys
<1>6. adds => /\ old.items \in Seq(Conns) /\ old.page \in Nat \ {0}
              /\ old.seen \in SUBSET (0..stamp) /\ old.seen # {}
              /\ old.of \in SUBSET BOOLEAN /\ old.of # {}
  <2> SUFFICES ASSUME adds
               PROVE  /\ old.items \in Seq(Conns) /\ old.page \in Nat \ {0}
                      /\ old.seen \in SUBSET (0..stamp) /\ old.seen # {}
                      /\ old.of \in SUBSET BOOLEAN /\ old.of # {}
    OBVIOUS
  <2>1. old \in Merged
    BY <1>0 DEF PickerStates
  <2>2. old.items \in Seq(Conns) /\ old.page \in Nat \ {0} /\ old.of \in SUBSET BOOLEAN
    BY <2>1 DEF Merged
  <2> QED BY <1>0, <2>2 DEF MergedInv
<1>7. ASSUME NEW x \in BOOLEAN, of = {x}, seen = {stamp}
      PROVE  items = TheFirst(conns, x, c.key.page * Limit) /\ a.total = Len(Matched(conns, x))
  <2>1. c.key.search = x /\ a.seen = stamp
    BY <1>7
  <2>2. AnswerIsOf(a, c.key, conns)
    BY <1>3, <2>1
  <2>3. CASE ~ adds
    <3>1. items = a.items /\ c.key.page = 1
      BY <1>3, <1>4, <2>3
    <3>2. a.items = SkipAndTake(IdsOf(Matched(conns, x)), 1)
      BY <2>1, <2>2, <3>1 DEF AnswerIsOf
    <3> HIDE DEF items
    <3>3. SkipAndTake(IdsOf(Matched(conns, x)), 1) = TheFirst(conns, x, 1 * Limit)
      BY FirstPage
    <3> QED BY <2>1, <2>2, <3>1, <3>2, <3>3 DEF AnswerIsOf
  <2>4. CASE adds
    <3>1. old.of = {x} /\ old.seen = {stamp} /\ c.key.page = old.page + 1
      BY <1>3, <1>4, <1>6, <1>7, <2>4
    <3>2. old.items = TheFirst(conns, x, old.page * Limit)
      BY <1>0, <2>4, <3>1 DEF MergedInv
    <3>3. items = mergeCatalogItems(old.items, a.items)
      BY <2>4
    <3>4. a.items = SkipAndTake(IdsOf(Matched(conns, x)), old.page + 1)
      BY <2>1, <2>2, <3>1 DEF AnswerIsOf
    <3> DEFINE n == old.page
    <3>5. n \in Nat \ {0}
      BY <1>6, <2>4
    <3> HIDE DEF n
    <3>6. mergeCatalogItems(TheFirst(conns, x, n * Limit),
                            SkipAndTake(IdsOf(Matched(conns, x)), n + 1))
          = TheFirst(conns, x, (n + 1) * Limit)
      BY <3>5, NextPage
    <3> HIDE DEF items
    <3>7. items = TheFirst(conns, x, (n + 1) * Limit)
      BY <3>2, <3>3, <3>4, <3>6 DEF n
    <3> QED BY <2>1, <2>2, <3>1, <3>7 DEF AnswerIsOf, n
  <2> QED BY <2>3, <2>4
<1>8. items \in Seq(Conns)
  BY <1>5, <1>6, MergeType
<1>9. seen \in SUBSET (0..stamp) /\ seen # {} /\ of \in SUBSET BOOLEAN /\ of # {}
  BY <1>3, <1>5, <1>6
<1>10. of = BOOLEAN \/ of = {picker.search}
  <2>1. CASE ~ adds
    BY <1>3, <2>1
  <2>2. CASE adds /\ (~ picker.search) \in old.of
    BY <1>3, <1>5, <1>9, <2>2
  <2>3. CASE adds /\ (~ picker.search) \notin old.of
    BY <1>3, <1>5, <1>6, <2>3
  <2> QED BY <2>1, <2>2, <2>3
<1> HIDE DEF items, seen, of
<1>11. /\ cat \in Merged /\ cat.items = items /\ cat.total = a.total
       /\ cat.page = c.key.page /\ cat.seen = seen /\ cat.of = of
  <2>1. 0..stamp \subseteq Nat
    OBVIOUS
  <2> HIDE DEF a
  <2> QED BY <1>5, <1>8, <1>9, <2>1 DEF Merged, a
<1>12. q \in PickerStates /\ q.search = picker.search
  BY <1>0 DEF PickerStates
<1> HIDE DEF cat, q
<1>13. /\ picker' \in PickerStates /\ picker'.catalog = cat
       /\ picker'.search = picker.search
  BY <1>1, <1>11, <1>12 DEF PickerStates
<1> DEFINE w == picker'
<1> HIDE DEF w
<1>14. MergedInv(w, conns, stamp)
  BY <1>7, <1>9, <1>11, <1>13 DEF MergedInv, w
<1>15. \A d \in reqs' : d \in reqs /\ d.kind # "pick"
  BY <1>0 DEF PickerNow, PickerPartInv
<1>16. \A d \in reqs' : PickInv(d, w, conns, stamp)
  BY <1>15 DEF PickerNow, PickerPartInv, PickInv
<1>17. PickAwaited(w, reqs')
  BY <1>10, <1>11, <1>13 DEF PickAwaited, w
<1>18. PickerPartInv(w, reqs', conns, stamp)
  BY <1>14, <1>15, <1>16, <1>17 DEF PickerPartInv
<1> QED BY <1>18 DEF w

-----------------------------------------------------------------------------
(* The api and the invariant. *)

LEMMA ApiChanges ==
  ASSUME ConnsInv(conns), stamp \in Nat, NEW c \in reqs, apiAnswers(c),
         c.kind \in {"submit", "delete"}, c.kind = "submit" => c.hit \in BOOLEAN,
         c.kind = "delete" => c.id # NoConn
  PROVE  ConnsInv(conns') /\ stamp' = stamp + 1
<1>1. CASE c.kind # "delete" /\ c.id = NoConn
  BY <1>1, Changed DEF apiAnswers
<1>2. CASE c.kind # "delete" /\ c.id # NoConn
  <2>1. apiUpdates(c.id, c.hit)
    BY <1>2 DEF apiAnswers
  <2>2. c.id \in Ids
    BY <2>1 DEF apiUpdates
  <2> QED BY <1>2, <2>1, <2>2, Changed
<1>3. CASE c.kind = "delete"
  <2>0. /\ c.kind \notin {"list", "pick"} /\ c.kind # "edit"
        /\ CASE c.kind = "delete" -> apiRemoves(c.id)
             [] c.id = NoConn -> apiCreates(c.hit)
             [] OTHER -> apiUpdates(c.id, c.hit)
    BY <1>3 DEF apiAnswers
  <2>1. apiRemoves(c.id)
    BY <1>3, <2>0
  <2> QED BY <2>1, RemovedInv
<1> QED BY <1>1, <1>2, <1>3

LEMMA ApiKeepsPage ==
  ASSUME ConnsInv(conns), stamp \in Nat, CatalogPageInv(pg, reqs), NEW c \in reqs,
         apiAnswers(c)
  PROVE  ConnsInv(conns') /\ stamp' \in Nat /\ CatalogPageInv(pg', reqs')
<1>1. CallInv(c, pg) /\ c \in PageCalls /\ pg' = pg
  BY DEF CatalogPageInv, CallInv, apiAnswers
<1>2. CASE c.kind = "list"
  <2>1. c \in CatalogCalls /\ c.key \in CatKeys
    BY <1>1, <1>2, CallKinds DEF CatalogCalls
  <2> DEFINE a == findCatalog(c.key)  x == [c EXCEPT !.answer = a]
  <2>2. a \in Answers /\ a.key = c.key
    BY <2>1, CatalogFound
  <2>3. conns' = conns /\ stamp' = stamp /\ reqs' = (reqs \ {c}) \cup {x}
    BY <1>2 DEF apiAnswers
  <2> HIDE DEF a
  <2>4. /\ x \in CatalogCalls /\ x.kind = "list" /\ x.current = c.current /\ x.key = c.key
        /\ x.background = c.background /\ x.owner = c.owner /\ x.answer = a
    BY <2>1, <2>2 DEF CatalogCalls
  <2> HIDE DEF x
  <2>5. Owner(x) = Owner(c) /\ x \in PageCalls
    BY <1>2, <2>4 DEF Owner, PageCalls
  <2>6. CallInv(x, pg)
    BY <1>1, <1>2, <2>2, <2>4, <2>5 DEF CallInv
  <2>7. CatalogPageInv(pg, (reqs \ {c}) \cup {x})
    BY <1>2, <2>4, <2>5, <2>6, AnsweredKeeps
  <2> QED BY <1>1, <2>3, <2>7
<1>3. CASE c.kind \in {"edit", "submit", "delete"}
  <2> DEFINE x == [c EXCEPT !.answer = "ok"]
  <2>1. reqs' = (reqs \ {c}) \cup {x}
    BY <1>3 DEF apiAnswers
  <2>2. /\ x \in PageCalls /\ x.kind = c.kind /\ (c.kind = "edit" => x.id = c.id)
        /\ (c.kind # "edit" => x.key = c.key)
    <3>1. CASE c.kind = "edit"
      <4>1. c \in EditCalls
        BY <1>1, <3>1, CallKinds
      <4>2. x \in EditCalls /\ x.kind = c.kind /\ x.id = c.id
        BY <4>1 DEF EditCalls
      <4> QED BY <3>1, <4>2 DEF PageCalls
    <3>2. CASE c.kind = "submit"
      <4>1. c \in SubmitCalls
        BY <1>1, <3>2, CallKinds
      <4>2. x \in SubmitCalls /\ x.kind = c.kind /\ x.key = c.key
        BY <4>1 DEF SubmitCalls
      <4> QED BY <3>2, <4>2 DEF PageCalls
    <3>3. CASE c.kind = "delete"
      <4>1. c \in DeleteCalls
        BY <1>1, <3>3, CallKinds
      <4>2. x \in DeleteCalls /\ x.kind = c.kind /\ x.key = c.key
        BY <4>1 DEF DeleteCalls
      <4> QED BY <3>3, <4>2 DEF PageCalls
    <3> QED BY <1>3, <3>1, <3>2, <3>3
  <2> HIDE DEF x
  <2>3. Owner(x) = Owner(c)
    BY <1>3, <2>2 DEF Owner
  <2>4. CallInv(x, pg)
    BY <1>1, <1>3, <2>2, <2>3 DEF CallInv
  <2>5. CatalogPageInv(pg, (reqs \ {c}) \cup {x})
    BY <1>3, <2>2, <2>3, <2>4, AnsweredKeeps
  <2>6. ConnsInv(conns') /\ stamp' \in Nat
    <3>1. CASE c.kind = "edit"
      BY <3>1 DEF apiAnswers
    <3>2. CASE c.kind # "edit"
      <4>1. c.kind = "submit" => c.hit \in BOOLEAN
        BY <1>1, CallKinds DEF SubmitCalls
      <4>2. c.kind = "delete" => c.id # NoConn
        BY <1>1, CallKinds, ConnectionsAssumption DEF DeleteCalls
      <4> QED BY <1>3, <3>2, <4>1, <4>2, ApiChanges
    <3> QED BY <3>1, <3>2
  <2> QED BY <1>1, <2>1, <2>5, <2>6
<1> QED BY <1>1, <1>2, <1>3, CallKinds

LEMMA ApiKeepsPicker ==
  ASSUME ConnsInv(conns), stamp \in Nat, PickerNow, NEW c \in reqs, apiAnswers(c)
  PROVE  /\ ConnsInv(conns') /\ stamp' \in Nat
         /\ PickerPartInv(picker', reqs', conns', stamp')
<1>1. PickInv(c, picker, conns, stamp) /\ picker' = picker
  BY DEF PickerNow, PickerPartInv, apiAnswers
<1>2. c \in PickCalls \cup CreateCalls
  BY <1>1 DEF PickInv
<1>3. ASSUME NEW x, NEW s, NEW now, PickerPartInv(picker, reqs, s, now),
             x.kind = c.kind, c.kind = "pick" => x.append = c.append /\ x.key = c.key,
             PickInv(x, picker, s, now)
      PROVE  PickerPartInv(picker, (reqs \ {c}) \cup {x}, s, now)
  <2> DEFINE all == (reqs \ {c}) \cup {x}
  <2>1. \A d \in all : PickInv(d, picker, s, now)
    BY <1>3 DEF PickerPartInv
  <2>2. \A d, e \in all : d.kind = "pick" /\ e.kind = "pick" => d = e
    BY <1>3 DEF PickerPartInv
  <2>3. PickAwaited(picker, all)
    BY <1>3 DEF PickerPartInv, PickAwaited
  <2> HIDE DEF all
  <2>4. PickerPartInv(picker, all, s, now)
    BY <1>3, <2>1, <2>2, <2>3 DEF PickerPartInv
  <2> QED BY <2>4 DEF all
<1>4. CASE c.kind = "pick"
  <2>1. c \in PickCalls /\ c.key \in CatKeys
    BY <1>2, <1>4, PickKinds DEF PickCalls
  <2> DEFINE a == findCatalog(c.key)  x == [c EXCEPT !.answer = a]
  <2>2. /\ a \in Answers /\ a.key = c.key /\ a.seen = stamp
        /\ ~ c.key.oldest => AnswerIsOf(a, c.key, conns)
    BY <2>1, CatalogFound
  <2>3. conns' = conns /\ stamp' = stamp /\ reqs' = (reqs \ {c}) \cup {x}
    BY <1>4 DEF apiAnswers
  <2> HIDE DEF a
  <2>4. /\ x \in PickCalls /\ x.kind = "pick" /\ x.append = c.append /\ x.key = c.key
        /\ x.answer = a
    BY <2>1, <2>2 DEF PickCalls
  <2> HIDE DEF x
  <2>5. PickInv(x, picker, conns, stamp)
    BY <1>1, <1>4, <2>2, <2>4 DEF PickInv
  <2>6. PickerPartInv(picker, (reqs \ {c}) \cup {x}, conns, stamp)
    BY <1>3, <1>4, <2>4, <2>5 DEF PickerNow
  <2> QED BY <1>1, <2>3, <2>6
<1>5. CASE c.kind = "submit"
  <2>1. c \in CreateCalls /\ c.hit \in BOOLEAN
    BY <1>2, <1>5, PickKinds DEF CreateCalls
  <2> DEFINE x == [c EXCEPT !.answer = "ok"]
  <2>2. reqs' = (reqs \ {c}) \cup {x}
    BY <1>5 DEF apiAnswers
  <2>3. x \in CreateCalls /\ x.kind = "submit"
    BY <2>1 DEF CreateCalls
  <2> HIDE DEF x
  <2>4. ConnsInv(conns') /\ stamp' = stamp + 1
    BY <1>5, <2>1, ApiChanges
  <2>5. PickerPartInv(picker, reqs, conns', stamp + 1)
    BY Outdated DEF PickerNow
  <2>6. PickInv(x, picker, conns', stamp + 1)
    BY <2>3 DEF PickInv
  <2>7. PickerPartInv(picker, (reqs \ {c}) \cup {x}, conns', stamp + 1)
    <3>1. x.kind = c.kind /\ c.kind # "pick"
      BY <1>5, <2>3
    <3> DEFINE s == conns'  now == stamp + 1
    <3>2. PickerPartInv(picker, reqs, s, now) /\ PickInv(x, picker, s, now)
      BY <2>5, <2>6
    <3> HIDE DEF s, now
    <3>3. PickerPartInv(picker, (reqs \ {c}) \cup {x}, s, now)
      BY <1>3, <3>1, <3>2
    <3> QED BY <3>3 DEF s, now
  <2> QED BY <1>1, <2>2, <2>4, <2>7
<1> QED BY <1>2, <1>4, <1>5, PickKinds

LEMMA OtherTabKeeps ==
  ASSUME CatalogInv, otherTab
  PROVE  CatalogInv'
<1>1. ConnsInv(conns') /\ stamp' = stamp + 1
  BY Changed DEF otherTab, CatalogInv
<1>2. moves' \in 0..MaxMoves
  BY ConnectionsAssumption DEF otherTab, Move, CatalogInv
<1>3. screen' = screen /\ pg' = pg /\ picker' = picker /\ reqs' = reqs
  BY DEF otherTab
<1>4. CASE screen = "page" /\ picker = Closed /\ CatalogPageInv(pg, reqs)
  BY <1>1, <1>2, <1>3, <1>4 DEF CatalogInv
<1>5. CASE screen = "picker" /\ pg.catalog = NoConn /\ PickerPartInv(picker, reqs, conns, stamp)
  <2>1. PickerPartInv(picker, reqs, conns', stamp + 1)
    BY <1>5, Outdated DEF CatalogInv
  <2> QED BY <1>1, <1>2, <1>3, <1>5, <2>1 DEF CatalogInv
<1> QED BY <1>4, <1>5 DEF CatalogInv

-----------------------------------------------------------------------------

LEMMA SequenceOf ==
  ASSUME NEW T, IsFiniteSet(T)
  PROVE  /\ SetToSeq(T) \in [1..Cardinality(T) -> T] /\ Cardinality(T) \in Nat
         /\ \A j, k \in 1..Cardinality(T) : SetToSeq(T)[j] = SetToSeq(T)[k] => j = k
<1>1. Cardinality(T) \in Nat /\ ExistsBijection(1..Cardinality(T), T)
  BY FS_CardinalityType
<1>2. PICK f : f \in Bijection(1..Cardinality(T), T)
  BY <1>1 DEF ExistsBijection
<1>3. f \in [1..Cardinality(T) -> T] /\ IsInjective(f)
  BY <1>2 DEF Bijection, Injection
<1>4. SetToSeq(T) \in [1..Cardinality(T) -> T] /\ IsInjective(SetToSeq(T))
  BY <1>3 DEF SetToSeq
<1> QED BY <1>1, <1>4 DEF IsInjective

LEMMA FirstConns ==
  ASSUME NEW S \in SUBSET Conns, conns = SetToSeq({[id |-> id, hit |-> id \in Hits] : id \in S})
  PROVE  ConnsInv(conns)
<1> DEFINE row(id) == [id |-> id, hit |-> id \in Hits]
           T == {row(id) : id \in S}
           f == [id \in S |-> row(id)]
<1>1. IsFiniteSet(S)
  BY ConnectionsAssumption, FS_Subset
<1>2. \A id \in S : row(id) \in Connections /\ row(id).id = id
  BY DEF Connections
<1> HIDE DEF row
<1>3. f \in [S -> T] /\ \A x \in T : \E id \in S : f[id] = x
  OBVIOUS
<1>4. \A a, b \in S : f[a] = f[b] => a = b
  BY <1>2
<1>5. ExistsBijection(S, T)
  BY <1>3, <1>4 DEF ExistsBijection, Bijection, Injection, Surjection, IsInjective
<1>6. IsFiniteSet(T)
  BY <1>1, <1>5, FS_Bijection
<1>7. T \subseteq Connections /\ \A x, y \in T : x.id = y.id => x = y
  BY <1>2
<1> DEFINE s == SetToSeq(T)
<1> HIDE DEF T
<1>8. /\ s \in [1..Cardinality(T) -> T] /\ Cardinality(T) \in Nat
      /\ \A j, k \in 1..Cardinality(T) : s[j] = s[k] => j = k
  BY <1>6, SequenceOf
<1>9. conns = s
  BY DEF T, row
<1> HIDE DEF s
<1>10. s \in Seq(Connections) /\ DOMAIN s = 1..Cardinality(T)
  <2>1. \A k \in 1..Cardinality(T) : s[k] \in Connections
    BY <1>7, <1>8
  <2> QED BY <1>8, <2>1
<1>11. \A j, k \in DOMAIN s : s[j].id = s[k].id => j = k
  BY <1>7, <1>8, <1>10
<1> QED BY <1>9, <1>10, <1>11 DEF ConnsInv

LEMMA CatalogBegins == CatInit => CatalogInv
<1> SUFFICES ASSUME CatInit PROVE CatalogInv
  OBVIOUS
<1>1. ConnsInv(conns)
  BY FirstConns DEF CatInit
<1>2. stamp \in Nat /\ moves \in 0..MaxMoves
  BY ConnectionsAssumption DEF CatInit
<1>3. /\ pg \in Screens /\ pg.catalog = NoConn /\ pg.loading /\ ~ pg.error
      /\ pg.target = NoConn
  BY DEF CatInit, Screens, Owners
<1>4. ScreenInv(pg)
  BY <1>3 DEF ScreenInv, ListFits
<1>5. CASE screen = "page" /\ reqs = {CatalogCall(CatalogControls(pg), FALSE, "none")}
  <2> DEFINE b == FALSE  owner == "none"  key == CatalogControls(pg)
             x == CatalogCall(key, b, owner)
  <2>1. key \in CatKeys /\ SameSort(key, pg)
    BY <1>3, ControlsAre
  <2>2. b \in BOOLEAN /\ owner \in Owners
    BY DEF Owners
  <2>3. owner = "none" /\ ~ b
    OBVIOUS
  <2> HIDE DEF b, owner
  <2>4. /\ x \in PageCalls /\ x.kind = "list" /\ x.key = key /\ x.background = b
        /\ x.owner = owner /\ Owner(x) = owner /\ x.current /\ x.answer = NoConn
    <3> HIDE DEF key
    <3> QED BY <2>1, <2>2, NewCatalogCall
  <2>5. reqs = {x}
    BY <1>5 DEF b, owner
  <2> HIDE DEF x
  <2>6. CallInv(x, pg)
    BY <2>3, <2>4 DEF CallInv
  <2>7. CurrentInv(x, pg)
    BY <1>3, <2>1, <2>3, <2>4 DEF CurrentInv
  <2>8. CatalogPageInv(pg, {x})
    BY <1>4, <2>6, <2>7 DEF CatalogPageInv, OneEach, Current
  <2> QED BY <1>1, <1>2, <1>5, <2>5, <2>8 DEF CatalogInv, CatInit
<1>6. CASE screen = "picker" /\ reqs = {}
  <2>1. Closed \in PickerStates /\ Closed.catalog = NoConn
    BY DEF Closed, PickerStates
  <2>2. PickerPartInv(picker, reqs, conns, stamp)
    BY <1>6, <2>1 DEF CatInit, PickerPartInv, MergedInv, PickAwaited
  <2> QED BY <1>1, <1>2, <1>3, <1>6, <2>2 DEF CatalogInv
<1> QED BY <1>5, <1>6 DEF CatInit

LEMMA CatalogKept == CatalogInv /\ [CatNext]_catVars => CatalogInv'
<1> SUFFICES ASSUME CatalogInv, [CatNext]_catVars PROVE CatalogInv'
  OBVIOUS
<1>1. ConnsInv(conns) /\ stamp \in Nat /\ moves \in 0..MaxMoves
  BY DEF CatalogInv
<1>2. \/ screen = "page" /\ picker = Closed /\ CatalogPageInv(pg, reqs)
      \/ screen = "picker" /\ pg.catalog = NoConn /\ PickerNow
  BY DEF CatalogInv, PickerNow
<1>3. Move => moves' \in 0..MaxMoves
  BY <1>1, ConnectionsAssumption DEF Move
<1>4. CASE otherTab
  BY <1>4, OtherTabKeeps
<1>5. ASSUME screen = "page", CatalogPageInv(pg', reqs'), moves' \in 0..MaxMoves,
             UNCHANGED <<conns, stamp, screen, picker>>
      PROVE  CatalogInv'
  BY <1>1, <1>2, <1>5 DEF CatalogInv
<1>6. ASSUME screen = "picker", PickerPartInv(picker', reqs', conns, stamp),
             moves' \in 0..MaxMoves, UNCHANGED <<conns, stamp, screen, pg>>
      PROVE  CatalogInv'
  BY <1>1, <1>2, <1>6 DEF CatalogInv
<1>7. CASE CatalogStep
  <2>1. \/ search \/ setSort \/ resetFilters \/ \E n \in Nat : turnPage(n)
        \/ refresh \/ retryLoad \/ openCreateDialog \/ onClose
        \/ \E id \in Conns : handleEditClick(id) \/ setDeleteTarget(id)
        \/ handleDeleteConfirm \/ \E hit \in BOOLEAN : handleSubmit(hit)
    <3>1. ASSUME NEW n, turnPage(n) PROVE \E k \in Nat : turnPage(k)
      <4>1. n \in Nat
        BY <3>1 DEF turnPage
      <4> QED BY <3>1, <4>1
    <3> QED BY <1>7, <3>1 DEF CatalogStep
  <2>2. /\ screen = "page" /\ UNCHANGED <<conns, stamp, screen, picker>>
        /\ Move \/ moves' = moves
    BY <2>1
       DEF search, setSort, resetFilters, turnPage, refresh, retryLoad, openCreateDialog,
           onClose, handleEditClick, setDeleteTarget, handleDeleteConfirm, handleSubmit,
           PageClick, InDialog
  <2>3. CatalogPageInv(pg, reqs)
    BY <1>2, <2>2
  <2>4. CatalogPageInv(pg', reqs')
    BY <2>1, <2>3, TurnsKeep, LoadsKeep, DialogsKeep, ConfirmsKeep
  <2> QED BY <1>1, <1>3, <1>5, <2>2, <2>4
<1>8. CASE PickerStep
  <2>1. screen = "picker" /\ UNCHANGED <<conns, stamp, screen, pg>> /\ Move
    BY <1>8 DEF PickerStep, handleToggle, handleSelect, setSearch, handleRefresh, loadMore,
                handleCreateConnection, Tap
  <2>2. PickerPartInv(picker', reqs', conns, stamp)
    BY <1>2, <1>8, <2>1, PicksKeep, CreateKeeps DEF PickerStep
  <2> QED BY <1>3, <1>6, <2>1, <2>2
<1>9. ASSUME NEW c \in reqs, apiAnswers(c) PROVE CatalogInv'
  <2>1. screen' = screen /\ pg' = pg /\ picker' = picker /\ moves' = moves
    BY <1>9 DEF apiAnswers
  <2>2. CASE screen = "page"
    <3>1. ConnsInv(conns') /\ stamp' \in Nat /\ CatalogPageInv(pg', reqs')
      BY <1>1, <1>2, <1>9, <2>2, ApiKeepsPage
    <3> QED BY <1>1, <1>2, <2>1, <2>2, <3>1 DEF CatalogInv
  <2>3. CASE screen = "picker"
    <3>1. /\ ConnsInv(conns') /\ stamp' \in Nat
          /\ PickerPartInv(picker', reqs', conns', stamp')
      BY <1>1, <1>2, <1>9, <2>3, ApiKeepsPicker
    <3> QED BY <1>1, <1>2, <2>1, <2>3, <3>1 DEF CatalogInv
  <2> QED BY <1>2, <2>2, <2>3
<1>10. ASSUME NEW c \in reqs, PageAnswer(c) PROVE CatalogInv'
  <2>1. /\ screen = "page" /\ UNCHANGED <<conns, stamp, screen, picker>>
        /\ Move \/ moves' = moves
    BY <1>10 DEF PageAnswer, catalogAnswer, editAnswer, submitAnswer, deleteAnswer, requestFails
  <2>2. CatalogPageInv(pg', reqs')
    BY <1>2, <1>10, <2>1, AnswersKeep
  <2> QED BY <1>1, <1>3, <1>5, <2>1, <2>2
<1>11. ASSUME NEW c \in reqs, PickerAnswer(c) PROVE CatalogInv'
  <2>1. /\ screen = "picker" /\ UNCHANGED <<conns, stamp, screen, pg>>
        /\ Move \/ moves' = moves
        /\ pickAnswer(c) \/ createAnswer(c) \/ pickFails(c)
    BY <1>11 DEF PickerAnswer, pickAnswer, createAnswer, pickFails
  <2>2. PickerPartInv(picker', reqs', conns, stamp)
    BY <1>1, <1>2, <2>1, PickAnswerKeeps, CreateAnswerKeeps, PickFailureKeeps
  <2> QED BY <1>1, <1>3, <1>6, <2>1, <2>2
<1>12. CASE UNCHANGED catVars
  BY <1>12 DEF CatalogInv, catVars
<1> QED BY <1>4, <1>7, <1>8, <1>9, <1>10, <1>11, <1>12 DEF CatNext

\* The inductive invariant of the connections: every request is for what was
\* chosen when it was sent, the last of its kind for what is chosen now, and the
\* pages the picker has put together are the beginning of the list they are of.
THEOREM CatalogInvariance == CatSpec => []CatalogInv
BY CatalogBegins, CatalogKept, PTL DEF CatSpec

LEMMA CatalogShows == CatalogInv => CatalogShowsTheChosen
<1> SUFFICES ASSUME CatalogInv PROVE CatalogShowsTheChosen
  OBVIOUS
<1>0. ConnsInv(conns)
  BY DEF CatalogInv
<1>1. CASE screen = "page" /\ picker = Closed /\ CatalogPageInv(pg, reqs)
  <2>1. ListFits(pg)
    BY <1>1 DEF CatalogPageInv, ScreenInv
  <2>2. CatalogIsForTheControls
    <3> SUFFICES ASSUME pg.catalog # NoConn, pg.by # "none"
                 PROVE  pg.catalog.key = [CatalogControls(pg) EXCEPT !.page = pg.catalog.key.page]
      BY <2>1 DEF CatalogIsForTheControls, ListFits
    <3>1. pg.catalog.key \in CatKeys /\ SameSort(pg.catalog.key, pg)
      <4>1. pg.catalog \in Answers
        BY <1>1 DEF CatalogPageInv, ScreenInv, Screens
      <4> QED BY <2>1, <4>1 DEF ListFits, Answers
    <3> QED BY <3>1 DEF CatKeys, CatalogControls, SameSort
  <2>3. PickerListsAll
    BY <1>1 DEF PickerListsAll, Closed
  <2> QED BY <2>2, <2>3 DEF CatalogShowsTheChosen
<1>2. CASE screen = "picker" /\ pg.catalog = NoConn /\ PickerPartInv(picker, reqs, conns, stamp)
  <2>1. CatalogIsForTheControls
    BY <1>2 DEF CatalogIsForTheControls
  <2> DEFINE cat == picker.catalog  all == buildCatalogWhere(picker.search)
             n == IF cat.page * Limit < Len(all) THEN cat.page * Limit ELSE Len(all)
  <2>2. SUFFICES ASSUME cat # NoConn, ~ picker.error, ~ (Cardinality(cat.of) > 1),
                        ~ \E c \in reqs : c.kind = "pick" /\
                            (~ c.append \/ c.key.search \notin cat.of)
        PROVE  /\ cat.of = {picker.search}
               /\ cat.seen = {stamp} =>
                    /\ cat.items = [k \in 1..n |-> all[k].id]
                    /\ hasMore <=> n < Len(all)
    BY <2>1 DEF CatalogShowsTheChosen, PickerListsAll
  <2>3. MergedInv(picker, conns, stamp) /\ PickAwaited(picker, reqs)
    BY <1>2 DEF PickerPartInv
  <2>4. picker.search \in BOOLEAN /\ cat \in Merged
    BY <2>2, <2>3 DEF MergedInv, PickerStates
  <2>5. cat.of # BOOLEAN
    <3>1. Cardinality(BOOLEAN) = 2
      <4>1. Cardinality({TRUE}) = 1 /\ IsFiniteSet({TRUE})
        BY FS_Singleton
      <4>2. Cardinality({TRUE} \cup {FALSE}) = Cardinality({TRUE}) + 1
        BY <4>1, FS_AddElement
      <4>3. {TRUE} \cup {FALSE} = BOOLEAN
        OBVIOUS
      <4>4. Cardinality(BOOLEAN) = Cardinality({TRUE}) + 1
        BY <4>2, <4>3, Zenon
      <4> DEFINE one == Cardinality({TRUE})  both == Cardinality(BOOLEAN)
      <4>5. one = 1 /\ both = one + 1
        BY <4>1, <4>4, Zenon
      <4> HIDE DEF one, both
      <4>6. both = 2
        BY <4>5
      <4> QED BY <4>6 DEF both
    <3> QED BY <2>2, <3>1
  <2>6. cat.of = {picker.search}
    BY <2>2, <2>3, <2>5 DEF PickAwaited
  <2>7. ASSUME cat.seen = {stamp}
        PROVE  cat.items = [k \in 1..n |-> all[k].id] /\ (hasMore <=> n < Len(all))
    <3> DEFINE x == picker.search  m == Matched(conns, x)
    <3>1. all = m
      BY WhereIsMatching
    <3>2. cat.items = TheFirst(conns, x, cat.page * Limit) /\ cat.total = Len(m)
      BY <2>2, <2>3, <2>4, <2>6, <2>7 DEF MergedInv
    <3> DEFINE upto == cat.page * Limit
    <3>3. upto \in Nat
      <4>1. cat.page \in Nat \ {0}
        BY <2>4 DEF Merged
      <4> QED BY <4>1, ConnectionsAssumption
    <3> HIDE DEF upto
    <3>4. /\ Len(m) \in Nat /\ Len(IdsOf(m)) = Len(m) /\ DOMAIN m = 1..Len(m)
          /\ \A k \in 1..Len(m) : IdsOf(m)[k] = m[k].id
      <4>1. m \in Seq(Connections)
        BY <1>0, MatchingInv DEF ConnsInv
      <4> HIDE DEF m
      <4> QED BY <4>1, IdsType
    <3>5. Len(TheFirst(conns, x, upto)) = Least(upto, Len(m))
      BY <1>0, <3>3, BeginningIs
    <3>6. TheFirst(conns, x, upto) = [k \in 1..Least(upto, Len(m)) |-> IdsOf(m)[k]]
      BY DEF TheFirst
    <3> HIDE DEF m, x
    <3>7. n = Least(upto, Len(m)) /\ 1..Least(upto, Len(m)) \subseteq 1..Len(m)
      BY <3>1, <3>3, <3>4 DEF Least, upto
    <3> DEFINE to == Least(upto, Len(m))
    <3>8. [k \in 1..to |-> IdsOf(m)[k]] = [k \in 1..to |-> m[k].id]
      <4> HIDE DEF to
      <4>1. \A k \in 1..to : IdsOf(m)[k] = m[k].id
        BY <3>4, <3>7 DEF to
      <4> QED BY <4>1
    <3>9. cat.items = [k \in 1..n |-> all[k].id]
      BY <3>1, <3>2, <3>6, <3>7, <3>8 DEF upto
    <3>10. Len(cat.items) = n /\ cat.total = Len(all)
      BY <3>1, <3>2, <3>5, <3>7 DEF upto
    <3> QED BY <2>2, <3>9, <3>10 DEF hasMore
  <2> QED BY <2>6, <2>7
<1> QED BY <1>1, <1>2 DEF CatalogInv

\* What the connections page and the picker show is what was chosen there, for any
\* number of connections, changes by others and any order of the answers.
THEOREM CatalogIsTrue == CatSpec => []CatalogShowsTheChosen
BY CatalogInvariance, CatalogShows, PTL

-----------------------------------------------------------------------------
(* The signs of loading. *)

\* A sign that nothing in flight will take away.
Lost(v, cs, b) ==
  (IF b THEN v.refreshing ELSE v.loading) /\ ~ \E c \in Current(cs) : c.background = b

LEMMA LockedIsLost ==
  /\ Locked(pg.refreshing, TRUE) <=> screen = "page" /\ Lost(pg, reqs, TRUE)
  /\ Locked(pg.loading, FALSE) <=> screen = "page" /\ Lost(pg, reqs, FALSE)
BY DEF Locked, Lost, Waits, Current

LEMMA LoadHasSign ==
  ASSUME NEW v \in Screens, NEW cs, NEW key, NEW b \in BOOLEAN, NEW owner,
         loadCatalog(v, cs, key, b, owner)
  PROVE  /\ ~ Lost(pg', reqs', b)
         /\ b => pg'.loading = v.loading
         /\ ~ b => pg'.refreshing = v.refreshing
<1> DEFINE new == CatalogCall(key, b, owner)
<1>1. new \in reqs' /\ pg' = Loads(v, b)
  BY DEF loadCatalog, Loads
<1>2. new.kind = "list" /\ new.current /\ new.background = b
  BY DEF CatalogCall
<1> HIDE DEF new
<1>3. new \in Current(reqs')
  BY <1>1, <1>2 DEF Current
<1>4. ~ Lost(pg', reqs', b)
  BY <1>2, <1>3 DEF Lost
<1> QED BY <1>1, <1>4 DEF Loads, Screens

LEMMA SettledSigns ==
  ASSUME NEW u \in Screens, NEW v \in Screens, NEW cs, Turned(u, v), Settle(v, cs)
  PROVE  /\ pg'.refreshing => u.refreshing
         /\ Lost(pg', reqs', FALSE) => Lost(u, cs, FALSE)
<1>0. v.loading = u.loading /\ v.refreshing = u.refreshing
  BY DEF Turned, SameSigns
<1>1. CASE pg' = v /\ reqs' = cs
  BY <1>0, <1>1 DEF Lost
<1>2. ASSUME NEW b \in BOOLEAN, ~ b, loadCatalog(v, cs, CatalogControls(v), b, "none")
      PROVE  /\ pg'.refreshing => u.refreshing
             /\ ~ Lost(pg', reqs', b)
  BY <1>0, <1>2, LoadHasSign
<1>3. CASE loadCatalog(v, cs, CatalogControls(v), FALSE, "none")
  BY <1>2, <1>3
<1> QED BY <1>1, <1>3 DEF Settle

LEMMA SignsStay ==
  ASSUME SameSigns(pg, pg'),
         \A b \in BOOLEAN : (\E c \in Current(reqs) : c.background = b)
                              => \E c \in Current(reqs') : c.background = b
  PROVE  \A b \in BOOLEAN : Lost(pg', reqs', b) => Lost(pg, reqs, b)
BY DEF Lost, SameSigns

\* The list that was waited for has come, or will not.
LEMMA EndSigns ==
  ASSUME CatalogPageInv(pg, reqs), NEW c \in reqs, c.kind = "list", c.current,
         NEW v, v = Ends(pg, c)
  PROVE  /\ v.loading => Lost(pg, reqs, FALSE)
         /\ v.refreshing => Lost(pg, reqs, TRUE)
<1>0. pg \in Screens /\ c \in PageCalls
  BY DEF CatalogPageInv, ScreenInv, CallInv
<1>1. c \in CatalogCalls
  BY <1>0, CallKinds
<1>2. v.loading = (pg.loading /\ c.background) /\ v.refreshing = (pg.refreshing /\ ~ c.background)
  BY <1>0, <1>1, EndShape
<1>3. \A d \in Current(reqs) : d = c
  BY DEF CatalogPageInv, OneEach, Current
<1>4. c.background \in BOOLEAN
  BY <1>1 DEF CatalogCalls
<1> QED BY <1>2, <1>3, <1>4 DEF Lost

LEMMA LocksStep ==
  ASSUME CatalogInv, screen = "page", CatNext
  PROVE  /\ Lost(pg', reqs', TRUE) => Lost(pg, reqs, TRUE) \/ search
         /\ Lost(pg', reqs', FALSE) =>
              Lost(pg, reqs, FALSE) \/ \E c \in reqs : submitAnswer(c)
<1> DEFINE Goal == /\ Lost(pg', reqs', TRUE) => Lost(pg, reqs, TRUE) \/ search
                   /\ Lost(pg', reqs', FALSE) =>
                        Lost(pg, reqs, FALSE) \/ \E c \in reqs : submitAnswer(c)
<1> SUFFICES Goal
  OBVIOUS
<1>0. CatalogPageInv(pg, reqs) /\ pg \in Screens
  BY DEF CatalogInv, CatalogPageInv, ScreenInv
<1>1. ASSUME \A b \in BOOLEAN : Lost(pg', reqs', b) => Lost(pg, reqs, b) PROVE Goal
  BY <1>1
<1>2. ASSUME SameSigns(pg, pg'), Current(reqs) \subseteq Current(reqs') PROVE Goal
  BY <1>1, <1>2, SignsStay
<1>3. CASE otherTab
  BY <1>2, <1>3 DEF otherTab, SameSigns
<1>4. CASE search
  <2> DEFINE v == [pg EXCEPT !.search = ~ @, !.page = 1]
  <2>1. v \in Screens /\ Turned(pg, v)
    <3>1. (~ pg.search) \in BOOLEAN
      OBVIOUS
    <3> QED BY <1>0, <3>1, TurnShape
  <2>2. Settle(v, reqs)
    BY <1>4 DEF search
  <2> HIDE DEF v
  <2> QED BY <1>0, <1>4, <2>1, <2>2, SettledSigns
<1>5. CASE setSort
  <2> DEFINE v == [pg EXCEPT !.oldest = ~ @, !.page = 1]
  <2>1. v \in Screens /\ Turned(pg, v)
    <3>1. (~ pg.oldest) \in BOOLEAN
      OBVIOUS
    <3> QED BY <1>0, <3>1, TurnShape
  <2>2. Settle(v, reqs) /\ ~ pg.refreshing
    BY <1>5 DEF setSort, controlsDisabled
  <2> HIDE DEF v
  <2>3. (pg'.refreshing => pg.refreshing) /\ (Lost(pg', reqs', FALSE) => Lost(pg, reqs, FALSE))
    BY <1>0, <2>1, <2>2, SettledSigns
  <2> QED BY <2>2, <2>3 DEF Lost
<1>6. CASE resetFilters
  <2>1. (~ pg.search) = FALSE
    BY <1>6 DEF resetFilters
  <2>2. search
    BY <1>6, <2>1 DEF resetFilters, search
  <2> QED BY <1>4, <2>2
<1>7. ASSUME NEW n, turnPage(n) PROVE Goal
  <2> DEFINE v == [pg EXCEPT !.page = n]
  <2>1. n \in Nat \ {0}
    BY <1>7 DEF turnPage
  <2>2. v \in Screens /\ Turned(pg, v)
    BY <1>0, <2>1 DEF Screens, Turned, SameDialog, SameSigns, SameLocks
  <2>3. Settle(v, reqs) /\ ~ pg.refreshing
    BY <1>7 DEF turnPage, controlsDisabled
  <2> HIDE DEF v
  <2>4. (pg'.refreshing => pg.refreshing) /\ (Lost(pg', reqs', FALSE) => Lost(pg, reqs, FALSE))
    BY <1>0, <2>2, <2>3, SettledSigns
  <2> QED BY <2>3, <2>4 DEF Lost
<1>8. ASSUME NEW v \in Screens, NEW cs, NEW key, NEW owner,
             loadCatalog(v, cs, key, TRUE, owner), v.loading = pg.loading,
             pg.loading => \E c \in reqs : submitAnswer(c)
      PROVE  Goal
  <2> DEFINE b == TRUE
  <2>1. b \in BOOLEAN /\ b
    OBVIOUS
  <2>2. loadCatalog(v, cs, key, b, owner)
    BY <1>8
  <2> HIDE DEF b
  <2>3. ~ Lost(pg', reqs', b) /\ pg'.loading = pg.loading
    BY <1>8, <2>1, <2>2, LoadHasSign
  <2> QED BY <1>8, <2>3 DEF Lost, b
<1>9. CASE refresh
  <2>1. loadCatalog(pg, reqs, CatalogControls(pg), TRUE, "none") /\ ~ pg.loading
    BY <1>9 DEF refresh
  <2> QED BY <1>0, <1>8, <2>1
<1>10. CASE retryLoad
  <2> DEFINE b == FALSE
  <2>1. loadCatalog(pg, reqs, CatalogControls(pg), b, "none") /\ pg.error
    BY <1>10 DEF retryLoad
  <2>2. b \in BOOLEAN /\ ~ b
    OBVIOUS
  <2> HIDE DEF b
  <2>3. ~ Lost(pg', reqs', b) /\ pg'.refreshing = pg.refreshing
    BY <1>0, <2>1, <2>2, LoadHasSign
  <2>4. Current(reqs) = {}
    BY <1>0, <2>1 DEF CatalogPageInv, CurrentInv
  <2> QED BY <2>3, <2>4 DEF Lost, b
<1>11. CASE openCreateDialog \/ handleDeleteConfirm \/ onClose \/
            (\E id \in Conns : handleEditClick(id) \/ setDeleteTarget(id)) \/
            (\E hit \in BOOLEAN : handleSubmit(hit))
  <2>1. reqs \subseteq reqs'
    BY <1>11 DEF openCreateDialog, handleDeleteConfirm, onClose, handleEditClick,
                 setDeleteTarget, handleSubmit
  <2>2. SameSigns(pg, pg')
    BY <1>0, <1>11 DEF openCreateDialog, handleDeleteConfirm, onClose, handleEditClick,
                 setDeleteTarget, handleSubmit, SameSigns, Screens
  <2> QED BY <1>2, <2>1, <2>2 DEF Current
<1>12. CASE PickerStep
  BY <1>12 DEF PickerStep, handleToggle, handleSelect, setSearch, handleRefresh, loadMore,
               handleCreateConnection, Tap
<1>13. ASSUME NEW c \in reqs, apiAnswers(c) PROVE Goal
  <2>0. c \in PageCalls /\ pg' = pg
    BY <1>0, <1>13 DEF CatalogPageInv, CallInv, apiAnswers
  <2>1. CASE c.kind = "list"
    <3> DEFINE a == findCatalog(c.key)  x == [c EXCEPT !.answer = a]
    <3>1. reqs' = (reqs \ {c}) \cup {x}
      BY <1>13, <2>1 DEF apiAnswers
    <3>2. c \in CatalogCalls
      BY <2>0, <2>1, CallKinds
    <3> HIDE DEF a
    <3>3. x.kind = c.kind /\ x.current = c.current /\ x.background = c.background
      BY <3>2 DEF CatalogCalls
    <3> HIDE DEF x
    <3>4. ASSUME NEW b \in BOOLEAN, NEW d \in Current(reqs), d.background = b
          PROVE  \E e \in Current(reqs') : e.background = b
      <4>1. CASE d = c
        BY <3>1, <3>3, <3>4, <4>1 DEF Current
      <4>2. CASE d # c
        BY <3>1, <3>4, <4>2 DEF Current
      <4> QED BY <4>1, <4>2
    <3> QED BY <1>1, <2>0, <3>4, SignsStay DEF SameSigns
  <2>2. CASE c.kind # "list"
    <3>1. reqs' = (reqs \ {c}) \cup {[c EXCEPT !.answer = "ok"]}
      BY <1>13, <2>0, <2>2, CallKinds DEF apiAnswers
    <3>2. Current(reqs) \subseteq Current(reqs')
      BY <2>2, <3>1 DEF Current
    <3> QED BY <1>2, <2>0, <3>2 DEF SameSigns
  <2> QED BY <2>1, <2>2
<1>14. ASSUME NEW c \in reqs, reqs' = reqs \ {c}, c \notin Current(reqs), SameSigns(pg, pg')
       PROVE  Goal
  BY <1>2, <1>14 DEF Current
<1>15. ASSUME NEW c \in reqs, c.kind = "list", NEW v, v = Ends(pg, c), c.current,
              Lost(pg', reqs', FALSE) => v.loading, pg'.refreshing => v.refreshing
       PROVE  Goal
  BY <1>0, <1>15, EndSigns DEF Lost
<1>16. ASSUME NEW c \in reqs, NEW owner \in Owners, pg' = Frees(pg, owner)
       PROVE  SameSigns(pg, pg')
  BY <1>0, <1>16, FreeShape
<1>17. ASSUME NEW c \in reqs, c.kind = "list", c.current
       PROVE  Ends(pg, c) \in Screens
  <2>1. c \in CatalogCalls
    BY <1>0, <1>17, CallKinds DEF CatalogPageInv, CallInv
  <2> QED BY <1>0, <2>1, EndShape
<1>18. ASSUME NEW c \in reqs, c.kind = "list" PROVE c.owner \in Owners
  <2>1. c \in CatalogCalls
    BY <1>0, <1>18, CallKinds DEF CatalogPageInv, CallInv
  <2> QED BY <2>1 DEF CatalogCalls
<1>19. ASSUME NEW c \in reqs, catalogAnswer(c) PROVE Goal
  <2>1. CASE ~ c.current
    <3>1. pg' = Frees(pg, c.owner) /\ reqs' = reqs \ {c} /\ c \notin Current(reqs)
      BY <1>19, <2>1 DEF catalogAnswer, Current
    <3> QED BY <1>14, <1>16, <1>18, <1>19, <3>1 DEF catalogAnswer
  <2>2. CASE c.current
    <3> DEFINE v == Ends(pg, c)  last == totalPages(c.answer.total)
    <3>1. c.kind = "list" /\ v \in Screens
      BY <1>17, <1>19, <2>2 DEF catalogAnswer
    <3>2. \/ Settle([v EXCEPT !.page = last], reqs \ {c})
          \/ pg' = [v EXCEPT !.catalog = c.answer, !.by = c.owner]
      BY <1>19, <2>2 DEF catalogAnswer
    <3>3. last \in Nat \ {0} /\ c.answer \in Answers
      <4>1. c \in CatalogCalls
        BY <1>0, <3>1, CallKinds DEF CatalogPageInv, CallInv
      <4>2. c.answer \in Answers
        BY <1>19, <4>1 DEF catalogAnswer, CatalogCalls
      <4>3. c.answer.total \in Nat
        BY <4>2 DEF Answers
      <4> QED BY <4>2, <4>3, SomePages
    <3> HIDE DEF v, last
    <3>4. v = Ends(pg, c)
      BY DEF v
    <3>5. CASE pg' = [v EXCEPT !.catalog = c.answer, !.by = c.owner]
      <4>1. Took(v, [v EXCEPT !.catalog = c.answer, !.by = c.owner], c.answer, c.owner)
        BY <1>18, <3>1, <3>3, TakeShape, Zenon
      <4>2. SameSigns(v, pg')
        BY <3>5, <4>1 DEF Took
      <4> QED BY <1>15, <2>2, <3>1, <3>4, <4>2 DEF SameSigns, Lost
    <3>6. CASE Settle([v EXCEPT !.page = last], reqs \ {c})
      <4> DEFINE w == [v EXCEPT !.page = last]
      <4>1. w \in Screens /\ Turned(v, w)
        BY <3>1, <3>3 DEF Screens, Turned, SameDialog, SameSigns, SameLocks
      <4>2. Settle(w, reqs \ {c})
        BY <3>6
      <4> HIDE DEF w
      <4>3. /\ pg'.refreshing => v.refreshing
            /\ Lost(pg', reqs', FALSE) => Lost(v, reqs \ {c}, FALSE)
        BY <3>1, <4>1, <4>2, SettledSigns
      <4> QED BY <1>15, <2>2, <3>1, <3>4, <4>3 DEF Lost
    <3> QED BY <3>2, <3>5, <3>6
  <2>3. c.current \in BOOLEAN
    <3>1. c \in CatalogCalls
      BY <1>0, <1>19, CallKinds DEF CatalogPageInv, CallInv, catalogAnswer
    <3> QED BY <3>1 DEF CatalogCalls
  <2> QED BY <2>1, <2>2, <2>3
<1>20. ASSUME NEW c \in reqs, editAnswer(c) PROVE Goal
  <2>1. reqs' = reqs \ {c} /\ c \notin Current(reqs)
    BY <1>20 DEF editAnswer, Current
  <2>2. pg' = [pg EXCEPT !.editing = NoConn, !.dialog = "edit", !.edited = c.id]
    BY <1>20 DEF editAnswer
  <2>3. ASSUME NEW u \in Screens, NEW id
        PROVE  SameSigns(u, [u EXCEPT !.editing = NoConn, !.dialog = "edit", !.edited = id])
    BY DEF Screens, SameSigns
  <2>4. SameSigns(pg, pg')
    BY <1>0, <2>2, <2>3
  <2> QED BY <1>14, <2>1, <2>4
<1>21. ASSUME NEW c \in reqs, submitAnswer(c) PROVE Goal
  <2> DEFINE v == [pg EXCEPT !.dialog = "none"]
  <2>1. v \in Screens /\ v.loading = pg.loading
    BY <1>0 DEF Screens
  <2>2. loadCatalog(v, reqs \ {c}, c.key, TRUE, "submit")
    BY <1>21 DEF submitAnswer
  <2> HIDE DEF v
  <2> QED BY <1>8, <1>21, <2>1, <2>2
<1>22. ASSUME NEW c \in reqs, deleteAnswer(c) PROVE Goal
  <2> DEFINE v == [pg EXCEPT !.target = NoConn]
  <2>1. v \in Screens /\ v.loading = pg.loading
    BY <1>0 DEF Screens
  <2>2. loadCatalog(v, reqs \ {c}, c.key, TRUE, "delete")
    BY <1>22 DEF deleteAnswer
  <2>3. ~ pg.loading
    BY <1>0, <1>22 DEF CatalogPageInv, CallInv, ScreenInv, deleteAnswer
  <2> HIDE DEF v
  <2> QED BY <1>8, <2>1, <2>2, <2>3
<1>23. ASSUME NEW c \in reqs, requestFails(c) PROVE Goal
  <2>0. c \in PageCalls /\ reqs' = reqs \ {c}
    BY <1>0, <1>23 DEF CatalogPageInv, CallInv, requestFails
  <2>1. CASE c.kind = "list" /\ c.current
    <3> DEFINE v == Ends(pg, c)
    <3>1. pg' = [v EXCEPT !.error = TRUE]
      BY <1>23, <2>1 DEF requestFails
    <3>2. v \in Screens
      BY <1>17, <2>1
    <3> HIDE DEF v
    <3>3. pg'.loading = v.loading /\ pg'.refreshing = v.refreshing
      BY <3>1, <3>2 DEF Screens
    <3>4. v = Ends(pg, c)
      BY DEF v
    <3> QED BY <1>15, <2>1, <3>3, <3>4 DEF Lost
  <2>2. CASE c.kind = "list" /\ ~ c.current
    <3>1. pg' = Frees(pg, c.owner) /\ c \notin Current(reqs)
      BY <1>23, <2>2 DEF requestFails, Current
    <3> QED BY <1>14, <1>16, <1>18, <2>0, <2>2, <3>1
  <2>3. CASE c.kind = "edit"
    <3>1. pg' = [pg EXCEPT !.editing = NoConn] /\ c \notin Current(reqs)
      BY <1>23, <2>3 DEF requestFails, Current
    <3>2. SameSigns(pg, pg')
      BY <1>0, <3>1 DEF Screens, SameSigns
    <3> QED BY <1>14, <2>0, <3>1, <3>2
  <2>4. CASE c.kind \in {"submit", "delete"}
    <3>1. pg' = Frees(pg, c.kind) /\ c \notin Current(reqs) /\ c.kind \in Owners
      BY <1>23, <2>4 DEF requestFails, Current, Owners
    <3> QED BY <1>14, <1>16, <2>0, <3>1
  <2> QED BY <2>0, <2>1, <2>2, <2>3, <2>4, CallKinds
<1>24. ASSUME NEW c \in reqs, PageAnswer(c) PROVE Goal
  BY <1>19, <1>20, <1>21, <1>22, <1>23, <1>24 DEF PageAnswer
<1>25. ASSUME NEW c \in reqs, PickerAnswer(c) PROVE FALSE
  BY <1>25 DEF PickerAnswer
<1> HIDE DEF Goal
<1>26. CASE CatalogStep
  <2>1. ASSUME turnPage(pg.page + 1) PROVE Goal
    BY <1>7, <2>1
  <2>2. ASSUME turnPage(pg.page - 1) PROVE Goal
    BY <1>7, <2>2
  <2> QED BY <1>4, <1>5, <1>6, <1>9, <1>10, <1>11, <1>26, <2>1, <2>2 DEF CatalogStep
<1> QED BY <1>3, <1>12, <1>13, <1>24, <1>25, <1>26 DEF CatNext

\* The page stays locked, or stays loading, for ever only in the two races the
\* property lists: a search overtakes a refresh, a save's reload the first load.
THEOREM LocksEnd == CatSpec => LocksAreLostOnlySo
<1> DEFINE Ended == /\ Locked(pg.refreshing, TRUE)' => Locked(pg.refreshing, TRUE) \/ search
                    /\ Locked(pg.loading, FALSE)' =>
                         Locked(pg.loading, FALSE) \/ \E c \in reqs : submitAnswer(c)
<1>1. CatalogInv /\ [CatNext]_catVars => [Ended]_catVars
  <2> SUFFICES ASSUME CatalogInv, CatNext PROVE Ended
    OBVIOUS
  <2>1. /\ Locked(pg.refreshing, TRUE)' <=> screen' = "page" /\ Lost(pg', reqs', TRUE)
        /\ Locked(pg.loading, FALSE)' <=> screen' = "page" /\ Lost(pg', reqs', FALSE)
    BY DEF Locked, Lost, Waits, Current
  <2>2. screen' = screen
    BY DEF CatNext, CatalogStep, PickerStep, otherTab, apiAnswers, PageAnswer, PickerAnswer,
           search, setSort, resetFilters, turnPage, refresh, retryLoad, openCreateDialog,
           onClose, handleEditClick, setDeleteTarget, handleDeleteConfirm, handleSubmit,
           PageClick, InDialog, handleToggle, handleSelect, setSearch, handleRefresh,
           loadMore, handleCreateConnection, Tap
  <2> QED BY <2>1, <2>2, LocksStep, LockedIsLost
<1>2. CatSpec => [][Ended]_catVars
  BY <1>1, CatalogInvariance, PTL DEF CatSpec
<1> QED BY <1>2 DEF LocksAreLostOnlySo

-----------------------------------------------------------------------------
(* The dashboard: any number of workflows, clicks, changes and losses.     *)

FlowLists == [Cards -> FlowRows \cup {NoCard}]

TripType ==
  [no : Nat, kind : {"load", "run", "status", "delete"}, card : Cards \cup {NoCard},
   mount : Nat, at : {"sent", "done", "asked", "read"}, ok : BOOLEAN,
   target : {"none", "ACTIVE", "PAUSED"}, did : Nat, list : FlowLists, asOf : Nat]

BoardType ==
  [workflows : FlowLists, loading : BOOLEAN, pending : Nat, asOf : Nat, hasData : BOOLEAN]

DashPageType ==
  [open : BOOLEAN, mount : Nat, error : BOOLEAN,
   busy : {<<>>} \cup (Cards \X {"run", "status", "delete"}), shared : BOOLEAN,
   dialog : Cards \cup {NoCard}, status : StatusFilters,
   attention : Reasons \cup {"ALL"}, search : BOOLEAN]

KnownType == [told : Nat, removed : SUBSET Cards, late : BOOLEAN, unheard : Nat]

DashTypeOK ==
  /\ flowsNow \in FlowLists
  /\ changes \in [all : Nat, others : Nat]
  /\ board \in BoardType
  /\ dash \in DashPageType
  /\ trips \subseteq TripType
  /\ known \in KnownType
  /\ spent \in [acts : Nat, losses : Nat]

\* A trip has a number of its own and the mount of its page; a load asks at once.
Numbered ==
  /\ IsFiniteSet(trips)
  /\ \A c \in trips : /\ c.no < spent.acts /\ c.mount <= dash.mount
                      /\ c.kind = "load" => c.at \in {"asked", "read"}
                      /\ c.kind # "load" => c.card \in Cards
                      /\ c.kind = "status" => c.target # "none"
  /\ \A c, d \in trips : c.no = d.no => c = d

\* A summary that will be as new as the last action, or fail.
Coming(c) ==
  \/ c.at = "asked"
  \/ c.at = "read" /\ ~ c.ok
  \/ c.at = "read" /\ c.asOf >= known.told

\* Nothing is told of before it has happened, and what was told of is shown, on
\* its way, or known not to come.
ToldInv ==
  /\ known.told <= changes.all
  /\ \A c \in trips : c.did <= changes.all /\ c.asOf <= changes.all
  /\ \/ \E c \in trips : Coming(c)
     \/ board.asOf >= known.told \/ known.late \/ dash.error \/ known.unheard = known.told

\* A workflow that was deleted is in no summary that is as new as its deletion.
GoneInv ==
  /\ \A w \in known.removed : flowsNow[w] = NoCard
  /\ \A c \in trips : c.kind = "delete" /\ c.at = "done" /\ c.ok =>
       /\ flowsNow[c.card] = NoCard
       /\ \A e \in trips : e.at = "read" /\ e.ok /\ e.asOf >= c.did => e.list[c.card] = NoCard
  /\ \A e \in trips : e.at = "read" /\ e.ok /\ e.asOf >= known.told =>
       \A w \in known.removed : e.list[w] = NoCard
  /\ DeletedStaysAway

\* Actions of one page that do not overlap are one at most.
BusyInv ==
  /\ BusyWhileOut
  /\ ~ dash.shared => \A c, d \in Live : c = d

DashInv == DashTypeOK /\ Numbered /\ LoadingWhileWaiting /\ ToldInv /\ GoneInv /\ BusyInv

-----------------------------------------------------------------------------
(* Trips that are waited for.                                              *)

TripWaits(c) == c.kind = "delete" \/ c.at \in {"asked", "read"}
Out(T) == {c \in T : TripWaits(c)}

\* Some of finitely many trips are finitely many.
LEMMA OutFinite ==
  ASSUME NEW T, IsFiniteSet(T)
  PROVE  IsFiniteSet(Out(T)) /\ Cardinality(Out(T)) \in Nat
         /\ (Cardinality(Out(T)) > 0 <=> Out(T) # {})
<1>1. IsFiniteSet(Out(T))
  BY FS_Subset DEF Out
<1> QED
  BY <1>1, FS_CardinalityType, FS_EmptySet

\* A trip that sets out counts if it is waited for.
LEMMA SetsOut ==
  ASSUME NEW T, IsFiniteSet(T), NEW n, n \notin T
  PROVE  /\ IsFiniteSet(T \cup {n})
         /\ TripWaits(n) => Cardinality(Out(T \cup {n})) = Cardinality(Out(T)) + 1
         /\ ~ TripWaits(n) => Out(T \cup {n}) = Out(T)
<1>1. IsFiniteSet(T \cup {n})
  BY FS_AddElement
<1>2. ASSUME TripWaits(n) PROVE Cardinality(Out(T \cup {n})) = Cardinality(Out(T)) + 1
  <2>1. Out(T \cup {n}) = Out(T) \cup {n} /\ n \notin Out(T)
    BY <1>2 DEF Out
  <2> QED
    BY <2>1, OutFinite, FS_AddElement
<1> QED
  BY <1>1, <1>2 DEF Out

\* A trip that ends no longer does.
LEMMA ComesBack ==
  ASSUME NEW T, IsFiniteSet(T), NEW c \in T
  PROVE  /\ IsFiniteSet(T \ {c})
         /\ TripWaits(c) => Cardinality(Out(T \ {c})) = Cardinality(Out(T)) - 1
         /\ TripWaits(c) => Cardinality(Out(T)) > 0
         /\ ~ TripWaits(c) => Out(T \ {c}) = Out(T)
<1>1. IsFiniteSet(T \ {c})
  BY FS_RemoveElement
<1>2. ASSUME TripWaits(c) PROVE Cardinality(Out(T \ {c})) = Cardinality(Out(T)) - 1
                              /\ Cardinality(Out(T)) > 0
  <2>1. Out(T \ {c}) = Out(T) \ {c} /\ c \in Out(T)
    BY <1>2 DEF Out
  <2> QED
    BY <2>1, OutFinite, FS_RemoveElement
<1> QED
  BY <1>1, <1>2 DEF Out

\* A trip that goes on counts as what it has become.
LEMMA GoesOn ==
  ASSUME NEW T, IsFiniteSet(T), NEW c \in T, NEW d, d \notin T \ {c}
  PROVE  LET U == (T \ {c}) \cup {d} IN
         /\ IsFiniteSet(U)
         /\ (TripWaits(c) <=> TripWaits(d)) => Cardinality(Out(U)) = Cardinality(Out(T))
         /\ ~ TripWaits(c) /\ TripWaits(d) => Cardinality(Out(U)) = Cardinality(Out(T)) + 1
<1>1. IsFiniteSet(T \ {c})
  BY ComesBack
<1>2. Cardinality(Out(T)) \in Nat /\ Cardinality(Out(T \ {c})) \in Nat
  BY <1>1, OutFinite
<1> QED
  BY <1>1, <1>2, ComesBack, SetsOut

-----------------------------------------------------------------------------
(* The steps.                                                              *)

\* What is needed of the constants.
LEMMA DashConstants ==
  IsFiniteSet(Cards) /\ NoCard \notin Cards /\ Matching \subseteq Cards
BY DashboardAssumption

\* A new trip is one.
LEMMA TripHasType ==
  ASSUME DashTypeOK, NEW kind \in {"load", "run", "status", "delete"},
         NEW w \in Cards \cup {NoCard}, NEW at \in {"sent", "asked"}
  PROVE  /\ Trip(kind, w, at) \in TripType
         /\ Trip(kind, w, at).no = spent.acts /\ Trip(kind, w, at).mount = dash.mount
         /\ Trip(kind, w, at).kind = kind /\ Trip(kind, w, at).at = at
         /\ Trip(kind, w, at).card = w /\ Trip(kind, w, at).did = 0
         /\ Trip(kind, w, at).asOf = 0
<1>1. Unread \in FlowLists
  BY DEF Unread, FlowLists
<1>2. spent.acts \in Nat /\ dash.mount \in Nat
  BY DEF DashTypeOK, DashPageType
<1> QED
  BY <1>1, <1>2 DEF Trip, TripType

\* An action of a row, run, toggle or deletion, sets out as a new trip.
Sets(c) ==
  /\ c \in TripType /\ c.no = spent.acts /\ c.mount = dash.mount /\ c.at = "sent"
  /\ c.kind # "load" /\ c.card \in Cards /\ c.did = 0 /\ c.asOf = 0
  /\ c.kind = "status" => c.target # "none"
  /\ trips' = trips \cup {c} /\ dash' = Busied(dash, c)
  /\ spent' = [spent EXCEPT !.acts = @ + 1]
  /\ board' = (IF c.kind = "delete" THEN Begun(board) ELSE board)
  /\ UNCHANGED <<flowsNow, changes, known>>

LEMMA ActionSets ==
  ASSUME DashTypeOK,
         confirmDelete \/ \E w \in Cards : handleRunRow(w) \/ handleToggleRow(w)
  PROVE  \E c : Sets(c)
<1>1. CASE confirmDelete
  <2> DEFINE c == Trip("delete", dash.dialog, "sent")
  <2>1. dash.dialog \in Cards
    BY <1>1 DEF confirmDelete, DialogOpen, DashTypeOK, DashPageType
  <2>2. c \in TripType /\ c.no = spent.acts /\ c.mount = dash.mount /\ c.kind = "delete"
        /\ c.at = "sent" /\ c.card = dash.dialog /\ c.did = 0 /\ c.asOf = 0
    BY <2>1, TripHasType
  <2>3. /\ trips' = trips \cup {c} /\ dash' = Busied(dash, c)
        /\ spent' = [spent EXCEPT !.acts = @ + 1] /\ board' = Begun(board)
        /\ UNCHANGED <<flowsNow, changes, known>>
    BY <1>1 DEF confirmDelete, Act
  <2> HIDE DEF c
  <2>4. Sets(c)
    BY <2>1, <2>2, <2>3 DEF Sets
  <2> QED
    BY <2>4
<1>2. ASSUME NEW w \in Cards, handleRunRow(w) PROVE \E c : Sets(c)
  <2> DEFINE c == Trip("run", w, "sent")
  <2>1. c \in TripType /\ c.no = spent.acts /\ c.mount = dash.mount /\ c.kind = "run"
        /\ c.at = "sent" /\ c.card = w /\ c.did = 0 /\ c.asOf = 0
    BY TripHasType
  <2>2. /\ trips' = trips \cup {c} /\ dash' = Busied(dash, c)
        /\ spent' = [spent EXCEPT !.acts = @ + 1] /\ board' = board
        /\ UNCHANGED <<flowsNow, changes, known>>
    BY <1>2 DEF handleRunRow, Act
  <2> HIDE DEF c
  <2>3. Sets(c)
    BY <2>1, <2>2 DEF Sets
  <2> QED
    BY <2>3
<1>3. ASSUME NEW w \in Cards, handleToggleRow(w) PROVE \E c : Sets(c)
  <2> DEFINE next == IF board.workflows[w].status = "ACTIVE" THEN "PAUSED" ELSE "ACTIVE"
             b == Trip("status", w, "sent")
             c == [b EXCEPT !.target = next]
  <2>1. b \in TripType /\ b.no = spent.acts /\ b.mount = dash.mount /\ b.kind = "status"
        /\ b.at = "sent" /\ b.card = w /\ b.did = 0 /\ b.asOf = 0
    BY TripHasType
  <2>2. /\ trips' = trips \cup {c} /\ dash' = Busied(dash, c)
        /\ spent' = [spent EXCEPT !.acts = @ + 1] /\ board' = board
        /\ UNCHANGED <<flowsNow, changes, known>>
    BY <1>3 DEF handleToggleRow, Act
  <2> HIDE DEF b
  <2>3. c \in TripType /\ c.no = spent.acts /\ c.mount = dash.mount /\ c.kind = "status"
        /\ c.at = "sent" /\ c.card = w /\ c.did = 0 /\ c.asOf = 0 /\ c.target # "none"
    BY <2>1 DEF TripType
  <2> HIDE DEF c
  <2>4. Sets(c)
    BY <2>2, <2>3 DEF Sets
  <2> QED
    BY <2>4
<1> QED
  BY <1>1, <1>2, <1>3

\* The page is opened, and a load asks.
Opens(c) ==
  /\ c \in TripType /\ c.no = spent.acts /\ c.mount = dash.mount + 1
  /\ c.kind = "load" /\ c.at = "asked" /\ c.did = 0 /\ c.asOf = 0
  /\ trips' = trips \cup {c} /\ dash' = NewPageState(dash.mount + 1)
  /\ spent' = [spent EXCEPT !.acts = @ + 1] /\ board' = Begun(board)
  /\ UNCHANGED <<flowsNow, changes, known>>

LEMMA PageOpens ==
  ASSUME DashTypeOK, OpenDashboard
  PROVE  \E c : Opens(c)
<1> DEFINE b == Trip("load", NoCard, "asked")
           c == [b EXCEPT !.mount = dash.mount + 1]
<1>1. b \in TripType /\ b.no = spent.acts /\ b.kind = "load" /\ b.at = "asked"
      /\ b.did = 0 /\ b.asOf = 0
  BY TripHasType
<1>2. /\ trips' = trips \cup {c} /\ dash' = NewPageState(dash.mount + 1)
      /\ spent' = [spent EXCEPT !.acts = @ + 1] /\ board' = Begun(board)
      /\ UNCHANGED <<flowsNow, changes, known>> /\ dash.mount + 1 \in Nat
  BY DEF OpenDashboard, Act, DashTypeOK, DashPageType
<1> HIDE DEF b
<1>3. c \in TripType /\ c.no = spent.acts /\ c.mount = dash.mount + 1
      /\ c.kind = "load" /\ c.at = "asked" /\ c.did = 0 /\ c.asOf = 0
  BY <1>1, <1>2 DEF TripType
<1> HIDE DEF c
<1>4. Opens(c)
  BY <1>2, <1>3 DEF Opens
<1> QED
  BY <1>4

\* A click that sends nothing.
Looks ==
  /\ UNCHANGED <<flowsNow, changes, board, trips, known>>
  /\ dash' \in DashPageType
  /\ dash'.mount = dash.mount /\ dash'.error = dash.error
  /\ dash'.busy = dash.busy /\ dash'.shared = dash.shared
  /\ spent' \in [acts : Nat, losses : Nat] /\ spent'.acts >= spent.acts

LEMMA ClickLooks ==
  ASSUME DashTypeOK,
         \/ LeaveDashboard \/ cancelDelete \/ setSearchQuery \/ resetWorkflowFilters
         \/ \E w \in Cards : handleDelete(w)
         \/ \E s \in StatusFilters : setStatusFilter(s)
         \/ \E a \in Reasons \cup {"ALL"} : setAttentionFilter(a)
         \/ \E k \in Reasons : handleAttentionCardClick(k)
  PROVE  Looks
<1>1. dash \in DashPageType /\ spent \in [acts : Nat, losses : Nat]
      /\ dash.status \in StatusFilters /\ dash.attention \in Reasons \cup {"ALL"}
      /\ dash.search \in BOOLEAN
  BY DEF DashTypeOK, DashPageType
<1>2. ASSUME NEW s \in StatusFilters, NEW a \in Reasons \cup {"ALL"}, NEW q \in BOOLEAN,
             Filtering(s, a, q)
      PROVE  Looks
  <2>1. /\ UNCHANGED <<flowsNow, changes, board, trips, known>>
        /\ spent' = [spent EXCEPT !.acts = @ + 1]
        /\ dash' = [dash EXCEPT !.status = s, !.attention = a, !.search = q]
    BY <1>2 DEF Filtering, Act
  <2>2. spent' \in [acts : Nat, losses : Nat] /\ spent'.acts >= spent.acts
    BY <1>1, <2>1
  <2>3. /\ dash' \in DashPageType
        /\ dash'.mount = dash.mount /\ dash'.error = dash.error
        /\ dash'.busy = dash.busy /\ dash'.shared = dash.shared
    BY <1>1, <2>1 DEF DashPageType
  <2> QED
    BY <2>1, <2>2, <2>3 DEF Looks
<1>3. CASE LeaveDashboard \/ cancelDelete \/ \E w \in Cards : handleDelete(w)
  <2>1. /\ UNCHANGED <<flowsNow, changes, board, trips, known, spent>>
        /\ \/ dash' = [dash EXCEPT !.open = FALSE]
           \/ \E w \in Cards \cup {NoCard} : dash' = [dash EXCEPT !.dialog = w]
    BY <1>3 DEF LeaveDashboard, cancelDelete, handleDelete
  <2>2. /\ dash' \in DashPageType
        /\ dash'.mount = dash.mount /\ dash'.error = dash.error
        /\ dash'.busy = dash.busy /\ dash'.shared = dash.shared
    BY <1>1, <2>1 DEF DashPageType
  <2>3. spent'.acts >= spent.acts
    BY <1>1, <2>1
  <2> QED
    BY <1>1, <2>1, <2>2, <2>3 DEF Looks
<1>4. CASE setSearchQuery \/ resetWorkflowFilters
  BY <1>1, <1>2, <1>4 DEF setSearchQuery, resetWorkflowFilters, StatusFilters
<1>5. ASSUME NEW s \in StatusFilters, setStatusFilter(s) PROVE Looks
  BY <1>1, <1>2, <1>5 DEF setStatusFilter
<1>6. ASSUME NEW a \in Reasons \cup {"ALL"}, setAttentionFilter(a) PROVE Looks
  BY <1>1, <1>2, <1>6 DEF setAttentionFilter
<1>7. ASSUME NEW k \in Reasons, handleAttentionCardClick(k) PROVE Looks
  <2>1. CardFilters(k)[1] \in StatusFilters /\ CardFilters(k)[2] \in Reasons \cup {"ALL"}
    BY DEF CardFilters, StatusFilters, Reasons
  <2>2. \/ Filtering("ALL", "ALL", dash.search)
        \/ Filtering(CardFilters(k)[1], CardFilters(k)[2], FALSE)
    BY <1>7 DEF handleAttentionCardClick
  <2> QED
    BY <1>1, <1>2, <2>1, <2>2 DEF StatusFilters
<1> QED
  BY <1>3, <1>4, <1>5, <1>6, <1>7
-----------------------------------------------------------------------------
(* What new trips, trips that go on and trips that end leave as it was.    *)

\* A trip that goes on keeps its number, its page and what it is about.
Goes(c, d) ==
  /\ c \in trips /\ d \in TripType /\ trips' = Replaced(c, d)
  /\ d.no = c.no /\ d.kind = c.kind /\ d.card = c.card /\ d.mount = c.mount
  /\ d.target = c.target /\ (d.kind = "load" => d.at \in {"asked", "read"})
  /\ spent'.acts = spent.acts /\ dash'.mount = dash.mount
  /\ dash'.busy = dash.busy /\ dash'.shared = dash.shared

LEMMA GoingOn ==
  ASSUME DashTypeOK, Numbered, BusyInv, NEW c, NEW d, Goes(c, d)
  PROVE  /\ d \notin trips \ {c} /\ trips' \subseteq TripType
         /\ Numbered' /\ BusyInv'
<1>1. d \notin trips \ {c} /\ trips' = (trips \ {c}) \cup {d}
  BY DEF Numbered, Goes, Replaced
<1>2. trips' \subseteq TripType
  BY <1>1 DEF DashTypeOK, Goes
<1>3. Numbered'
  <2>0. IsFiniteSet(trips) /\ c \in trips
    BY DEF Numbered, Goes
  <2>1. IsFiniteSet(trips')
    BY <1>1, <2>0, GoesOn
  <2> QED
    BY <1>1, <2>1 DEF Numbered, Goes
<1>4. BusyInv'
  <2>1. Live' = IF c \in Live THEN (Live \ {c}) \cup {d} ELSE Live
    BY <1>1 DEF Live, Goes
  <2>2. dash'.busy = dash.busy /\ dash'.shared = dash.shared
        /\ d.card = c.card /\ d.kind = c.kind
    BY DEF Goes
  <2>3. Live' = {} => Live = {}
    BY <2>1
  <2>4. ASSUME ~ dash.shared
        PROVE  /\ \A e \in Live' : dash.busy = <<e.card, e.kind>>
               /\ \A e, f \in Live' : e = f
    <3>1. /\ \A e \in Live : dash.busy = <<e.card, e.kind>>
          /\ \A e, f \in Live : e = f
      BY <2>4 DEF BusyInv, BusyWhileOut
    <3>2. c \in Live => Live' = {d}
      BY <2>1, <3>1
    <3> QED
      BY <2>1, <2>2, <3>1, <3>2
  <2>5. Live = {} => dash.busy = <<>>
    BY DEF BusyInv, BusyWhileOut
  <2> QED
    BY <2>2, <2>3, <2>4, <2>5 DEF BusyInv, BusyWhileOut
<1> QED
  BY <1>1, <1>2, <1>3, <1>4

\* A trip that ends frees the slot, if it is an action of this page.
TripEnds(c, d) ==
  /\ c \in trips /\ trips' = trips \ {c} /\ spent' = spent
  /\ d \in DashPageType /\ d.mount = dash.mount /\ d.busy = dash.busy /\ d.shared = dash.shared
  /\ dash' = Rested(d, c)

LEMMA Ending ==
  ASSUME DashTypeOK, Numbered, BusyInv, NEW c, NEW d, TripEnds(c, d)
  PROVE  /\ trips' \subseteq TripType /\ dash' \in DashPageType /\ dash'.error = d.error
         /\ Numbered' /\ BusyInv'
<1> USE DEF TripEnds
<1>1. dash' \in DashPageType /\ dash'.error = d.error /\ dash'.mount = dash.mount
  <2>1. CASE c.kind = "load" \/ c.mount # d.mount
    BY <2>1 DEF Rested
  <2>2. CASE ~ (c.kind = "load" \/ c.mount # d.mount)
    <3>1. dash' = [d EXCEPT !.busy = <<>>, !.shared = @ /\ Live # {c}]
      BY <2>2 DEF Rested
    <3>2. d.shared \in BOOLEAN
      BY DEF DashPageType
    <3>3. (d.shared /\ Live # {c}) \in BOOLEAN
      OBVIOUS
    <3> QED
      BY <3>1, <3>3 DEF DashPageType
  <2> QED
    BY <2>1, <2>2
<1>2. Numbered'
  <2>1. IsFiniteSet(trips')
    BY ComesBack DEF Numbered
  <2> QED
    BY <1>1, <2>1 DEF Numbered
<1>3. Live' = Live \ {c}
  BY <1>1 DEF Live
<1>4. BusyInv'
  <2>1. CASE c \notin Live
    <3>1. dash' = d /\ Live' = Live
      BY <1>3, <2>1 DEF Rested, Live
    <3> QED
      BY <3>1 DEF BusyInv, BusyWhileOut
  <2>2. CASE c \in Live
    <3>1. dash' = [d EXCEPT !.busy = <<>>, !.shared = @ /\ Live # {c}]
      BY <2>2 DEF Rested, Live
    <3>2. dash'.busy = <<>> /\ (dash'.shared <=> (dash.shared /\ Live # {c}))
      BY <3>1 DEF DashPageType
    <3>3. ~ dash'.shared => Live' = {}
      BY <1>3, <2>2, <3>2 DEF BusyInv
    <3> QED
      BY <3>2, <3>3 DEF BusyInv, BusyWhileOut
  <2> QED
    BY <2>1, <2>2
<1> QED
  BY <1>1, <1>2, <1>4 DEF DashTypeOK

\* A new trip has a number that none had.
LEMMA NewNumber ==
  ASSUME DashTypeOK, Numbered, NEW c, Sets(c) \/ Opens(c)
  PROVE  /\ c \notin trips /\ trips' = trips \cup {c} /\ trips' \subseteq TripType
         /\ spent' \in [acts : Nat, losses : Nat] /\ Numbered'
<1>1. /\ c \in TripType /\ c.no = spent.acts /\ trips' = trips \cup {c}
      /\ spent' = [spent EXCEPT !.acts = @ + 1] /\ spent \in [acts : Nat, losses : Nat]
      /\ dash.mount \in Nat
  BY DEF Sets, Opens, DashTypeOK, DashPageType
<1>2. c \notin trips
  BY <1>1 DEF Numbered
<1>3. spent' \in [acts : Nat, losses : Nat] /\ spent'.acts = spent.acts + 1
  BY <1>1
<1>4. /\ c.mount <= dash'.mount /\ dash.mount <= dash'.mount /\ dash'.mount \in Nat
      /\ c.kind = "load" => c.at \in {"asked", "read"}
      /\ c.kind # "load" => c.card \in Cards
      /\ c.kind = "status" => c.target # "none"
  <2>1. CASE Sets(c)
    <3>1. dash'.mount = dash.mount
      BY <2>1 DEF Sets, Busied, DashTypeOK, DashPageType
    <3> QED
      BY <1>1, <2>1, <3>1 DEF Sets
  <2>2. CASE Opens(c)
    <3>1. dash'.mount = dash.mount + 1
      BY <2>2 DEF Opens, NewPageState
    <3> QED
      BY <1>1, <2>2, <3>1 DEF Opens
  <2> QED
    BY <2>1, <2>2
<1>5. Numbered'
  <2>1. IsFiniteSet(trips')
    BY <1>1, <1>2, SetsOut DEF Numbered
  <2>2. \A e \in trips : e.no \in Nat /\ e.mount \in Nat
    BY DEF DashTypeOK, TripType
  <2>3. \A e \in trips' : e.no < spent'.acts
    BY <1>1, <1>3, <2>2 DEF Numbered
  <2>4. \A e \in trips' : e.mount <= dash'.mount
    <3>1. \A e \in trips : e.mount <= dash.mount
      BY DEF Numbered
    <3> QED
      BY <1>1, <1>4, <2>2, <3>1
  <2>5. \A e, f \in trips' : e.no = f.no => e = f
    BY <1>1, <2>2 DEF Numbered
  <2> QED
    BY <1>1, <1>4, <2>1, <2>3, <2>4, <2>5 DEF Numbered
<1> QED
  BY <1>1, <1>2, <1>3, <1>5 DEF DashTypeOK

\* runWithLoading counts, and touches nothing else of the store.
LEMMA Signs ==
  ASSUME NEW b \in BoardType
  PROVE  /\ Begun(b) \in BoardType /\ Begun(b).pending = b.pending + 1 /\ Begun(b).loading
         /\ Begun(b).workflows = b.workflows /\ Begun(b).asOf = b.asOf
         /\ Finished(b) \in BoardType
         /\ b.pending > 0 => Finished(b).pending = b.pending - 1
         /\ Finished(b).loading <=> Finished(b).pending > 0
         /\ Finished(b).workflows = b.workflows /\ Finished(b).asOf = b.asOf
<1>1. b.pending \in Nat
  BY DEF BoardType
<1>2. /\ Begun(b) \in BoardType /\ Begun(b).pending = b.pending + 1
      /\ Begun(b).loading = TRUE
      /\ Begun(b).workflows = b.workflows /\ Begun(b).asOf = b.asOf
  <2> DEFINE more == b.pending + 1
  <2>1. more \in Nat
    BY <1>1
  <2>2. Begun(b) = [b EXCEPT !.pending = more, !.loading = TRUE]
    BY DEF Begun
  <2>3. TRUE \in BOOLEAN
    OBVIOUS
  <2> HIDE DEF more
  <2>4. /\ Begun(b) \in BoardType /\ Begun(b).pending = more
        /\ Begun(b).loading = TRUE
        /\ Begun(b).workflows = b.workflows /\ Begun(b).asOf = b.asOf
    BY <2>1, <2>2, <2>3 DEF BoardType
  <2> QED
    BY <2>4 DEF more
<1> DEFINE left == IF b.pending = 0 THEN 0 ELSE b.pending - 1
<1>3. left \in Nat /\ (b.pending > 0 => left = b.pending - 1)
  BY <1>1
<1>4. Finished(b) = [b EXCEPT !.pending = left, !.loading = left > 0]
  BY DEF Finished
<1> HIDE DEF left
<1>5. (left > 0) \in BOOLEAN
  OBVIOUS
<1>6. /\ Finished(b) \in BoardType /\ Finished(b).pending = left
      /\ Finished(b).loading = (left > 0)
      /\ Finished(b).workflows = b.workflows /\ Finished(b).asOf = b.asOf
  BY <1>3, <1>4, <1>5 DEF BoardType
<1> QED
  BY <1>2, <1>3, <1>6

\* The sign, said of the trips that wait.
LEMMA SignSaid ==
  LoadingWhileWaiting <=> /\ board.pending = Cardinality(Out(trips))
                          /\ board.loading <=> Out(trips) # {}
<1>1. Waiting = Out(trips)
  BY DEF Waiting, Out, TripWaits
<1> QED
  BY <1>1 DEF LoadingWhileWaiting

LEMMA SignSaidNext ==
  LoadingWhileWaiting' <=> /\ board'.pending = Cardinality(Out(trips'))
                           /\ board'.loading <=> Out(trips') # {}
<1>1. Waiting' = Out(trips')
  BY DEF Waiting, Out, TripWaits
<1> QED
  BY <1>1 DEF LoadingWhileWaiting

\* What a click of the user sends leaves the invariant.
LEMMA SetsKeeps ==
  ASSUME DashInv, NEW c, Sets(c)
  PROVE  DashInv'
<1> USE DEF DashInv
<1>1. /\ c \notin trips /\ trips' = trips \cup {c} /\ trips' \subseteq TripType
      /\ spent' \in [acts : Nat, losses : Nat] /\ Numbered'
  BY NewNumber
<1>2. /\ c \in TripType /\ c.mount = dash.mount /\ c.at = "sent" /\ c.kind # "load"
      /\ c.card \in Cards /\ c.did = 0 /\ c.asOf = 0 /\ dash' = Busied(dash, c)
      /\ board' = (IF c.kind = "delete" THEN Begun(board) ELSE board)
      /\ UNCHANGED <<flowsNow, changes, known>>
  BY DEF Sets
<1>3. /\ dash' \in DashPageType /\ dash'.mount = dash.mount /\ dash'.error = dash.error
      /\ dash'.busy = <<c.card, c.kind>> /\ dash'.shared = (Live # {})
  <2>1. dash \in DashPageType /\ <<c.card, c.kind>> \in Cards \X {"run", "status", "delete"}
    BY <1>2 DEF DashTypeOK, TripType
  <2>2. (Live # {}) \in BOOLEAN
    OBVIOUS
  <2> QED
    BY <1>2, <2>1, <2>2 DEF Busied, DashPageType
<1>4. DashTypeOK'
  BY <1>1, <1>2, <1>3, Signs DEF DashTypeOK
<1>5. LoadingWhileWaiting'
  <2>1. TripWaits(c) <=> c.kind = "delete"
    BY <1>2 DEF TripWaits
  <2>2. IsFiniteSet(trips)
    BY DEF Numbered
  <2>3. CASE c.kind = "delete"
    <3>1. Cardinality(Out(trips')) = Cardinality(Out(trips)) + 1
      BY <1>1, <2>1, <2>2, <2>3, SetsOut
    <3>2. board'.pending = board.pending + 1 /\ board'.loading
      BY <1>2, <2>3, Signs DEF DashTypeOK
    <3>3. c \in Out(trips')
      BY <1>1, <2>1, <2>3 DEF Out
    <3> QED
      BY <3>1, <3>2, <3>3, SignSaid, SignSaidNext
  <2>4. CASE c.kind # "delete"
    <3>1. Out(trips') = Out(trips)
      BY <1>1, <2>1, <2>2, <2>4, SetsOut
    <3> QED
      BY <1>2, <2>4, <3>1, SignSaid, SignSaidNext
  <2> QED
    BY <2>3, <2>4
<1>6. ToldInv'
  <2>1. changes.all \in Nat
    BY DEF DashTypeOK
  <2>2. board'.asOf = board.asOf
    BY <1>2, Signs DEF DashTypeOK
  <2> QED
    BY <1>1, <1>2, <1>3, <2>1, <2>2 DEF ToldInv, Coming
<1>7. GoneInv'
  BY <1>1, <1>2 DEF GoneInv, DeletedStaysAway, Listed, Begun, DashTypeOK, BoardType
<1>8. BusyInv'
  <2>1. Live' = Live \cup {c}
    BY <1>1, <1>2, <1>3 DEF Live
  <2> QED
    BY <1>3, <2>1 DEF BusyInv, BusyWhileOut
<1> QED
  BY <1>1, <1>4, <1>5, <1>6, <1>7, <1>8

\* A page that opens shows no error and no busy row, and asks.
LEMMA OpensKeeps ==
  ASSUME DashInv, NEW c, Opens(c)
  PROVE  DashInv'
<1> USE DEF DashInv
<1>1. /\ c \notin trips /\ trips' = trips \cup {c} /\ trips' \subseteq TripType
      /\ spent' \in [acts : Nat, losses : Nat] /\ Numbered'
  BY NewNumber
<1>2. /\ c \in TripType /\ c.mount = dash.mount + 1 /\ c.at = "asked" /\ c.kind = "load"
      /\ c.did = 0 /\ c.asOf = 0 /\ dash' = NewPageState(dash.mount + 1)
      /\ board' = Begun(board) /\ UNCHANGED <<flowsNow, changes, known>>
  BY DEF Opens
<1>3. /\ dash' \in DashPageType /\ dash'.mount = dash.mount + 1 /\ dash'.busy = <<>>
      /\ dash.mount \in Nat
  <2>1. dash.mount \in Nat
    BY DEF DashTypeOK, DashPageType
  <2> QED
    BY <1>2, <2>1 DEF NewPageState, DashPageType, StatusFilters
<1>4. DashTypeOK'
  BY <1>1, <1>2, <1>3, Signs DEF DashTypeOK
<1>5. LoadingWhileWaiting'
  <2>1. TripWaits(c) /\ IsFiniteSet(trips)
    BY <1>2 DEF TripWaits, Numbered
  <2>2. Cardinality(Out(trips')) = Cardinality(Out(trips)) + 1
    BY <1>1, <2>1, SetsOut
  <2>3. board'.pending = board.pending + 1 /\ board'.loading
    BY <1>2, Signs DEF DashTypeOK
  <2>4. c \in Out(trips')
    BY <1>1, <2>1 DEF Out
  <2> QED
    BY <2>2, <2>3, <2>4, SignSaid, SignSaidNext
<1>6. ToldInv'
  <2>1. changes.all \in Nat
    BY DEF DashTypeOK
  <2>2. \A e \in trips' : e.did <= changes'.all /\ e.asOf <= changes'.all
    BY <1>1, <1>2, <2>1 DEF ToldInv, Coming
  <2> QED
    BY <1>1, <1>2, <2>2 DEF ToldInv, Coming
<1>7. GoneInv'
  BY <1>1, <1>2 DEF GoneInv, DeletedStaysAway, Listed, Begun, DashTypeOK, BoardType
<1>8. BusyInv'
  <2>1. \A e \in trips : e.mount \in Nat /\ e.mount <= dash.mount
    BY DEF DashTypeOK, TripType, Numbered
  <2>2. Live' = {}
    BY <1>1, <1>2, <1>3, <2>1 DEF Live
  <2> QED
    BY <1>3, <2>2 DEF BusyInv, BusyWhileOut
<1> QED
  BY <1>1, <1>4, <1>5, <1>6, <1>7, <1>8

\* Filters and dialogs change nothing that is out.
LEMMA LooksKeeps ==
  ASSUME DashInv, Looks
  PROVE  DashInv'
<1> USE DEF DashInv, Looks
<1>1. DashTypeOK'
  BY DEF DashTypeOK
<1>2. Numbered'
  <2>1. \A c \in trips : c.no \in Nat
    BY DEF DashTypeOK, TripType
  <2>2. spent.acts \in Nat /\ spent'.acts \in Nat /\ spent'.acts >= spent.acts
    BY DEF DashTypeOK
  <2>3. \A c \in trips : c.no < spent'.acts
    BY <2>1, <2>2 DEF Numbered
  <2> QED
    BY <2>3 DEF Numbered
<1>3. LoadingWhileWaiting' /\ ToldInv' /\ GoneInv'
  BY DEF LoadingWhileWaiting, Waiting, ToldInv, Coming, GoneInv, DeletedStaysAway, Listed
<1>4. BusyInv'
  BY DEF BusyInv, BusyWhileOut, Live
<1> QED
  BY <1>1, <1>2, <1>3, <1>4

\* A workflow that changes, or goes, brings none back.
LEMMA RowChanges ==
  ASSUME DashTypeOK, NEW w \in Cards, flowsNow[w] # NoCard,
         \/ flowsNow' = [flowsNow EXCEPT ![w] = NoCard]
         \/ \E s \in {"ACTIVE", "PAUSED", "DRAFT"} :
              flowsNow' = [flowsNow EXCEPT ![w].status = s]
         \/ \E l \in {"none", "FAILED", "other"} : flowsNow' = [flowsNow EXCEPT ![w].last = l]
  PROVE  /\ flowsNow' \in FlowLists
         /\ \A v \in Cards : flowsNow[v] = NoCard => flowsNow'[v] = NoCard
<1>1. flowsNow \in [Cards -> FlowRows \cup {NoCard}] /\ flowsNow[w] \in FlowRows
  BY DEF DashTypeOK, FlowLists
<1>2. PICK r \in FlowRows \cup {NoCard} : flowsNow' = [flowsNow EXCEPT ![w] = r]
  <2>1. ASSUME NEW s \in {"ACTIVE", "PAUSED", "DRAFT"},
               flowsNow' = [flowsNow EXCEPT ![w].status = s]
        PROVE  \E r \in FlowRows : flowsNow' = [flowsNow EXCEPT ![w] = r]
    <3>1. [flowsNow[w] EXCEPT !.status = s] \in FlowRows
      BY <1>1 DEF FlowRows
    <3> QED
      BY <2>1, <3>1
  <2>2. ASSUME NEW l \in {"none", "FAILED", "other"},
               flowsNow' = [flowsNow EXCEPT ![w].last = l]
        PROVE  \E r \in FlowRows : flowsNow' = [flowsNow EXCEPT ![w] = r]
    <3>1. [flowsNow[w] EXCEPT !.last = l] \in FlowRows
      BY <1>1 DEF FlowRows
    <3> QED
      BY <2>2, <3>1
  <2> QED
    BY <2>1, <2>2
<1> QED
  BY <1>1, <1>2 DEF FlowLists

LEMMA ChangeKeeps ==
  ASSUME DashInv, NEW w \in Cards, Change(w)
  PROVE  DashInv'
<1> USE DEF DashInv
<1>1. /\ UNCHANGED <<board, dash, trips, known, spent>>
      /\ changes' = [all |-> changes.all + 1, others |-> changes.others + 1]
      /\ changes.all \in Nat /\ changes.others \in Nat
  BY DEF Change, DashTypeOK
<1>2. /\ flowsNow' \in FlowLists
      /\ \A v \in Cards : flowsNow[v] = NoCard => flowsNow'[v] = NoCard
  BY RowChanges DEF Change
<1>3. DashTypeOK'
  BY <1>1, <1>2 DEF DashTypeOK
<1>4. Numbered' /\ LoadingWhileWaiting' /\ BusyInv'
  BY <1>1 DEF Numbered, LoadingWhileWaiting, Waiting, BusyInv, BusyWhileOut, Live
<1>5. ToldInv'
  <2>1. known.told \in Nat /\ \A c \in trips : c.did \in Nat /\ c.asOf \in Nat
    BY DEF DashTypeOK, KnownType, TripType
  <2>2. changes'.all = changes.all + 1
    BY <1>1
  <2>3. known'.told <= changes'.all
        /\ \A c \in trips' : c.did <= changes'.all /\ c.asOf <= changes'.all
    BY <1>1, <2>1, <2>2 DEF ToldInv
  <2> QED
    BY <1>1, <2>3 DEF ToldInv, Coming
<1>6. GoneInv'
  <2>1. known.removed \subseteq Cards /\ \A c \in trips : c.kind = "delete" => c.card \in Cards
    BY DEF DashTypeOK, KnownType, Numbered
  <2> QED
    BY <1>1, <1>2, <2>1 DEF GoneInv, DeletedStaysAway, Listed
<1> QED
  BY <1>3, <1>4, <1>5, <1>6

\* A trip that goes on without telling the store.
Quietly(c, d) ==
  /\ Goes(c, d) /\ UNCHANGED <<board, dash, known>> /\ spent' \in [acts : Nat, losses : Nat]
  /\ TripWaits(c) <=> TripWaits(d)

LEMMA QuietKeeps ==
  ASSUME DashInv, NEW c, NEW d, Quietly(c, d)
  PROVE  /\ trips' = (trips \ {c}) \cup {d} /\ trips' \subseteq TripType
         /\ Numbered' /\ BusyInv' /\ LoadingWhileWaiting'
         /\ flowsNow' \in FlowLists /\ changes' \in [all : Nat, others : Nat] => DashTypeOK'
<1> USE DEF DashInv, Quietly
<1>1. /\ d \notin trips \ {c} /\ trips' \subseteq TripType
      /\ trips' = (trips \ {c}) \cup {d} /\ c \in trips
      /\ Numbered' /\ BusyInv'
  BY GoingOn DEF Goes, Replaced
<1>2. LoadingWhileWaiting'
  <2>1. IsFiniteSet(trips) /\ IsFiniteSet(trips')
    BY <1>1 DEF Numbered
  <2>2. Cardinality(Out(trips')) = Cardinality(Out(trips))
    BY <1>1, <2>1, GoesOn
  <2>3. Out(trips') # {} <=> Out(trips) # {}
    BY <2>1, <2>2, OutFinite
  <2> QED
    BY <2>2, <2>3, SignSaid, SignSaidNext
<1> QED
  BY <1>1, <1>2 DEF DashTypeOK

\* An action that the api answers has changed its workflow by then.
LEMMA ServeKeeps ==
  ASSUME DashInv, NEW c, Serve(c)
  PROVE  DashInv'
<1> USE DEF DashInv
<1>1. /\ c \in trips /\ c \in TripType /\ c.at = "sent" /\ c.kind \in {"run", "status", "delete"}
      /\ c.card \in Cards /\ c.did \in Nat /\ (c.kind = "status" => c.target \in {"ACTIVE", "PAUSED"})
      /\ UNCHANGED <<board, dash, known, spent>>
      /\ changes \in [all : Nat, others : Nat] /\ changes.all \in Nat
  <2>1. c \in trips /\ c \in TripType /\ c.at = "sent"
    BY DEF Serve, DashTypeOK
  <2> QED
    BY <2>1 DEF Serve, DashTypeOK, TripType, Numbered
<1>2. PICK d : /\ Quietly(c, d) /\ d.at = "done"
               /\ \/ ~ d.ok /\ d.did = c.did /\ d.asOf = c.asOf /\ UNCHANGED <<flowsNow, changes>>
                  \/ /\ d.did = changes.all + 1 /\ d.asOf = c.asOf
                     /\ changes' = [changes EXCEPT !.all = @ + 1]
                     /\ flowsNow' \in FlowLists
                     /\ \A v \in Cards : flowsNow[v] = NoCard => flowsNow'[v] = NoCard
                     /\ d.kind = "delete" => flowsNow'[d.card] = NoCard
  <2>1. CASE flowsNow[c.card] = NoCard
    <3> DEFINE d == [c EXCEPT !.at = "done", !.ok = FALSE]
    <3>1. trips' = Replaced(c, d) /\ UNCHANGED <<flowsNow, changes>>
      BY <2>1 DEF Serve
    <3>2. /\ d \in TripType /\ d.at = "done" /\ ~ d.ok /\ d.did = c.did /\ d.asOf = c.asOf
          /\ d.no = c.no /\ d.kind = c.kind /\ d.card = c.card /\ d.mount = c.mount
          /\ d.target = c.target
      BY <1>1 DEF TripType
    <3> HIDE DEF d
    <3>3. Quietly(c, d)
      BY <1>1, <3>1, <3>2 DEF Quietly, Goes, TripWaits, DashTypeOK
    <3> QED
      BY <3>1, <3>2, <3>3
  <2>2. CASE flowsNow[c.card] # NoCard
    <3> DEFINE n == changes.all + 1
               d == [c EXCEPT !.at = "done", !.did = n]
    <3>1. /\ trips' = Replaced(c, d) /\ changes' = [changes EXCEPT !.all = @ + 1]
          /\ flowsNow' = CASE c.kind = "run" -> [flowsNow EXCEPT ![c.card].last = "other"]
                           [] c.kind = "status" -> [flowsNow EXCEPT ![c.card].status = c.target]
                           [] c.kind = "delete" -> [flowsNow EXCEPT ![c.card] = NoCard]
      BY <2>2 DEF Serve
    <3>2. n \in Nat /\ n = changes.all + 1
      BY <1>1
    <3> HIDE DEF n
    <3>3. /\ d \in TripType /\ d.at = "done" /\ d.did = n /\ d.asOf = c.asOf
          /\ d.no = c.no /\ d.kind = c.kind /\ d.card = c.card /\ d.mount = c.mount
          /\ d.target = c.target
      BY <1>1, <3>2 DEF TripType
    <3> HIDE DEF d
    <3>4. Quietly(c, d)
      BY <1>1, <3>1, <3>3 DEF Quietly, Goes, TripWaits, DashTypeOK
    <3>5. /\ flowsNow' \in FlowLists
          /\ \A v \in Cards : flowsNow[v] = NoCard => flowsNow'[v] = NoCard
      BY <1>1, <2>2, <3>1, RowChanges
    <3>6. c.kind = "delete" => flowsNow'[c.card] = NoCard
      BY <1>1, <3>1 DEF DashTypeOK, FlowLists
    <3>7. d.kind = "delete" => flowsNow'[d.card] = NoCard
      BY <3>3, <3>6
    <3>8. d.did = changes.all + 1 /\ changes' = [changes EXCEPT !.all = @ + 1]
      BY <3>1, <3>2, <3>3
    <3> QED
      BY <3>3, <3>4, <3>5, <3>7, <3>8
  <2> QED
    BY <2>1, <2>2
<1>3. /\ trips' = (trips \ {c}) \cup {d} /\ trips' \subseteq TripType
      /\ Numbered' /\ BusyInv' /\ LoadingWhileWaiting'
      /\ flowsNow' \in FlowLists /\ changes' \in [all : Nat, others : Nat] => DashTypeOK'
  BY <1>2, QuietKeeps
<1>4. changes' \in [all : Nat, others : Nat] /\ changes'.all \in Nat /\ changes'.all >= changes.all
      /\ d.did <= changes'.all /\ d.asOf <= changes'.all
  BY <1>1, <1>2 DEF ToldInv, DashTypeOK, TripType
<1>5. DashTypeOK'
  BY <1>2, <1>3, <1>4 DEF DashTypeOK
<1>6. ToldInv'
  <2>1. known.told \in Nat /\ \A e \in trips : e.did \in Nat /\ e.asOf \in Nat
    BY DEF DashTypeOK, KnownType, TripType
  <2>2. known'.told <= changes'.all
        /\ \A e \in trips' : e.did <= changes'.all /\ e.asOf <= changes'.all
    BY <1>1, <1>3, <1>4, <2>1 DEF ToldInv
  <2>3. ~ Coming(c)
    BY <1>1 DEF Coming
  <2> QED
    BY <1>1, <1>3, <2>2, <2>3 DEF ToldInv, Coming
<1>7. GoneInv'
  <2>1. known.removed \subseteq Cards /\ \A e \in trips : e.kind = "delete" => e.card \in Cards
    BY DEF DashTypeOK, KnownType, Numbered
  <2>2. \A v \in Cards : flowsNow[v] = NoCard => flowsNow'[v] = NoCard
    BY <1>2
  <2>3. d.kind = "delete" /\ d.ok =>
          /\ flowsNow'[d.card] = NoCard
          /\ \A e \in trips : e.asOf < d.did
    <3>1. \A e \in trips : e.asOf \in Nat /\ e.asOf <= changes.all
      BY DEF DashTypeOK, TripType, ToldInv
    <3> QED
      BY <1>1, <1>2, <3>1
  <2>4. \A e \in trips' : e.at = "read" => e \in trips
    BY <1>2, <1>3
  <2>5. \A e \in trips : e.asOf \in Nat
    BY DEF DashTypeOK, TripType
  <2>6. \A e \in trips' : e.kind = "delete" /\ e.at = "done" /\ e.ok =>
          /\ flowsNow'[e.card] = NoCard
          /\ \A f \in trips' : f.at = "read" /\ f.ok /\ f.asOf >= e.did => f.list[e.card] = NoCard
    <3>1. ASSUME NEW e \in trips, e.kind = "delete", e.at = "done", e.ok
          PROVE  /\ flowsNow'[e.card] = NoCard
                 /\ \A f \in trips' : f.at = "read" /\ f.ok /\ f.asOf >= e.did => f.list[e.card] = NoCard
      BY <2>1, <2>2, <2>4, <3>1 DEF GoneInv
    <3>2. d.did \in Nat
      BY <1>1, <1>2
    <3>3. ASSUME d.kind = "delete", d.ok, NEW f \in trips', f.at = "read", f.asOf >= d.did
          PROVE  FALSE
      BY <2>3, <2>4, <2>5, <3>2, <3>3
    <3> QED
      BY <1>3, <2>3, <3>1, <3>3
  <2> QED
    BY <1>1, <2>1, <2>2, <2>4, <2>6 DEF GoneInv, DeletedStaysAway, Listed
<1> QED
  BY <1>3, <1>5, <1>6, <1>7

\* What is lost on the way is known to have failed.
LEMMA LoseKeeps ==
  ASSUME DashInv, NEW c, Lose(c)
  PROVE  DashInv'
<1> USE DEF DashInv
<1> DEFINE then == IF c.at = "asked" THEN "read" ELSE "done"
           d == [c EXCEPT !.ok = FALSE, !.at = then]
<1>1. /\ c \in trips /\ c \in TripType /\ c.at \in {"sent", "done", "asked"}
      /\ trips' = Replaced(c, d) /\ UNCHANGED <<flowsNow, changes, board, dash, known>>
      /\ spent' \in [acts : Nat, losses : Nat] /\ spent'.acts = spent.acts
  BY DEF Lose, DashTypeOK
<1>2. then \in {"read", "done"} /\ (then = "read" <=> c.at = "asked")
  OBVIOUS
<1> HIDE DEF then
<1>3. /\ d \in TripType /\ d.at = then /\ ~ d.ok /\ d.did = c.did /\ d.asOf = c.asOf
      /\ d.no = c.no /\ d.kind = c.kind /\ d.card = c.card /\ d.mount = c.mount
      /\ d.target = c.target
  BY <1>1, <1>2 DEF TripType
<1> HIDE DEF d
<1>4. Quietly(c, d)
  <2>1. d.kind = "load" => d.at \in {"asked", "read"}
    BY <1>1, <1>2, <1>3 DEF Numbered
  <2>2. TripWaits(c) <=> TripWaits(d)
    BY <1>1, <1>2, <1>3 DEF TripWaits
  <2> QED
    BY <1>1, <1>3, <2>1, <2>2 DEF Quietly, Goes
<1>5. /\ trips' = (trips \ {c}) \cup {d} /\ trips' \subseteq TripType
      /\ Numbered' /\ BusyInv' /\ LoadingWhileWaiting'
      /\ flowsNow' \in FlowLists /\ changes' \in [all : Nat, others : Nat] => DashTypeOK'
  BY <1>4, QuietKeeps
<1>6. DashTypeOK'
  BY <1>1, <1>5 DEF DashTypeOK
<1>7. ToldInv'
  <2>1. Coming(c) => Coming(d)
    BY <1>1, <1>2, <1>3 DEF Coming
  <2> QED
    BY <1>1, <1>3, <1>5, <2>1 DEF ToldInv, Coming
<1>8. GoneInv'
  BY <1>1, <1>3, <1>5 DEF GoneInv, DeletedStaysAway, Listed
<1> QED
  BY <1>5, <1>6, <1>7, <1>8

\* A summary has the workflows of the moment, so none that was deleted.
LEMMA SummaryKeeps ==
  ASSUME DashInv, NEW c, getDashboardSummary(c)
  PROVE  DashInv'
<1> USE DEF DashInv
<1> DEFINE d == [c EXCEPT !.at = "read", !.list = flowsNow, !.asOf = changes.all]
<1>1. /\ c \in trips /\ c \in TripType /\ c.at = "asked" /\ trips' = Replaced(c, d)
      /\ UNCHANGED <<flowsNow, changes, board, dash, known, spent>>
      /\ flowsNow \in FlowLists /\ changes.all \in Nat
  BY DEF getDashboardSummary, DashTypeOK
<1>2. /\ d \in TripType /\ d.at = "read" /\ d.ok = c.ok /\ d.did = c.did
      /\ d.asOf = changes.all /\ d.list = flowsNow
      /\ d.no = c.no /\ d.kind = c.kind /\ d.card = c.card /\ d.mount = c.mount
      /\ d.target = c.target
  BY <1>1 DEF TripType
<1> HIDE DEF d
<1>3. Quietly(c, d)
  BY <1>1, <1>2 DEF Quietly, Goes, TripWaits, DashTypeOK
<1>4. /\ trips' = (trips \ {c}) \cup {d} /\ trips' \subseteq TripType
      /\ Numbered' /\ BusyInv' /\ LoadingWhileWaiting'
      /\ flowsNow' \in FlowLists /\ changes' \in [all : Nat, others : Nat] => DashTypeOK'
  BY <1>3, QuietKeeps
<1>5. DashTypeOK'
  BY <1>1, <1>4 DEF DashTypeOK
<1>6. ToldInv'
  <2>1. d \in trips' /\ d.at = "read" /\ d.asOf >= known'.told
    BY <1>1, <1>2, <1>4 DEF ToldInv
  <2>2. \A e \in trips' : e.did <= changes'.all /\ e.asOf <= changes'.all
    BY <1>1, <1>2, <1>4 DEF ToldInv
  <2> QED
    BY <1>1, <1>4, <2>1, <2>2 DEF ToldInv, Coming
<1>7. GoneInv'
  BY <1>1, <1>2, <1>4 DEF GoneInv, DeletedStaysAway, Listed
<1> QED
  BY <1>4, <1>5, <1>6, <1>7

\* An action that went well is told of, and its refresh is on its way.
LEMMA SucceededKeeps ==
  ASSUME DashInv, NEW c, Succeeded(c)
  PROVE  DashInv'
<1> USE DEF DashInv
<1> DEFINE d == [c EXCEPT !.at = "asked"]
           told == IF c.did > known.told THEN c.did ELSE known.told
<1>1. /\ c \in trips /\ c \in TripType /\ c.at = "done" /\ c.ok /\ trips' = Replaced(c, d)
      /\ UNCHANGED <<flowsNow, changes, spent>> /\ spent \in [acts : Nat, losses : Nat]
      /\ board \in BoardType /\ dash \in DashPageType /\ known \in KnownType
  BY DEF Succeeded, DashTypeOK
<1>2. /\ d \in TripType /\ d.at = "asked" /\ d.did = c.did /\ d.asOf = c.asOf
      /\ d.no = c.no /\ d.kind = c.kind /\ d.card = c.card /\ d.mount = c.mount
      /\ d.target = c.target
  BY <1>1 DEF TripType
<1> HIDE DEF d
<1>3. /\ told \in Nat /\ told >= known.told /\ told >= c.did /\ known.told \in Nat /\ c.did \in Nat
      /\ told <= changes.all
  BY <1>1 DEF KnownType, TripType, ToldInv
<1>4. /\ known' \in KnownType /\ known'.told = told /\ known'.late = known.late
      /\ known'.removed = IF c.kind = "delete" THEN known.removed \cup {c.card} ELSE known.removed
  <2>1. CASE c.kind = "delete"
    <3>1. known' = [known EXCEPT !.told = told, !.removed = @ \cup {c.card}]
      BY <2>1 DEF Succeeded
    <3>2. c.card \in Cards
      BY <1>1, <2>1 DEF Numbered
    <3> HIDE DEF told
    <3>3. known.removed \cup {c.card} \in SUBSET Cards
      BY <1>1, <3>2 DEF KnownType
    <3> QED
      BY <1>1, <1>3, <2>1, <3>1, <3>3 DEF KnownType
  <2>2. CASE c.kind # "delete"
    <3>1. known' = [known EXCEPT !.told = told]
      BY <2>2 DEF Succeeded
    <3> HIDE DEF told
    <3> QED
      BY <1>1, <1>3, <2>2, <3>1 DEF KnownType
  <2> QED
    BY <2>1, <2>2
<1> HIDE DEF told
<1>5. /\ dash' \in DashPageType /\ dash'.mount = dash.mount
      /\ dash'.busy = dash.busy /\ dash'.shared = dash.shared
  <2>1. PICK w \in Cards \cup {NoCard} : dash' = Refreshing([dash EXCEPT !.dialog = w], c)
    <3>1. CASE c.kind = "delete"
      BY <1>1, <3>1 DEF Succeeded, DashPageType
    <3>2. CASE c.kind # "delete"
      <4>1. dash = [dash EXCEPT !.dialog = dash.dialog] /\ dash.dialog \in Cards \cup {NoCard}
        BY <1>1 DEF DashPageType
      <4> QED
        BY <3>2, <4>1 DEF Succeeded
    <3> QED
      BY <3>1, <3>2
  <2> DEFINE b == [dash EXCEPT !.dialog = w]
  <2>2. b \in DashPageType /\ b.mount = dash.mount /\ b.busy = dash.busy /\ b.shared = dash.shared
    BY <1>1 DEF DashPageType
  <2> HIDE DEF b
  <2>3. dash' = b \/ dash' = [b EXCEPT !.error = FALSE]
    BY <2>1 DEF Refreshing, b
  <2> QED
    BY <2>2, <2>3 DEF DashPageType
<1>6. Goes(c, d)
  BY <1>1, <1>2, <1>5 DEF Goes
<1>7. /\ d \notin trips \ {c} /\ trips' \subseteq TripType
      /\ trips' = (trips \ {c}) \cup {d} /\ Numbered' /\ BusyInv'
  BY <1>1, <1>6, GoingOn DEF Replaced
<1>8. IsFiniteSet(trips) /\ TripWaits(d) /\ d \in Out(trips')
  BY <1>2, <1>7 DEF Numbered, TripWaits, Out
<1>9. CASE c.kind = "delete"
  <2> DEFINE b == Without(board, c.card)
  <2>1. board' = Begun(Finished(b)) /\ c.card \in Cards
    BY <1>1, <1>9 DEF Succeeded, Numbered
  <2>2. /\ b \in BoardType /\ b.pending = board.pending /\ b.asOf = board.asOf
        /\ \A v \in Cards : b.workflows[v] = IF v = c.card THEN NoCard ELSE board.workflows[v]
    <3>1. [board.workflows EXCEPT ![c.card] = NoCard] \in FlowLists
      BY <1>1, <2>1 DEF BoardType, FlowLists
    <3>2. \A v \in Cards : [board.workflows EXCEPT ![c.card] = NoCard][v]
                            = IF v = c.card THEN NoCard ELSE board.workflows[v]
      BY <1>1, <2>1 DEF BoardType, FlowLists
    <3>3. Without(board, c.card)
          = [board EXCEPT !.workflows = [board.workflows EXCEPT ![c.card] = NoCard]]
      BY DEF Without
    <3> QED
      BY <1>1, <3>1, <3>2, <3>3 DEF BoardType
  <2> HIDE DEF b
  <2>3. TripWaits(c)
    BY <1>9 DEF TripWaits
  <2>4. Cardinality(Out(trips)) > 0 /\ Cardinality(Out(trips')) = Cardinality(Out(trips))
    <3>1. Cardinality(Out(trips)) > 0
      BY <1>1, <1>8, <2>3, ComesBack
    <3>2. Cardinality(Out(trips')) = Cardinality(Out(trips))
      BY <1>1, <1>7, <1>8, <2>3, GoesOn
    <3> QED
      BY <3>1, <3>2
  <2>5. b.pending > 0 /\ b.pending \in Nat
    BY <1>1, <2>2, <2>4, SignSaid DEF BoardType
  <2>6. Finished(b) \in BoardType /\ Finished(b).pending = b.pending - 1
        /\ Finished(b).workflows = b.workflows /\ Finished(b).asOf = b.asOf
    BY <2>2, <2>5, Signs
  <2>7. /\ board' \in BoardType /\ board'.pending = board.pending /\ board'.loading
        /\ board'.workflows = b.workflows /\ board'.asOf = board.asOf
    BY <2>1, <2>2, <2>5, <2>6, Signs
  <2>8. DashTypeOK'
    BY <1>1, <1>4, <1>5, <1>7, <2>7 DEF DashTypeOK
  <2>9. LoadingWhileWaiting'
    BY <1>8, <2>4, <2>7, SignSaid, SignSaidNext
  <2>10. ToldInv'
    BY <1>1, <1>2, <1>3, <1>4, <1>7 DEF ToldInv, Coming
  <2>11. GoneInv'
    <3>1. Listed' \cap known'.removed \subseteq Listed \cap known.removed
      BY <1>4, <1>9, <2>2, <2>7 DEF Listed
    <3>2. \A e \in trips' : e.at = "read" \/ e.at = "done" => e \in trips
      BY <1>2, <1>7
    <3>3. \A e \in trips : e.asOf \in Nat /\ e.did \in Nat
      BY DEF DashTypeOK, TripType
    <3>4. \A e \in trips : e.at = "read" /\ e.ok /\ e.asOf >= told =>
            /\ e.list[c.card] = NoCard
            /\ \A w \in known.removed : e.list[w] = NoCard
      BY <1>1, <1>3, <1>9, <3>3 DEF GoneInv
    <3>5. flowsNow[c.card] = NoCard
      BY <1>1, <1>9 DEF GoneInv
    <3>6. DeletedStaysAway'
      BY <1>4, <3>1 DEF GoneInv, DeletedStaysAway
    <3> QED
      BY <1>1, <1>4, <1>9, <3>2, <3>4, <3>5, <3>6 DEF GoneInv
  <2> QED
    BY <1>7, <2>8, <2>9, <2>10, <2>11
<1>10. CASE c.kind # "delete"
  <2>1. board' = Begun(board)
    BY <1>10 DEF Succeeded
  <2>2. /\ board' \in BoardType /\ board'.pending = board.pending + 1 /\ board'.loading
        /\ board'.workflows = board.workflows /\ board'.asOf = board.asOf
    BY <1>1, <2>1, Signs
  <2>3. ~ TripWaits(c)
    BY <1>1, <1>10 DEF TripWaits
  <2>4. Cardinality(Out(trips')) = Cardinality(Out(trips)) + 1
    BY <1>1, <1>7, <1>8, <2>3, GoesOn
  <2>5. DashTypeOK'
    BY <1>1, <1>4, <1>5, <1>7, <2>2 DEF DashTypeOK
  <2>6. LoadingWhileWaiting'
    BY <1>8, <2>2, <2>4, SignSaid, SignSaidNext
  <2>7. ToldInv'
    BY <1>1, <1>2, <1>3, <1>4, <1>7 DEF ToldInv, Coming
  <2>8. GoneInv'
    <3>1. Listed' = Listed /\ known'.removed = known.removed
      BY <1>4, <1>10, <2>2 DEF Listed
    <3>2. \A e \in trips' : e.at = "read" \/ e.at = "done" => e \in trips
      BY <1>2, <1>7
    <3>3. \A e \in trips : e.asOf \in Nat
      BY DEF DashTypeOK, TripType
    <3>4. \A e \in trips : e.at = "read" /\ e.ok /\ e.asOf >= told =>
            \A w \in known.removed : e.list[w] = NoCard
      BY <1>3, <3>3 DEF GoneInv
    <3> QED
      BY <1>1, <1>4, <3>1, <3>2, <3>4 DEF GoneInv, DeletedStaysAway
  <2> QED
    BY <1>7, <2>5, <2>6, <2>7, <2>8
<1> QED
  BY <1>9, <1>10

\* What is not waited for any more is not counted any more.
LEMMA SignEnds ==
  ASSUME DashInv, NEW c \in trips, trips' = trips \ {c},
         NEW b \in BoardType, b.pending = board.pending, b.loading = board.loading,
         board'.pending = (IF TripWaits(c) THEN Finished(b).pending ELSE b.pending),
         board'.loading = (IF TripWaits(c) THEN Finished(b).loading ELSE b.loading)
  PROVE  LoadingWhileWaiting'
<1> USE DEF DashInv
<1>1. IsFiniteSet(trips) /\ IsFiniteSet(trips') /\ board.pending \in Nat
  BY ComesBack DEF Numbered, DashTypeOK, BoardType
<1>2. CASE TripWaits(c)
  <2>1. Cardinality(Out(trips)) > 0
    BY <1>1, <1>2, ComesBack
  <2>2. Cardinality(Out(trips')) = Cardinality(Out(trips)) - 1
    BY <1>1, <1>2, ComesBack
  <2>3. Finished(b).pending = board.pending - 1
        /\ (Finished(b).loading <=> Finished(b).pending > 0)
    BY <2>1, SignSaid, Signs
  <2>4. board'.pending = Cardinality(Out(trips'))
    BY <1>2, <2>2, <2>3, SignSaid
  <2>5. board'.loading <=> Out(trips') # {}
    BY <1>1, <1>2, <2>3, <2>4, OutFinite
  <2> QED
    BY <2>4, <2>5, SignSaidNext
<1>3. CASE ~ TripWaits(c)
  BY <1>1, <1>3, ComesBack, SignSaid, SignSaidNext
<1> QED
  BY <1>2, <1>3

\* An action that failed leaves the list as it was.
LEMMA RefusedKeeps ==
  ASSUME DashInv, NEW c, Refused(c)
  PROVE  DashInv'
<1> USE DEF DashInv
<1>1. /\ c \in trips /\ c.at = "done" /\ ~ c.ok /\ trips' = trips \ {c}
      /\ board' = (IF c.kind = "delete" THEN Finished(board) ELSE board)
      /\ dash' = Rested(dash, c) /\ UNCHANGED <<flowsNow, changes, known, spent>>
      /\ board \in BoardType
  BY DEF Refused, DashTypeOK
<1>2. TripEnds(c, dash)
  BY <1>1 DEF TripEnds, DashTypeOK
<1>3. /\ trips' \subseteq TripType /\ dash' \in DashPageType /\ dash'.error = dash.error
      /\ Numbered' /\ BusyInv'
  BY <1>2, Ending
<1>4. /\ board' \in BoardType /\ board'.workflows = board.workflows /\ board'.asOf = board.asOf
  BY <1>1, Signs
<1>5. DashTypeOK'
  BY <1>1, <1>3, <1>4 DEF DashTypeOK
<1>6. LoadingWhileWaiting'
  <2>1. TripWaits(c) <=> c.kind = "delete"
    BY <1>1 DEF TripWaits
  <2> QED
    BY <1>1, <2>1, SignEnds
<1>7. ToldInv'
  <2>1. ~ Coming(c)
    BY <1>1 DEF Coming
  <2> QED
    BY <1>1, <1>3, <1>4, <2>1 DEF ToldInv, Coming
<1>8. GoneInv'
  BY <1>1, <1>4 DEF GoneInv, DeletedStaysAway, Listed
<1> QED
  BY <1>3, <1>5, <1>6, <1>7, <1>8

\* A summary is as new as what was told of, or it is known to be late.
LEMMA DeliveredKeeps ==
  ASSUME DashInv, NEW c, Delivered(c)
  PROVE  DashInv'
<1> USE DEF DashInv
<1>1. /\ c \in trips /\ c \in TripType /\ c.at = "read" /\ c.ok /\ trips' = trips \ {c}
      /\ board' = [Finished(board) EXCEPT !.workflows = c.list, !.asOf = c.asOf, !.hasData = TRUE]
      /\ dash' = Rested(dash, c) /\ UNCHANGED <<flowsNow, changes, spent>>
      /\ known' = [known EXCEPT !.late = c.asOf < known.told]
      /\ board \in BoardType /\ known \in KnownType
  BY DEF Delivered, DashTypeOK
<1>2. TripEnds(c, dash)
  BY <1>1 DEF TripEnds, DashTypeOK
<1>3. /\ trips' \subseteq TripType /\ dash' \in DashPageType /\ dash'.error = dash.error
      /\ Numbered' /\ BusyInv'
  BY <1>2, Ending
<1>4. /\ board' \in BoardType /\ board'.workflows = c.list /\ board'.asOf = c.asOf
      /\ board'.pending = Finished(board).pending /\ board'.loading = Finished(board).loading
  <2>1. Finished(board) \in BoardType /\ c.list \in FlowLists /\ c.asOf \in Nat
    BY <1>1, Signs DEF TripType
  <2> QED
    BY <1>1, <2>1 DEF BoardType
<1>5. /\ known' \in KnownType /\ known'.told = known.told /\ known'.removed = known.removed
      /\ known'.late = (c.asOf < known.told)
  <2>1. (c.asOf < known.told) \in BOOLEAN
    OBVIOUS
  <2> QED
    BY <1>1, <2>1 DEF KnownType
<1>6. DashTypeOK'
  BY <1>1, <1>3, <1>4, <1>5 DEF DashTypeOK
<1>7. LoadingWhileWaiting'
  <2>1. TripWaits(c)
    BY <1>1 DEF TripWaits
  <2> QED
    BY <1>1, <1>4, <2>1, SignEnds
<1>8. known.told \in Nat /\ c.asOf \in Nat
  BY <1>1 DEF KnownType, TripType
<1>9. ToldInv'
  <2>1. board'.asOf >= known'.told \/ known'.late
    <3>1. CASE c.asOf < known.told
      BY <1>5, <3>1, Zenon
    <3>2. CASE ~ (c.asOf < known.told)
      BY <1>4, <1>5, <1>8, <3>2
    <3> QED
      BY <3>1, <3>2
  <2>2. known'.told <= changes'.all
    BY <1>1, <1>5 DEF ToldInv
  <2>3. \A e \in trips' : e.did <= changes'.all /\ e.asOf <= changes'.all
    BY <1>1 DEF ToldInv
  <2> QED
    BY <2>1, <2>2, <2>3 DEF ToldInv
<1>10. GoneInv'
  <2>1. ASSUME ~ (c.asOf < known.told) PROVE Listed' \cap known.removed = {}
    <3>1. \A w \in known.removed : c.list[w] = NoCard
      BY <1>1, <1>8, <2>1 DEF GoneInv
    <3> QED
      BY <1>4, <3>1 DEF Listed
  <2>2. DeletedStaysAway'
    BY <1>5, <2>1 DEF DeletedStaysAway
  <2> QED
    BY <1>1, <1>5, <2>2 DEF GoneInv
<1> QED
  BY <1>3, <1>6, <1>7, <1>9, <1>10

\* A summary that fails is told of by its page, or known to be missing.
LEMMA SummaryFailureKeeps ==
  ASSUME DashInv, NEW c, SummaryFails(c)
  PROVE  DashInv'
<1> USE DEF DashInv
<1> DEFINE d == IF c.mount = dash.mount THEN [dash EXCEPT !.error = TRUE] ELSE dash
<1>1. /\ c \in trips /\ c.at = "read" /\ trips' = trips \ {c}
      /\ board' = Finished(board) /\ dash' = Rested(d, c)
      /\ known' = (IF c.mount = dash.mount THEN known ELSE [known EXCEPT !.unheard = known.told])
      /\ UNCHANGED <<flowsNow, changes, spent>>
      /\ board \in BoardType /\ dash \in DashPageType /\ known \in KnownType
  BY DEF SummaryFails, DashTypeOK
<1>2. /\ d \in DashPageType /\ d.mount = dash.mount /\ d.busy = dash.busy /\ d.shared = dash.shared
      /\ c.mount = dash.mount => d.error = TRUE
  BY <1>1 DEF DashPageType
<1> HIDE DEF d
<1>3. TripEnds(c, d)
  BY <1>1, <1>2 DEF TripEnds
<1>4. /\ trips' \subseteq TripType /\ dash' \in DashPageType /\ dash'.error = d.error
      /\ Numbered' /\ BusyInv'
  BY <1>3, Ending
<1>5. /\ board' \in BoardType /\ board'.workflows = board.workflows /\ board'.asOf = board.asOf
  BY <1>1, Signs
<1>6. /\ known' \in KnownType /\ known'.told = known.told /\ known'.removed = known.removed
      /\ known'.late = known.late /\ (c.mount # dash.mount => known'.unheard = known'.told)
  BY <1>1 DEF KnownType
<1>7. DashTypeOK'
  BY <1>1, <1>4, <1>5, <1>6 DEF DashTypeOK
<1>8. LoadingWhileWaiting'
  <2>1. TripWaits(c)
    BY <1>1 DEF TripWaits
  <2> QED
    BY <1>1, <2>1, SignEnds
<1>9. ToldInv'
  BY <1>1, <1>2, <1>4, <1>6 DEF ToldInv
<1>10. GoneInv'
  BY <1>1, <1>5, <1>6 DEF GoneInv, DeletedStaysAway, Listed
<1> QED
  BY <1>4, <1>7, <1>8, <1>9, <1>10
-----------------------------------------------------------------------------
(* What the invariant says of the page.                                    *)

\* The cards of the strip and the list below count the same workflows.
LEMMA CardsCount ==
  ASSUME DashTypeOK
  PROVE  CardsCountTheirLists
<1>1. \A w \in Listed : w \in Cards /\ board.workflows[w] \in FlowRows
  BY DEF Listed, DashTypeOK, BoardType, FlowLists
<1> DEFINE OfReason(k) ==
      {w \in Listed :
        LET f == board.workflows[w] IN
        CASE k = "failed" -> f.last = "FAILED"
          [] k = "paused" -> f.status = "PAUSED"
          [] k = "draft" -> f.status = "DRAFT"
          [] k = "activeWithoutRuns" -> f.status = "ACTIVE" /\ f.last = "none"}
<1>2. \A k : CountOf(k) = Cardinality(OfReason(k))
  BY DEF CountOf
<1>3. ASSUME NEW k \in Reasons, <<dash.status, dash.attention>> = CardFilters(k), ~ dash.search
      PROVE  isAttentionCardActive(k) /\ filteredWorkflows = OfReason(k)
  <2>1. CASE k = "failed"
    <3>1. dash.status = "ALL" /\ dash.attention = "failed"
      BY <1>3, <2>1 DEF CardFilters
    <3>2. \A w \in Listed : getAttentionReasonKey(board.workflows[w]) = "failed"
                            <=> board.workflows[w].last = "FAILED"
      BY <1>1 DEF getAttentionReasonKey, FlowRows
    <3> QED
      BY <1>3, <2>1, <3>1, <3>2 DEF filteredWorkflows, isAttentionCardActive
  <2>2. CASE k = "paused"
    <3>1. dash.status = "PAUSED" /\ dash.attention = "ALL"
      BY <1>3, <2>2 DEF CardFilters
    <3> QED
      BY <1>3, <2>2, <3>1 DEF filteredWorkflows, isAttentionCardActive
  <2>3. CASE k = "draft"
    <3>1. dash.status = "DRAFT" /\ dash.attention = "ALL"
      BY <1>3, <2>3 DEF CardFilters
    <3> QED
      BY <1>3, <2>3, <3>1 DEF filteredWorkflows, isAttentionCardActive
  <2>4. CASE k = "activeWithoutRuns"
    <3>1. dash.status = "ACTIVE" /\ dash.attention = "activeWithoutRuns"
      BY <1>3, <2>4 DEF CardFilters
    <3>2. \A w \in Listed : board.workflows[w].status = "ACTIVE" =>
            (getAttentionReasonKey(board.workflows[w]) = "activeWithoutRuns"
             <=> board.workflows[w].last = "none")
      BY <1>1 DEF getAttentionReasonKey, FlowRows
    <3> QED
      BY <1>3, <2>4, <3>1, <3>2 DEF filteredWorkflows, isAttentionCardActive
  <2> QED
    BY <2>1, <2>2, <2>3, <2>4 DEF Reasons
<1>4. ASSUME NEW w \in Listed, getAttentionReasonKey(board.workflows[w]) # "ALL"
      PROVE  w \in OfReason(getAttentionReasonKey(board.workflows[w]))
  BY <1>1, <1>4 DEF getAttentionReasonKey, FlowRows
<1>5. \A k : OfReason(k) \subseteq Cards
  BY <1>1
<1> HIDE DEF OfReason
<1>6. ASSUME NEW w \in Listed, getAttentionReasonKey(board.workflows[w]) # "ALL"
      PROVE  CountOf(getAttentionReasonKey(board.workflows[w])) > 0
  <2> DEFINE k == getAttentionReasonKey(board.workflows[w])
  <2>1. w \in OfReason(k)
    BY <1>4, <1>6
  <2> HIDE DEF k
  <2>2. IsFiniteSet(OfReason(k))
    BY <1>5, DashConstants, FS_Subset
  <2>3. Cardinality(OfReason(k)) > 0
    BY <2>1, <2>2, FS_CardinalityType, FS_EmptySet
  <2>4. CountOf(k) > 0
    BY <1>2, <2>3
  <2> QED
    BY <2>4 DEF k
<1> QED
  BY <1>2, <1>3, <1>6 DEF CardsCountTheirLists

LEMMA DashInvSaysIt ==
  DashInv => DashboardShowsWhatIs
<1> SUFFICES ASSUME DashInv PROVE DashboardShowsWhatIs
  OBVIOUS
<1>1. CardsCountTheirLists
  BY CardsCount DEF DashInv
<1>2. OwnActionsAreShown
  BY DEF DashInv, ToldInv, OwnActionsAreShown
<1> QED
  BY <1>1, <1>2 DEF DashInv, GoneInv, BusyInv, DashboardShowsWhatIs

LEMMA DashInitInv ==
  DashInit => DashInv
<1> SUFFICES ASSUME DashInit PROVE DashInv
  OBVIOUS
<1>1. /\ trips = {} /\ flowsNow \in [Cards -> FlowRows]
      /\ changes = [all |-> 0, others |-> 0] /\ spent = [acts |-> 0, losses |-> 0]
      /\ known = [told |-> 0, removed |-> {}, late |-> FALSE, unheard |-> 0]
      /\ board = [workflows |-> Unread, loading |-> FALSE, pending |-> 0, asOf |-> 0, hasData |-> FALSE]
      /\ dash = [NewPageState(0) EXCEPT !.open = FALSE]
  BY DEF DashInit
<1>2. Unread \in FlowLists /\ flowsNow \in FlowLists
  BY <1>1 DEF Unread, FlowLists
<1>3. dash \in DashPageType /\ dash.busy = <<>>
  BY <1>1 DEF NewPageState, DashPageType, StatusFilters
<1>4. DashTypeOK
  BY <1>1, <1>2, <1>3 DEF DashTypeOK, BoardType, KnownType
<1>5. Numbered
  BY <1>1, FS_EmptySet DEF Numbered
<1>6. LoadingWhileWaiting
  <2>1. Out(trips) = {} /\ Cardinality(Out(trips)) = 0
    BY <1>1, FS_EmptySet DEF Out
  <2> QED
    BY <1>1, <2>1, SignSaid
<1>7. ToldInv /\ GoneInv /\ BusyInv
  BY <1>1, <1>3 DEF ToldInv, GoneInv, DeletedStaysAway, BusyInv, BusyWhileOut, Live
<1> QED
  BY <1>4, <1>5, <1>6, <1>7 DEF DashInv

LEMMA DashStepInv ==
  DashInv /\ [DashNext]_dashVars => DashInv'
<1> SUFFICES ASSUME DashInv, [DashNext]_dashVars PROVE DashInv'
  OBVIOUS
<1>1. DashTypeOK
  BY DEF DashInv
<1>2. CASE confirmDelete \/ \E w \in Cards : handleRunRow(w) \/ handleToggleRow(w)
  BY <1>1, <1>2, ActionSets, SetsKeeps
<1>3. CASE OpenDashboard
  BY <1>1, <1>3, PageOpens, OpensKeeps
<1>4. CASE \/ LeaveDashboard \/ cancelDelete \/ setSearchQuery \/ resetWorkflowFilters
           \/ \E w \in Cards : handleDelete(w)
           \/ \E s \in StatusFilters : setStatusFilter(s)
           \/ \E a \in Reasons \cup {"ALL"} : setAttentionFilter(a)
           \/ \E k \in Reasons : handleAttentionCardClick(k)
  BY <1>1, <1>4, ClickLooks, LooksKeeps
<1>5. CASE \E w \in Cards : Change(w)
  BY <1>5, ChangeKeeps
<1>6. CASE \E c \in trips : \/ Serve(c) \/ Lose(c) \/ getDashboardSummary(c)
                            \/ Succeeded(c) \/ Refused(c) \/ Delivered(c) \/ SummaryFails(c)
  BY <1>6, ServeKeeps, LoseKeeps, SummaryKeeps, SucceededKeeps, RefusedKeeps, DeliveredKeeps,
     SummaryFailureKeeps
<1>7. CASE UNCHANGED dashVars
  <2>1. DashTypeOK' /\ Numbered'
    BY <1>7 DEF dashVars, DashInv, DashTypeOK, Numbered
  <2>2. LoadingWhileWaiting' /\ ToldInv'
    BY <1>7 DEF dashVars, DashInv, LoadingWhileWaiting, Waiting, ToldInv, Coming
  <2>3. GoneInv' /\ BusyInv'
    BY <1>7 DEF dashVars, DashInv, GoneInv, DeletedStaysAway, Listed, BusyInv, BusyWhileOut, Live
  <2> QED
    BY <2>1, <2>2, <2>3 DEF DashInv
<1> QED
  BY <1>2, <1>3, <1>4, <1>5, <1>6, <1>7 DEF DashNext, DashUser

-----------------------------------------------------------------------------
(* The theorems of the dashboard.                                          *)

\* Every trip is numbered, counted by the sign of loading, and followed to its
\* end, in every run of the dashboard.
THEOREM DashInvariance == DashSpec => []DashInv
<1>1. DashInit => DashInv
  BY DashInitInv
<1>2. DashInv /\ [DashNext]_dashVars => DashInv'
  BY DashStepInv
<1> QED
  BY <1>1, <1>2, PTL DEF DashSpec

\* However many actions, refreshes and openings overlap, whatever others change
\* and whatever is lost: the dashboard's sign of loading, its list, its busy rows
\* and its cards tell of the workflows what the api told, but for the older
\* summaries and the shared slot that the property names.
THEOREM DashboardIsTrue == DashSpec => []DashboardShowsWhatIs
<1>1. DashSpec => []DashInv
  BY DashInvariance
<1>2. DashInv => DashboardShowsWhatIs
  BY DashInvSaysIt
<1> QED
  BY <1>1, <1>2, PTL

-----------------------------------------------------------------------------
(* The web application, of which these are three pages.                    *)

\* A step of the application is one of a page, or leaves the page as it is.
LEMMA PageSteps ==
  /\ WebInit => ListInit /\ CatInit /\ DashInit
  /\ [WebNext]_webVars => [ListNext]_listVars /\ [CatNext]_catVars /\ [DashNext]_dashVars
<1>1. WebInit => ListInit /\ CatInit /\ DashInit
  BY DEF WebInit
<1>2. [WebNext]_webVars => [ListNext]_listVars
  BY DEF WebNext, webVars
<1>3. [WebNext]_webVars => [CatNext]_catVars
  BY DEF WebNext, webVars
<1>4. [WebNext]_webVars => [DashNext]_dashVars
  BY DEF WebNext, webVars
<1> QED BY <1>1, <1>2, <1>3, <1>4

LEMMA PagesRun == WebSpec => ListSpec /\ CatSpec /\ DashSpec
BY PageSteps, PTL DEF WebSpec, ListSpec, CatSpec, DashSpec

\* The histories and the catalogs that are shown, on the page with the history,
\* on that with the connections and in the picker, are of what was chosen there
\* last: requestIdRef and its like let no older answer through.
THEOREM ListsAreTrue == WebSpec => []ListsShowTheChosen
BY PagesRun, HistoryIsTrue, CatalogIsTrue, PTL DEF ListsShowTheChosen

\* What says that it loads, or is locked meanwhile, waits for an answer that is
\* still to come, but for the races listed with the two properties.
THEOREM SignsEnd == WebSpec => LoadingSignsEnd
BY PagesRun, HistorySignsEnd, LocksEnd, PTL DEF LoadingSignsEnd

\* The dashboard as the run checks it, a page of the application.
THEOREM WebDashboardIsTrue == WebSpec => []DashboardShowsWhatIs
BY PagesRun, DashboardIsTrue, PTL
=============================================================================
