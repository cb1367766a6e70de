-------------------------- MODULE ConnectionPages --------------------------
(***************************************************************************)
(* The page with the user's connections, and the picker with which the     *)
(* editor's inspector lets one be chosen.  Both page through the catalog   *)
(* of the api.  A request for the catalog is superseded by the next one,   *)
(* whose answer alone is taken; the flags that say "loading" are cleared   *)
(* by the answer of the request that set them, if it is taken.             *)
(***************************************************************************)
EXTENDS Naturals, Sequences, FiniteSets, SequencesExt

CONSTANTS
  Conns,      \* connections of the user, those to be created included
  Hits,       \* those whose first name matches the search
  Used,       \* those a workflow's node uses
  NoConn,       \* no connection, no catalog, no answer
  Limit,      \* PAGE_LIMIT
  MaxMoves    \* bound: clicks, failures, and changes by other clients

ASSUME ConnectionsAssumption ==
  /\ IsFiniteSet(Conns) /\ NoConn \notin Conns
  /\ Hits \subseteq Conns /\ Used \subseteq Conns
  /\ Limit \in Nat \ {0} /\ MaxMoves \in Nat

VARIABLES
  conns,   \* the connections, the one updated last first
  stamp,   \* how often they have changed
  screen,  \* "page" or "picker"
  pg,      \* the state of the page
  picker,  \* the state of the picker
  reqs,    \* requests in flight which somebody still waits for
  moves    \* moves so far

catVars == <<conns, stamp, screen, pg, picker, reqs, moves>>

Move == moves < MaxMoves /\ moves' = moves + 1

-----------------------------------------------------------------------------
(* The api.                                                                *)

\* What is left of s at the positions in K, in the order it had there.
Kept(s, K) ==
  [n \in 1..Cardinality(K) |->
     s[CHOOSE k \in K : Cardinality({j \in K : j <= k}) = n]]

Ids == {conns[k].id : k \in DOMAIN conns}

buildCatalogWhere(search) == Kept(conns, {k \in DOMAIN conns : search => conns[k].hit})

buildCatalogOrderBy(oldest, s) == IF oldest THEN Reverse(s) ELSE s

\* Mutation: pages are counted from 0.
SkipAndTakeFromZero(s, n) ==
  SubSeq(s, n * Limit + 1, IF (n + 1) * Limit < Len(s) THEN (n + 1) * Limit ELSE Len(s))

SkipAndTake(s, n) ==
  SubSeq(s, (n - 1) * Limit + 1, IF n * Limit < Len(s) THEN n * Limit ELSE Len(s))

findCatalog(key) ==
  LET all == buildCatalogOrderBy(key.oldest, buildCatalogWhere(key.search)) IN
    [key |-> key, total |-> Len(all), seen |-> stamp,
     items |-> SkipAndTake([k \in DOMAIN all |-> all[k].id], key.page)]

Others(id) == Kept(conns, {k \in DOMAIN conns : conns[k].id # id})

Saved(id, hit) ==
  /\ conns' = <<[id |-> id, hit |-> hit]>> \o Others(id)
  /\ stamp' = stamp + 1

apiCreates(hit) == \E id \in Conns \ Ids : Saved(id, hit)

apiUpdates(id, hit) == id \in Ids /\ Saved(id, hit)

apiRemoves(id) ==
  /\ id \in Ids \ Used
  /\ conns' = Others(id)
  /\ stamp' = stamp + 1

\* Another tab, or the editor.
otherTab ==
  /\ Move
  /\ \/ \E hit \in BOOLEAN : apiCreates(hit)
     \/ \E id \in Ids : apiRemoves(id)
     \/ \E id \in Ids, hit \in BOOLEAN : apiUpdates(id, hit)
  /\ UNCHANGED <<screen, pg, picker, reqs>>

apiAnswers(c) ==
  /\ c.answer = NoConn
  /\ CASE c.kind \in {"list", "pick"} ->
            /\ UNCHANGED <<conns, stamp>>
            /\ reqs' = (reqs \ {c}) \cup {[c EXCEPT !.answer = findCatalog(c.key)]}
       [] c.kind = "edit" ->
            /\ c.id \in Ids
            /\ UNCHANGED <<conns, stamp>>
            /\ reqs' = (reqs \ {c}) \cup {[c EXCEPT !.answer = "ok"]}
       [] OTHER ->
            /\ CASE c.kind = "delete" -> apiRemoves(c.id)
                 [] c.id = NoConn -> apiCreates(c.hit)
                 [] OTHER -> apiUpdates(c.id, c.hit)
            /\ reqs' = (reqs \ {c}) \cup {[c EXCEPT !.answer = "ok"]}
  /\ UNCHANGED <<screen, pg, picker, moves>>

-----------------------------------------------------------------------------
(* The page: what it asks for.                                             *)

CatalogControls(v) == [page |-> v.page, search |-> v.search, oldest |-> v.oldest]

CatalogCall(key, background, owner) ==
  [kind |-> "list", key |-> key, background |-> background, owner |-> owner,
   current |-> TRUE, answer |-> NoConn]

\* Mutation: an overtaken answer is taken too.
OvertakeNone(cs) == cs

\* requestIdRef: what the page has asked for before is not taken any more, but
\* handleSubmit and handleDeleteConfirm still wait for their own reload.
Overtake(cs) ==
  {c \in cs : c.kind # "list"} \cup
  {[c EXCEPT !.current = FALSE] : c \in {d \in cs : d.kind = "list" /\ d.owner # "none"}}

loadCatalog(v, cs, key, background, owner) ==
  /\ pg' = IF background THEN [v EXCEPT !.refreshing = TRUE, !.error = FALSE]
           ELSE [v EXCEPT !.loading = TRUE, !.error = FALSE, !.catalog = NoConn,
                            !.by = "none"]
  /\ reqs' = Overtake(cs) \cup {CatalogCall(key, background, owner)}

\* The effect of other controls.
Settle(v, cs) ==
  IF CatalogControls(v) = CatalogControls(pg) THEN pg' = v /\ reqs' = cs
  ELSE loadCatalog(v, cs, CatalogControls(v), FALSE, "none")

Waits == {c \in reqs : c.kind = "list" /\ c.current}

controlsDisabled ==
  pg.refreshing \/ pg.submitting \/ pg.deleting \/ pg.editing # NoConn

totalPages(total) == IF total = 0 THEN 1 ELSE (total + Limit - 1) \div Limit

\* A dialog is modal: the page behind it takes no clicks.
PageClick ==
  /\ screen = "page" /\ pg.dialog = "none" /\ pg.target = NoConn
  /\ Move
  /\ UNCHANGED <<conns, stamp, screen, picker>>

RowsShown == ~ pg.loading /\ pg.catalog # NoConn

search ==
  PageClick /\ Settle([pg EXCEPT !.search = ~ @, !.page = 1], reqs)

setSort ==
  PageClick /\ ~ controlsDisabled /\ Settle([pg EXCEPT !.oldest = ~ @, !.page = 1], reqs)

\* The button above the list, and the one in place of an empty list.
resetFilters ==
  /\ PageClick /\ pg.search
  /\ controlsDisabled => (RowsShown /\ ~ pg.error /\ pg.catalog.total = 0)
  /\ Settle([pg EXCEPT !.search = FALSE, !.page = 1], reqs)

turnPage(n) ==
  /\ PageClick /\ ~ controlsDisabled /\ RowsShown
  /\ pg.catalog.total > 0
  /\ n \in 1..totalPages(pg.catalog.total)
  /\ Settle([pg EXCEPT !.page = n], reqs)

refresh ==
  /\ PageClick /\ ~ pg.loading /\ ~ pg.refreshing
  /\ loadCatalog(pg, reqs, CatalogControls(pg), TRUE, "none")

retryLoad ==
  /\ PageClick /\ ~ pg.loading /\ pg.error /\ pg.catalog = NoConn
  /\ loadCatalog(pg, reqs, CatalogControls(pg), FALSE, "none")

-----------------------------------------------------------------------------
(* The page: dialogs.                                                      *)

openCreateDialog ==
  PageClick /\ pg' = [pg EXCEPT !.dialog = "create"] /\ UNCHANGED reqs

handleEditClick(id) ==
  /\ PageClick /\ ~ controlsDisabled
  /\ RowsShown /\ \E k \in DOMAIN pg.catalog.items : pg.catalog.items[k] = id
  /\ pg' = [pg EXCEPT !.editing = id]
  /\ reqs' = reqs \cup {[kind |-> "edit", id |-> id, answer |-> NoConn]}

setDeleteTarget(id) ==
  /\ PageClick /\ ~ controlsDisabled
  /\ RowsShown /\ \E k \in DOMAIN pg.catalog.items : pg.catalog.items[k] = id
  /\ pg' = [pg EXCEPT !.target = id] /\ UNCHANGED reqs

\* The open dialog is confirmed or closed; the reload that follows asks for the
\* controls of this moment.
InDialog == screen = "page" /\ UNCHANGED <<conns, stamp, screen, picker, moves>>

handleSubmit(hit) ==
  /\ InDialog /\ pg.dialog # "none" /\ ~ pg.submitting
  /\ pg' = [pg EXCEPT !.submitting = TRUE]
  /\ reqs' = reqs \cup {[kind |-> "submit", hit |-> hit, key |-> CatalogControls(pg),
                         id |-> IF pg.dialog = "edit" THEN pg.edited ELSE NoConn,
                         answer |-> NoConn]}

handleDeleteConfirm ==
  /\ InDialog /\ pg.target # NoConn /\ ~ pg.deleting
  /\ pg' = [pg EXCEPT !.deleting = TRUE]
  /\ reqs' = reqs \cup {[kind |-> "delete", id |-> pg.target, key |-> CatalogControls(pg),
                         answer |-> NoConn]}

onClose ==
  /\ InDialog
  /\ \/ pg.dialog # "none" /\ ~ pg.submitting /\ pg' = [pg EXCEPT !.dialog = "none"]
     \/ pg.target # NoConn /\ ~ pg.deleting /\ pg' = [pg EXCEPT !.target = NoConn]
  /\ UNCHANGED reqs

-----------------------------------------------------------------------------
(* The page: answers.  FALSE as an answer is a failure.                    *)

Frees(v, owner) ==
  CASE owner = "submit" -> [v EXCEPT !.submitting = FALSE]
    [] owner = "delete" -> [v EXCEPT !.deleting = FALSE]
    [] owner = "none" -> v

\* Mutation: the finally clears the wrong flag.
EndsWrongly(v, c) == Frees([v EXCEPT !.loading = FALSE], c.owner)

\* The finally of loadCatalog, and of who has waited for it.
Ends(v, c) == Frees(IF c.background THEN [v EXCEPT !.refreshing = FALSE]
                                    ELSE [v EXCEPT !.loading = FALSE], c.owner)

catalogAnswer(c) ==
  /\ c.kind = "list" /\ c.answer # NoConn
  /\ LET a == c.answer
         v == Ends(pg, c)
         last == totalPages(a.total)
         rest == reqs \ {c}
     IN  IF ~ c.current THEN pg' = Frees(pg, c.owner) /\ reqs' = rest
         ELSE IF a.items = <<>> /\ c.key.page > last
           THEN Settle([v EXCEPT !.page = last], rest)
         ELSE pg' = [v EXCEPT !.catalog = a, !.by = c.owner] /\ reqs' = rest
  /\ UNCHANGED moves

editAnswer(c) ==
  /\ c.kind = "edit" /\ c.answer # NoConn
  /\ pg' = [pg EXCEPT !.editing = NoConn, !.dialog = "edit", !.edited = c.id]
  /\ reqs' = reqs \ {c}
  /\ UNCHANGED moves

submitAnswer(c) ==
  /\ c.kind = "submit" /\ c.answer # NoConn /\ screen = "page"
  /\ loadCatalog([pg EXCEPT !.dialog = "none"], reqs \ {c}, c.key, TRUE, "submit")
  /\ UNCHANGED moves

deleteAnswer(c) ==
  /\ c.kind = "delete" /\ c.answer # NoConn
  /\ loadCatalog([pg EXCEPT !.target = NoConn], reqs \ {c}, c.key, TRUE, "delete")
  /\ UNCHANGED moves

\* The request or its answer is lost, or the api refuses it.
requestFails(c) ==
  /\ Move
  /\ reqs' = reqs \ {c}
  /\ CASE c.kind = "list" ->
            pg' = IF c.current THEN [Ends(pg, c) EXCEPT !.error = TRUE]
                               ELSE Frees(pg, c.owner)
       [] c.kind = "edit" -> pg' = [pg EXCEPT !.editing = NoConn]
       [] OTHER -> pg' = Frees(pg, c.kind)

PageAnswer(c) ==
  /\ screen = "page"
  /\ catalogAnswer(c) \/ editAnswer(c) \/ submitAnswer(c) \/ deleteAnswer(c) \/ requestFails(c)
  /\ UNCHANGED <<conns, stamp, screen, picker>>

-----------------------------------------------------------------------------
(* The picker.                                                             *)

Closed == [open |-> FALSE, search |-> FALSE, catalog |-> NoConn, loading |-> FALSE,
           loadingMore |-> FALSE, error |-> FALSE]

loadCatalogPage(v, n, append) ==
  /\ picker' = IF append THEN [v EXCEPT !.loadingMore = TRUE, !.error = FALSE]
                         ELSE [v EXCEPT !.loading = TRUE, !.error = FALSE]
  /\ reqs' = {c \in reqs : c.kind # "pick"} \cup
       {[kind |-> "pick", append |-> append, answer |-> NoConn,
         key |-> [page |-> n, search |-> v.search, oldest |-> FALSE]]}

resetPicker == picker' = Closed /\ reqs' = {c \in reqs : c.kind # "pick"}

Tap == screen = "picker" /\ Move /\ UNCHANGED <<conns, stamp, screen, pg>>

handleToggle ==
  /\ Tap
  /\ IF picker.open THEN resetPicker
     ELSE loadCatalogPage([picker EXCEPT !.open = TRUE], 1, FALSE)

\* handleSelect and handleClear.
handleSelect ==
  /\ Tap /\ picker.open /\ picker.catalog # NoConn /\ resetPicker

setSearch ==
  Tap /\ picker.open /\ loadCatalogPage([picker EXCEPT !.search = ~ @], 1, FALSE)

handleRefresh ==
  /\ Tap /\ ~ picker.loading /\ ~ picker.loadingMore
  /\ loadCatalogPage([picker EXCEPT !.open = TRUE], 1, FALSE)

hasMore == picker.catalog # NoConn /\ Len(picker.catalog.items) < picker.catalog.total

loadMore ==
  /\ Tap /\ picker.open /\ hasMore /\ ~ picker.loadingMore
  /\ loadCatalogPage(picker, picker.catalog.page + 1, TRUE)

\* The inspector's own dialog; when it has succeeded an open picker reloads.
handleCreateConnection ==
  /\ Tap
  /\ ~ \E c \in reqs : c.kind = "submit"
  /\ \E hit \in BOOLEAN :
       reqs' = reqs \cup {[kind |-> "submit", id |-> NoConn, hit |-> hit, answer |-> NoConn]}
  /\ UNCHANGED picker

\* Mutation: the next page takes the place of those before.
mergeCatalogItemsNot(s, t) == t

mergeCatalogItems(s, t) ==
  s \o Kept(t, {k \in DOMAIN t : \A j \in DOMAIN s : s[j] # t[k]})

pickAnswer(c) ==
  /\ c.kind = "pick" /\ c.answer # NoConn
  /\ LET a == c.answer
         old == picker.catalog
         adds == c.append /\ old # NoConn
     IN  picker' =
           [(IF c.append THEN [picker EXCEPT !.loadingMore = FALSE]
                         ELSE [picker EXCEPT !.loading = FALSE]) EXCEPT !.catalog =
              [items |-> IF adds THEN mergeCatalogItems(old.items, a.items) ELSE a.items,
               total |-> a.total, page |-> c.key.page,
               seen |-> {a.seen} \cup IF adds THEN old.seen ELSE {},
               of |-> {c.key.search} \cup IF adds THEN old.of ELSE {}]]
  /\ reqs' = reqs \ {c}
  /\ UNCHANGED moves

createAnswer(c) ==
  /\ c.kind = "submit" /\ c.answer # NoConn
  /\ IF picker.open
       THEN /\ picker' = [picker EXCEPT !.loading = TRUE, !.error = FALSE]
            /\ reqs' = {[kind |-> "pick", append |-> FALSE, answer |-> NoConn,
                         key |-> [page |-> 1, search |-> picker.search, oldest |-> FALSE]]}
       ELSE UNCHANGED picker /\ reqs' = reqs \ {c}
  /\ UNCHANGED moves

pickFails(c) ==
  /\ Move
  /\ reqs' = reqs \ {c}
  /\ picker' = IF c.kind # "pick" THEN picker
               ELSE IF c.append
                 THEN [picker EXCEPT !.loadingMore = FALSE, !.error = TRUE]
               ELSE [picker EXCEPT !.loading = FALSE, !.error = TRUE]

PickerAnswer(c) ==
  /\ screen = "picker"
  /\ pickAnswer(c) \/ createAnswer(c) \/ pickFails(c)
  /\ UNCHANGED <<conns, stamp, screen, pg>>

-----------------------------------------------------------------------------

CatInit ==
  /\ \E S \in SUBSET Conns :
       conns = SetToSeq({[id |-> id, hit |-> id \in Hits] : id \in S})
  /\ stamp = 0 /\ moves = 0
  /\ picker = Closed
  /\ pg = [page |-> 1, search |-> FALSE, oldest |-> FALSE, catalog |-> NoConn,
           by |-> "none", loading |-> TRUE, refreshing |-> FALSE, error |-> FALSE,
           dialog |-> "none", edited |-> NoConn, editing |-> NoConn, target |-> NoConn,
           submitting |-> FALSE, deleting |-> FALSE]
  /\ \/ screen = "page" /\ reqs = {CatalogCall(CatalogControls(pg), FALSE, "none")}
     \/ screen = "picker" /\ reqs = {}

CatalogStep ==
  \/ search \/ setSort \/ resetFilters \/ refresh \/ retryLoad
  \/ turnPage(pg.page + 1) \/ turnPage(pg.page - 1)
  \/ openCreateDialog \/ handleDeleteConfirm \/ onClose
  \/ \E id \in Conns : handleEditClick(id) \/ setDeleteTarget(id)
  \/ \E hit \in BOOLEAN : handleSubmit(hit)

PickerStep ==
  \/ handleToggle \/ handleSelect \/ setSearch \/ handleRefresh \/ loadMore
  \/ handleCreateConnection

CatNext ==
  \/ otherTab \/ CatalogStep \/ PickerStep
  \/ \E c \in reqs : apiAnswers(c) \/ PageAnswer(c) \/ PickerAnswer(c)

CatSpec == CatInit /\ [][CatNext]_catVars

-----------------------------------------------------------------------------
(* Properties.                                                             *)

\* requestIdRef: the list shown is the one that the search, the filters and the
\* page number ask for; only the reload after a save or a delete may show
\* another page of it, as it asks for the page of when the dialog was confirmed.
CatalogIsForTheControls ==
  pg.catalog # NoConn =>
    \/ pg.catalog.key = CatalogControls(pg)
    \/ pg.by # "none" /\ pg.catalog.key = [CatalogControls(pg) EXCEPT !.page = pg.catalog.key.page]

Locked(flag, background) ==
  screen = "page" /\ flag /\ ~ \E c \in Waits : c.background = background

\* controlsDisabled and the spinner: the page is locked, or shows nothing but
\* that it loads, only while a request is in flight whose answer ends it; except
\* for ever when a search, whose field is never locked, overtakes a refresh, or
\* a save's reload overtakes the first load.
LocksAreLostOnlySo ==
  [][/\ Locked(pg.refreshing, TRUE)' =>
          Locked(pg.refreshing, TRUE) \/ search
     /\ Locked(pg.loading, FALSE)' =>
          Locked(pg.loading, FALSE) \/ \E c \in reqs : submitAnswer(c)]_catVars

\* loadCatalogPage and mergeCatalogItems: pages fetched one by one add up to the
\* beginning of the list, without a gap or a double, as long as no connection
\* changes; and what is shown is what was searched for, unless the first page of
\* the search is awaited or has failed, or "load more" was pressed meanwhile.
PickerListsAll ==
  LET cat == picker.catalog IN
  cat # NoConn =>
    \/ picker.error \/ Cardinality(cat.of) > 1
    \/ \E c \in reqs : c.kind = "pick" /\ (~ c.append \/ c.key.search \notin cat.of)
    \/ /\ cat.of = {picker.search}
       /\ cat.seen = {stamp} =>
            LET all == buildCatalogWhere(picker.search)
                n == IF cat.page * Limit < Len(all) THEN cat.page * Limit ELSE Len(all)
            IN  /\ cat.items = [k \in 1..n |-> all[k].id]
                /\ hasMore <=> n < Len(all)

\* The page and the picker list what was asked for on them.
CatalogShowsTheChosen == CatalogIsForTheControls /\ PickerListsAll
=============================================================================
