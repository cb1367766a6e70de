--------------------------- MODULE EditorDataProofs ---------------------------
(***************************************************************************)
(* Proofs about what the editor shows of chains and of data. LinearGraph,  *)
(* for any node ids and graphs of any size: the api accepts exactly the    *)
(* chains, the worker runs them in their order, the fields offered are of  *)
(* that order, and the editor agrees. FieldPicker, for any pickers, chains *)
(* and number of executions read: what a picker lists without a warning is *)
(* of the step before as it is drawn, and what it holds never gets older.  *)
(* DbQueryForm, for any connections, tables, columns, edits and failures:  *)
(* the form shows the query that is stored, the columns of the table and   *)
(* the rows of the trial, and no query runs on a connection it was not     *)
(* made for. FieldData, for documents of any depth and keys: an offered    *)
(* field resolves, and a preview is of what is sent. Truncation, for any   *)
(* string and limit: the cut is the longest that fits. TemplatedInput, for *)
(* elements of any length: normalizing and pasting keep the text.          *)
(***************************************************************************)
EXTENDS LinearGraph, FieldPicker, DbQueryForm, FieldData, Truncation,
        TemplatedInput, FiniteSetTheorems, FunctionTheorems,
        WellFoundedInduction, TLAPS

-----------------------------------------------------------------------------
(* FieldPicker: the inductive invariant.                                   *)

Answers ==
  [version : Nat, shape : Shapes \cup {Nothing}, at : Nat,
   empty : {Nothing, "NO_EXECUTIONS", "INCOMPATIBLE_EXECUTIONS", "NO_FIELDS"}]

Executions == [version : Nat, fields : BOOLEAN]
Requests == [waiting : SUBSET Pickers, read : Answers \cup {Nothing}]
Panels == [open : BOOLEAN, data : Answers \cup {Nothing}, loading : BOOLEAN,
           error : BOOLEAN]

PickerTypeOK ==
  /\ stored \in Seq(Shapes)
  /\ runs \in Seq(Executions)
  /\ draft \in [shape : Shapes, saved : Shapes, version : Nat, tested : BOOLEAN]
  /\ picker \in [Pickers -> Panels]
  /\ cache \in Answers \cup {Nothing}
  /\ requests \in Seq(Requests)
  /\ events \in Nat

\* An execution is of a version there was; the draft was saved as the version
\* it names.
VersionsInv ==
  /\ \A i \in DOMAIN runs : runs[i].version \in DOMAIN stored
  /\ draft.version \in DOMAIN stored /\ stored[draft.version] = draft.saved

\* An answer was read by now, and is of the chain of the version it names.
IsOfItsVersion(answer, versions, now) ==
  answer # Nothing =>
    /\ answer.at <= now
    /\ answer.version = 0 => answer.shape = Nothing
    /\ answer.version # 0 => /\ answer.version \in DOMAIN versions
                             /\ answer.shape = versions[answer.version]

AnswersInv ==
  /\ IsOfItsVersion(cache, stored, events)
  /\ \A p \in Pickers : IsOfItsVersion(picker[p].data, stored, events)
  /\ \A i \in DOMAIN requests : IsOfItsVersion(requests[i].read, stored, events)

NotAfter(a, b) == a # Nothing /\ b # Nothing => a.at <= b.at

\* One request at most is in flight, and it brings nothing older than what is
\* held: this is what asking together is for.
OrderInv ==
  /\ Len(requests) <= 1
  /\ \A p \in Pickers : NotAfter(picker[p].data, cache)
  /\ \A i \in DOMAIN requests :
       /\ NotAfter(cache, requests[i].read)
       /\ \A p \in Pickers : NotAfter(picker[p].data, requests[i].read)

PickerInv == PickerTypeOK /\ VersionsInv /\ AnswersInv /\ OrderInv

-----------------------------------------------------------------------------
(* What is removed, and what is read.                                      *)

\* The only request in flight is answered: none is left.
LEMMA TheOnlyOne ==
  ASSUME NEW S, NEW s \in Seq(S), Len(s) <= 1, NEW i \in DOMAIN s
  PROVE  RemoveAt(s, i) = <<>>
<1>1. \A n \in Nat : n <= 1 => \A j \in 1 .. n : j = 1 /\ n = 1
  OBVIOUS
<1>2. i = 1 /\ Len(s) = 1
  <2>1. Len(s) \in Nat /\ i \in 1 .. Len(s)
    OBVIOUS
  <2> QED BY <1>1, <2>1
<1>3. SubSeq(s, 1, 0) = <<>> /\ SubSeq(s, 2, 1) = <<>>
  BY <1>2
<1>4. <<>> \o <<>> = <<>>
  OBVIOUS
<1> QED BY <1>2, <1>3, <1>4 DEF RemoveAt

\* Of some executions, numbered as they come, one is the newest.
LEMMA Newest ==
  ASSUME NEW n \in Nat, NEW S \in SUBSET (1 .. n), S # {}
  PROVE  \E j \in S : \A k \in S : k <= j
<1> DEFINE Less == {ss \in Nat \X Nat : ss[1] < ss[2]}
           older == {n - j : j \in S}
<1>1. IsWellFoundedOn(Less, Nat)
  BY NatLessThanWellFounded DEF OpToRel
<1>2. older \subseteq Nat /\ older # {}
  <2>1. older \subseteq Nat
    OBVIOUS
  <2>2. older # {}
    OBVIOUS
  <2> QED BY <2>1, <2>2
<1> HIDE DEF Less
<1>3. PICK m \in older : \A o \in older : <<o, m>> \notin Less
  <2> HIDE DEF older
  <2> QED BY <1>1, <1>2, WFMin
<1>4. \A o \in older : ~ (o < m)
  BY <1>2, <1>3 DEF Less
<1>5. PICK j \in S : m = n - j
  BY <1>3
<1>6. ASSUME NEW k \in S PROVE k <= j
  <2>1. n - k \in older
    OBVIOUS
  <2> HIDE DEF older
  <2>2. ~ (n - k < n - j)
    BY <1>4, <1>5, <2>1
  <2>3. k \in 1 .. n /\ j \in 1 .. n
    OBVIOUS
  <2> QED BY <2>2, <2>3
<1> QED BY <1>6

\* What the api answers is of the chain of the version it names.
LEMMA FieldsAreOfTheirVersion ==
  ASSUME PickerInv
  PROVE  /\ getAvailableFields \in Answers
         /\ IsOfItsVersion(getAvailableFields, stored, events)
         /\ getAvailableFields.at = events
<1> USE DEF PickerInv, PickerTypeOK, VersionsInv
<1>1. CASE WithFields = {}
  <2>1. emptyState \in {"NO_EXECUTIONS", "INCOMPATIBLE_EXECUTIONS", "NO_FIELDS"}
    BY DEF emptyState
  <2> QED BY <1>1, <2>1 DEF getAvailableFields, Answers, IsOfItsVersion
<1>2. CASE WithFields # {}
  <2> DEFINE newest == CHOOSE j \in WithFields : \A k \in WithFields : k <= j
  <2>1. WithFields \subseteq DOMAIN runs /\ WithFields \subseteq 1 .. Len(runs)
    BY DEF WithFields, Compatible, Latest
  <2>2. \E j \in WithFields : \A k \in WithFields : k <= j
    <3>1. Len(runs) \in Nat
      OBVIOUS
    <3> QED BY ONLY <1>2, <2>1, <3>1, Newest
  <2>3. newest \in WithFields
    BY <2>2
  <2>4. getAvailableFields = [version |-> runs[newest].version,
          shape |-> stored[runs[newest].version], empty |-> Nothing, at |-> events]
    BY <1>2 DEF getAvailableFields
  <2> HIDE DEF newest
  <2>5. runs[newest].version \in DOMAIN stored
    BY <2>1, <2>3
  <2>6. stored[runs[newest].version] \in Shapes
    BY <2>5
  <2>7. runs[newest] \in Executions
    BY <2>1, <2>3
  <2>8. runs[newest].version # 0
    <3>1. runs[newest].version \in 1 .. Len(stored)
      BY <2>5
    <3> QED BY <3>1
  <2> QED BY <2>4, <2>5, <2>6, <2>7, <2>8 DEF Answers, Executions, IsOfItsVersion
<1> QED BY <1>1, <1>2

-----------------------------------------------------------------------------
(* The invariant begins, and each step keeps it.                           *)

LEMMA InitPicker == PickerInit => PickerInv
<1> SUFFICES ASSUME PickerInit PROVE PickerInv
  OBVIOUS
<1>1. PICK shape \in Shapes :
        /\ stored = <<shape>>
        /\ draft = [shape |-> shape, saved |-> shape, version |-> 1, tested |-> FALSE]
  BY DEF PickerInit
<1>2. PickerTypeOK
  <2>1. runs = <<>> /\ requests = <<>> /\ cache = Nothing /\ events = 0
    BY DEF PickerInit
  <2>2. picker \in [Pickers -> Panels]
    BY DEF PickerInit, Panels
  <2> QED BY <1>1, <2>1, <2>2 DEF PickerTypeOK
<1>3. VersionsInv
  BY <1>1 DEF PickerInit, VersionsInv
<1>4. AnswersInv /\ OrderInv
  BY DEF PickerInit, AnswersInv, OrderInv, IsOfItsVersion, NotAfter
<1> QED BY <1>2, <1>3, <1>4 DEF PickerInv

\* Versions are added, never taken back, and time goes on.
LEMMA HistoryGrows ==
  ASSUME PickerInv, PickerNext
  PROVE  /\ stored' \in Seq(Shapes) /\ events' \in Nat /\ events <= events'
         /\ \A v \in DOMAIN stored : v \in DOMAIN stored' /\ stored'[v] = stored[v]
<1> USE DEF PickerInv, PickerTypeOK
<1>1. CASE UNCHANGED <<stored, events>>
  BY <1>1
<1>2. CASE UNCHANGED stored /\ Happens
  BY <1>2 DEF Happens
<1>3. ASSUME NEW shape \in Shapes, stored' = Append(stored, shape), Happens
      PROVE  /\ stored' \in Seq(Shapes) /\ events' \in Nat /\ events <= events'
             /\ \A v \in DOMAIN stored : v \in DOMAIN stored' /\ stored'[v] = stored[v]
  BY <1>3 DEF Happens
<1> QED
  BY <1>1, <1>2, <1>3
  DEF PickerNext, RunSucceeds, SavedElsewhere, Draw, TestSucceeds, Save, Shown, Toggled,
      Closed, Read, Answered, Failed

\* So an answer stays one of its version.
LEMMA StaysOfItsVersion ==
  ASSUME PickerInv, PickerNext, NEW a \in Answers \cup {Nothing},
         IsOfItsVersion(a, stored, events)
  PROVE  IsOfItsVersion(a, stored', events')
BY HistoryGrows DEF IsOfItsVersion, Answers, PickerInv, PickerTypeOK

LEMMA VersionsStep == PickerInv /\ PickerNext => VersionsInv'
<1> SUFFICES ASSUME PickerInv, PickerNext PROVE VersionsInv'
  OBVIOUS
<1> USE DEF PickerInv, PickerTypeOK, VersionsInv
<1>1. ASSUME NEW fields \in BOOLEAN, RunSucceeds(fields) PROVE VersionsInv'
  BY <1>1 DEF RunSucceeds
<1>2. ASSUME NEW shape \in Shapes, SavedElsewhere(shape) PROVE VersionsInv'
  BY <1>2, HistoryGrows DEF SavedElsewhere
<1>3. ASSUME NEW shape \in Shapes, Draw(shape) PROVE VersionsInv'
  BY <1>3 DEF Draw
<1>4. CASE TestSucceeds
  BY <1>4 DEF TestSucceeds
<1>5. CASE Save
  BY <1>5, HistoryGrows DEF Save
<1>6. CASE UNCHANGED <<stored, runs, draft>>
  BY <1>6
<1> QED
  BY <1>1, <1>2, <1>3, <1>4, <1>5, <1>6
  DEF PickerNext, Shown, Toggled, Closed, Read, Answered, Failed

\* What is held stays in order where nothing new is read: a picker keeps what
\* it has or takes the cache, the cache is kept or emptied.
LEMMA NothingNew ==
  ASSUME PickerInv, PickerNext,
         cache' \in {cache, Nothing},
         \A p \in Pickers : picker'[p].data \in {picker[p].data, cache},
         Len(requests') <= 1,
         \A i \in DOMAIN requests' :
           \/ requests'[i].read = Nothing
           \/ i \in DOMAIN requests /\ requests'[i].read = requests[i].read
  PROVE  AnswersInv' /\ OrderInv'
<1>1. \A p \in Pickers : picker[p].data \in Answers \cup {Nothing}
  BY DEF PickerInv, PickerTypeOK, Panels
<1>2. \A i \in DOMAIN requests : requests[i] \in Requests
  BY DEF PickerInv, PickerTypeOK
<1>3. IsOfItsVersion(Nothing, stored', events')
  BY DEF IsOfItsVersion
<1>4. IsOfItsVersion(cache, stored', events')
  BY StaysOfItsVersion DEF PickerInv, PickerTypeOK, AnswersInv
<1>5. AnswersInv'
  <2>1. ASSUME NEW p \in Pickers PROVE IsOfItsVersion(picker[p].data, stored', events')
    BY <1>1, StaysOfItsVersion DEF PickerInv, AnswersInv
  <2>2. ASSUME NEW i \in DOMAIN requests
        PROVE  IsOfItsVersion(requests[i].read, stored', events')
    BY <1>2, StaysOfItsVersion DEF PickerInv, AnswersInv, Requests
  <2> QED BY <1>3, <1>4, <2>1, <2>2 DEF AnswersInv
<1>6. \A p \in Pickers : NotAfter(picker'[p].data, cache')
  <2>1. cache \in Answers => NotAfter(cache, cache)
    BY DEF NotAfter, Answers
  <2> QED BY <2>1 DEF NotAfter, PickerInv, PickerTypeOK, OrderInv
<1>7. ASSUME NEW i \in DOMAIN requests'
      PROVE  /\ NotAfter(cache', requests'[i].read)
             /\ \A p \in Pickers : NotAfter(picker'[p].data, requests'[i].read)
  <2>1. CASE requests'[i].read = Nothing
    BY <2>1 DEF NotAfter
  <2>2. CASE i \in DOMAIN requests /\ requests'[i].read = requests[i].read
    BY <2>2 DEF NotAfter, PickerInv, OrderInv
  <2> QED BY <2>1, <2>2
<1> QED BY <1>5, <1>6, <1>7 DEF OrderInv

\* A picker that asks: it takes the cache, or it waits for an answer.
LEMMA FetchStep ==
  ASSUME PickerInv, PickerNext, NEW p \in Pickers, NEW force \in BOOLEAN,
         NEW opened \in BOOLEAN, doFetch(p, force, opened)
  PROVE  /\ picker' \in [Pickers -> Panels] /\ requests' \in Seq(Requests)
         /\ cache' \in Answers \cup {Nothing}
         /\ AnswersInv' /\ OrderInv'
         /\ \A q \in Pickers : picker'[q].data \in {picker[q].data, cache}
<1> DEFINE pk == [picker[p] EXCEPT !.open = opened, !.error = FALSE]
<1>1. picker \in [Pickers -> Panels] /\ cache \in Answers \cup {Nothing}
      /\ requests \in Seq(Requests) /\ Len(requests) <= 1
  BY DEF PickerInv, PickerTypeOK, OrderInv
<1>2. pk \in Panels /\ pk.data = picker[p].data
  BY <1>1 DEF Panels
<1>3. CASE ~ force /\ cache # Nothing
  <2>1. picker' = [picker EXCEPT ![p] = [pk EXCEPT !.data = cache]]
        /\ UNCHANGED <<cache, requests>>
    BY <1>3 DEF doFetch
  <2> HIDE DEF pk
  <2>2. [pk EXCEPT !.data = cache] \in Panels /\ [pk EXCEPT !.data = cache].data = cache
    BY <1>1, <1>2 DEF Panels
  <2>3. picker' \in [Pickers -> Panels]
        /\ \A q \in Pickers : picker'[q].data \in {picker[q].data, cache}
    BY <1>1, <2>1, <2>2
  <2> QED BY <1>1, <2>1, <2>3, NothingNew
<1>4. CASE ~ (~ force /\ cache # Nothing)
  <2>1. /\ picker' = [picker EXCEPT ![p] = [pk EXCEPT !.loading = TRUE]]
        /\ cache' \in {cache, Nothing}
        /\ fetchWithDedup(p)
    BY <1>4 DEF doFetch
  <2> HIDE DEF pk
  <2>2. [pk EXCEPT !.loading = TRUE] \in Panels
        /\ [pk EXCEPT !.loading = TRUE].data = picker[p].data
    BY <1>1, <1>2 DEF Panels
  <2>3. picker' \in [Pickers -> Panels]
        /\ \A q \in Pickers : picker'[q].data \in {picker[q].data, cache}
    BY <1>1, <2>1, <2>2
  <2>4. Asked(p) \in Requests /\ Asked(p).read = Nothing
    BY DEF Asked, Requests
  <2>5. /\ requests' \in Seq(Requests) /\ Len(requests') <= 1
        /\ \A i \in DOMAIN requests' :
             \/ requests'[i].read = Nothing
             \/ i \in DOMAIN requests /\ requests'[i].read = requests[i].read
    <3>1. CASE requests = <<>>
      <4>1. requests' = <<Asked(p)>>
        BY <2>1, <3>1 DEF fetchWithDedup
      <4> QED BY <2>4, <4>1
    <3>2. CASE requests # <<>>
      <4> DEFINE r == [requests[1] EXCEPT !.waiting = @ \cup {p}]
      <4>1. 1 \in DOMAIN requests /\ requests[1] \in Requests
        BY <1>1, <3>2
      <4>2. r \in Requests /\ r.read = requests[1].read
        BY <4>1 DEF Requests
      <4>3. requests' = [requests EXCEPT ![1] = r]
        BY <2>1, <3>2 DEF fetchWithDedup
      <4> HIDE DEF r
      <4>4. requests' \in Seq(Requests) /\ Len(requests') = Len(requests)
            /\ DOMAIN requests' = DOMAIN requests
        BY <1>1, <4>1, <4>2, <4>3
      <4>5. \A i \in DOMAIN requests : requests'[i].read = requests[i].read
        BY <4>1, <4>2, <4>3
      <4> QED BY <1>1, <4>4, <4>5
    <3> QED BY <3>1, <3>2
  <2>6. cache' \in Answers \cup {Nothing}
    BY <1>1, <2>1
  <2> QED BY <2>1, <2>3, <2>5, <2>6, NothingNew
<1> QED BY <1>3, <1>4

\* What the user does, and what happens elsewhere.
LEMMA UserStep ==
  ASSUME PickerInv, PickerNext,
         \/ \E fields \in BOOLEAN : RunSucceeds(fields)
         \/ \E shape \in Shapes : SavedElsewhere(shape) \/ Draw(shape)
         \/ TestSucceeds \/ Save
         \/ \E p \in Pickers : Shown(p) \/ Toggled(p) \/ Closed(p)
  PROVE  PickerTypeOK' /\ AnswersInv' /\ OrderInv'
<1>0. PickerTypeOK /\ Len(requests) <= 1 /\ stored' \in Seq(Shapes) /\ events' \in Nat
  BY HistoryGrows DEF PickerInv, OrderInv
<1>1. ASSUME UNCHANGED <<picker, cache, requests>> PROVE AnswersInv' /\ OrderInv'
  BY <1>0, <1>1, NothingNew
<1>2. ASSUME NEW fields \in BOOLEAN, RunSucceeds(fields)
      PROVE  PickerTypeOK' /\ AnswersInv' /\ OrderInv'
  <2>1. [version |-> Len(stored), fields |-> fields] \in Executions
    BY <1>0 DEF Executions, PickerTypeOK
  <2>2. runs' \in Seq(Executions)
    BY <1>0, <1>2, <2>1 DEF RunSucceeds, PickerTypeOK
  <2> QED BY <1>0, <1>1, <1>2, <2>2 DEF RunSucceeds, PickerTypeOK
<1>3. ASSUME NEW shape \in Shapes, SavedElsewhere(shape)
      PROVE  PickerTypeOK' /\ AnswersInv' /\ OrderInv'
  BY <1>0, <1>1, <1>3 DEF SavedElsewhere, PickerTypeOK
<1>4. ASSUME NEW shape \in Shapes, Draw(shape)
      PROVE  PickerTypeOK' /\ AnswersInv' /\ OrderInv'
  BY <1>0, <1>1, <1>4 DEF Draw, PickerTypeOK
<1>5. CASE TestSucceeds
  BY <1>0, <1>1, <1>5 DEF TestSucceeds, PickerTypeOK
<1>6. CASE Save
  <2>1. draft' \in [shape : Shapes, saved : Shapes, version : Nat, tested : BOOLEAN]
    BY <1>0, <1>6 DEF Save, PickerTypeOK
  <2>2. picker' \in [Pickers -> Panels] /\ \A p \in Pickers : picker'[p].data = cache
    BY <1>0, <1>6 DEF Save, PickerTypeOK, Panels
  <2>3. \A i \in DOMAIN requests : requests[i] \in Requests
    BY <1>0 DEF PickerTypeOK
  <2>4. \A i \in DOMAIN requests :
          /\ [requests[i] EXCEPT !.waiting = {}] \in Requests
          /\ [requests[i] EXCEPT !.waiting = {}].read = requests[i].read
    BY <2>3 DEF Requests
  <2>5. requests' = [i \in DOMAIN requests |-> [requests[i] EXCEPT !.waiting = {}]]
    BY <1>6 DEF Save
  <2>6. /\ requests' \in Seq(Requests) /\ Len(requests') = Len(requests)
        /\ DOMAIN requests' = DOMAIN requests
    <3>1. requests \in Seq(Requests) /\ Len(requests) \in Nat
      BY <1>0 DEF PickerTypeOK
    <3> QED BY <2>4, <2>5, <3>1
  <2>7. \A i \in DOMAIN requests' : requests'[i].read = requests[i].read
    BY <2>4, <2>5, <2>6
  <2>8. UNCHANGED <<runs, cache>>
    BY <1>6 DEF Save
  <2>9. AnswersInv' /\ OrderInv'
    BY <1>0, <2>2, <2>6, <2>7, <2>8, NothingNew
  <2> QED BY <1>0, <2>1, <2>2, <2>6, <2>8, <2>9 DEF PickerTypeOK
<1>7. ASSUME NEW p \in Pickers, Shown(p)
      PROVE  PickerTypeOK' /\ AnswersInv' /\ OrderInv'
  <2>1. picker[p].open \in BOOLEAN
    BY <1>0 DEF PickerTypeOK, Panels
  <2> QED BY <1>0, <1>7, <2>1, FetchStep DEF Shown, PickerTypeOK
<1>8. ASSUME NEW p \in Pickers, Toggled(p)
      PROVE  PickerTypeOK' /\ AnswersInv' /\ OrderInv'
  BY <1>0, <1>8, FetchStep DEF Toggled, PickerTypeOK
<1>9. ASSUME NEW p \in Pickers, Closed(p)
      PROVE  PickerTypeOK' /\ AnswersInv' /\ OrderInv'
  <2>1. picker' \in [Pickers -> Panels]
        /\ \A q \in Pickers : picker'[q].data = picker[q].data
    BY <1>0, <1>9 DEF Closed, PickerTypeOK, Panels
  <2> QED BY <1>0, <1>9, <2>1, NothingNew DEF Closed, PickerTypeOK
<1> QED
  BY <1>2, <1>3, <1>4, <1>5, <1>6, <1>7, <1>8, <1>9

\* The request in flight: it is read, answered, or it fails.
LEMMA RequestStep ==
  ASSUME PickerInv, PickerNext, NEW i \in DOMAIN requests,
         Read(i) \/ Answered(i) \/ Failed(i)
  PROVE  PickerTypeOK' /\ AnswersInv' /\ OrderInv'
<1>0. PickerTypeOK /\ Len(requests) <= 1 /\ requests[i] \in Requests
      /\ stored' \in Seq(Shapes) /\ events' \in Nat
  BY HistoryGrows DEF PickerInv, PickerTypeOK, OrderInv
<1>1. CASE Read(i)
  <2> DEFINE r == [requests[i] EXCEPT !.read = getAvailableFields]
  <2>1. r \in Requests /\ r.read = getAvailableFields
    BY <1>0, FieldsAreOfTheirVersion DEF Requests
  <2>2. requests' = [requests EXCEPT ![i] = r]
        /\ UNCHANGED <<stored, runs, draft, picker, cache, events>>
    BY <1>1 DEF Read
  <2> HIDE DEF r
  <2>3. /\ requests' \in Seq(Requests) /\ DOMAIN requests' = DOMAIN requests
        /\ Len(requests') = Len(requests)
    BY <1>0, <2>1, <2>2 DEF PickerTypeOK
  <2>4. \A j \in DOMAIN requests : j = i
    BY <1>0
  <2>5. requests'[i].read = getAvailableFields
    BY <2>1, <2>2, <2>3
  <2>6. ASSUME NEW a \in Answers \cup {Nothing}, IsOfItsVersion(a, stored, events)
        PROVE  NotAfter(a, getAvailableFields)
    BY <2>6, FieldsAreOfTheirVersion DEF NotAfter, IsOfItsVersion
  <2>7. \A p \in Pickers : picker[p].data \in Answers \cup {Nothing}
    BY <1>0 DEF PickerTypeOK, Panels
  <2>8. AnswersInv'
    BY <2>2, <2>3, <2>4, <2>5, FieldsAreOfTheirVersion DEF PickerInv, AnswersInv
  <2>9. OrderInv'
    BY <1>0, <2>2, <2>3, <2>4, <2>5, <2>6, <2>7
    DEF PickerInv, PickerTypeOK, AnswersInv, OrderInv
  <2> QED BY <1>0, <2>2, <2>3, <2>8, <2>9 DEF PickerTypeOK
<1>2. requests \in Seq(Requests)
  BY <1>0 DEF PickerTypeOK
<1>3. CASE Answered(i)
  <2> DEFINE a == requests[i].read
  <2>1. a \in Answers /\ IsOfItsVersion(a, stored, events)
        /\ \A p \in Pickers : NotAfter(picker[p].data, a)
    BY <1>0, <1>3 DEF Answered, Requests, PickerInv, AnswersInv, OrderInv
  <2>2. requests' = <<>> /\ cache' = a /\ UNCHANGED <<stored, runs, draft, events>>
    BY <1>0, <1>2, <1>3, TheOnlyOne DEF Answered
  <2>3. picker' = [p \in Pickers |->
          IF p \in requests[i].waiting
            THEN [picker[p] EXCEPT !.data = a, !.loading = FALSE] ELSE picker[p]]
    BY <1>3 DEF Answered
  <2> HIDE DEF a
  <2>4. picker' \in [Pickers -> Panels]
        /\ \A p \in Pickers : picker'[p].data \in {picker[p].data, a}
    BY <1>0, <2>1, <2>3 DEF PickerTypeOK, Panels
  <2>5. AnswersInv'
    BY <2>1, <2>2, <2>4 DEF PickerInv, AnswersInv
  <2>6. OrderInv'
    BY <2>1, <2>2, <2>4 DEF OrderInv, NotAfter, Answers
  <2> QED BY <1>0, <2>1, <2>2, <2>4, <2>5, <2>6 DEF PickerTypeOK
<1>4. CASE Failed(i)
  <2>1. requests' = <<>> /\ UNCHANGED <<stored, runs, draft, cache>>
    BY <1>0, <1>2, <1>4, TheOnlyOne DEF Failed
  <2>2. picker' \in [Pickers -> Panels]
        /\ \A q \in Pickers : picker'[q].data = picker[q].data
    BY <1>0, <1>4 DEF Failed, PickerTypeOK, Panels
  <2> QED BY <1>0, <2>1, <2>2, NothingNew DEF PickerTypeOK
<1> QED BY <1>1, <1>3, <1>4

\* The inductive invariant of the field picker: every answer is of the chain its
\* version was saved with, and the one request in flight is newer than the rest.
THEOREM PickerInvariance == PickerSpec => []PickerInv
<1>1. PickerInv /\ [PickerNext]_pickerVars => PickerInv'
  <2>1. ASSUME PickerInv, PickerNext PROVE PickerInv'
    BY <2>1, VersionsStep, UserStep, RequestStep DEF PickerInv, PickerNext
  <2>2. ASSUME PickerInv, UNCHANGED pickerVars PROVE PickerInv'
    BY <2>2 DEF pickerVars, PickerInv, PickerTypeOK, VersionsInv, AnswersInv, OrderInv
  <2> QED BY <2>1, <2>2
<1> QED BY <1>1, InitPicker, PTL DEF PickerSpec

-----------------------------------------------------------------------------
(* What it is for.                                                         *)

\* Whatever was drawn, saved here or elsewhere, cached, asked for again or not
\* answered, fields that are listed without a warning are those of the step
\* before in the chain as it is drawn.
THEOREM ListedFit == PickerSpec => []ListedFitTheDraft
<1>1. PickerInv => ListedFitTheDraft
  <2> SUFFICES ASSUME PickerInv, NEW p \in Pickers, Lists(p), ~ versionMismatch(p),
                      ~ draft.tested
               PROVE  Offered(p).shape = draft.shape
    BY DEF ListedFitTheDraft, Offered
  <2>1. draft.shape = draft.saved
    BY DEF Lists, hasUnsavedChanges
  <2>2. picker[p].data # Nothing
    BY DEF Lists, Offered
  <2>3. picker[p].data.version = draft.version /\ picker[p].data.version # 0
    BY <2>2 DEF versionMismatch, Lists, Offered, PickerInv, AnswersInv, IsOfItsVersion
  <2>4. picker[p].data.shape = stored[draft.version]
    BY <2>2, <2>3 DEF PickerInv, AnswersInv, IsOfItsVersion
  <2> QED BY <2>1, <2>2, <2>4 DEF Offered, PickerInv, VersionsInv
<1> QED BY <1>1, PickerInvariance, PTL

\* A picker's data is replaced by the cache or by an answer, neither of them
\* older.
LEMMA NothingOlder ==
  ASSUME PickerInv, PickerNext, NEW p \in Pickers
  PROVE  NotAfter(picker[p].data, picker'[p].data)
<1>0. /\ picker \in [Pickers -> Panels] /\ NotAfter(picker[p].data, cache)
      /\ picker[p].data \in Answers \cup {Nothing}
      /\ \A i \in DOMAIN requests : NotAfter(picker[p].data, requests[i].read)
  BY DEF PickerInv, PickerTypeOK, Panels, OrderInv
<1>1. CASE picker'[p].data = picker[p].data
  BY <1>0, <1>1 DEF NotAfter, Answers
<1>2. CASE picker'[p].data = cache
  BY <1>0, <1>2
<1>3. ASSUME NEW i \in DOMAIN requests, picker'[p].data = requests[i].read
      PROVE  NotAfter(picker[p].data, picker'[p].data)
  BY <1>0, <1>3
<1>4. CASE Save
  BY <1>2, <1>4 DEF Save
<1>5. ASSUME NEW q \in Pickers, Shown(q) \/ Toggled(q)
      PROVE  NotAfter(picker[p].data, picker'[p].data)
  <2>1. picker[q].open \in BOOLEAN
    BY <1>0 DEF Panels
  <2> QED BY <1>1, <1>2, <1>5, <2>1, FetchStep DEF Shown, Toggled
<1>6. ASSUME NEW q \in Pickers, Closed(q)
      PROVE  NotAfter(picker[p].data, picker'[p].data)
  BY <1>0, <1>1, <1>6 DEF Closed, Panels
<1>7. ASSUME NEW i \in DOMAIN requests, Answered(i)
      PROVE  NotAfter(picker[p].data, picker'[p].data)
  BY <1>0, <1>1, <1>3, <1>7 DEF Answered, Panels
<1>8. ASSUME NEW i \in DOMAIN requests, Failed(i)
      PROVE  NotAfter(picker[p].data, picker'[p].data)
  BY <1>0, <1>1, <1>8 DEF Failed, Panels
<1>9. CASE UNCHANGED picker
  BY <1>1, <1>9
<1> QED
  BY <1>4, <1>5, <1>6, <1>7, <1>8, <1>9
  DEF PickerNext, RunSucceeds, SavedElsewhere, Draw, TestSucceeds, Read

\* No answer that was read earlier replaces one that was read later.
THEOREM NeverBack == PickerSpec => FieldsNeverGoBack
<1>1. ASSUME PickerInv, PickerInv', PickerNext, NEW p \in Pickers,
             picker[p].data # Nothing, picker'[p].data # Nothing
      PROVE  picker'[p].data.at >= picker[p].data.at
  <2>1. NotAfter(picker[p].data, picker'[p].data)
    BY <1>1, NothingOlder
  <2>2. picker[p].data \in Answers /\ picker'[p].data \in Answers
    BY <1>1 DEF PickerInv, PickerTypeOK, Panels
  <2> QED BY <1>1, <2>1, <2>2 DEF NotAfter, Answers
<1>2. PickerInv /\ PickerInv' /\ [PickerNext]_pickerVars =>
        [\A p \in Pickers :
           picker[p].data # Nothing /\ picker'[p].data # Nothing
             => picker'[p].data.at >= picker[p].data.at]_pickerVars
  BY <1>1
<1> QED BY <1>2, PickerInvariance, PTL DEF PickerSpec, FieldsNeverGoBack

-----------------------------------------------------------------------------
(* DbQueryForm: the inductive invariant.                                   *)

Columns == UNION {ColumnsOf[t] : t \in Tables}

Builders ==
  [operation : OPERATIONS, table : Tables \cup {NoTable}, filters : SUBSET Columns,
   setValues : SUBSET Columns, of : Dbs \cup {NoDb}]

Texts ==
  [kind : OPERATIONS \cup {"read", "mutation", "other"}, table : Tables \cup {NoTable},
   set : SUBSET Columns, where : SUBSET Columns, of : Dbs \cup {NoDb}]

Forms ==
  [mode : {"visual", "raw"}, builder : Builders, tables : SUBSET Tables,
   columns : SUBSET Columns, tablesLoading : BOOLEAN, columnsLoading : BOOLEAN,
   metaError : BOOLEAN, unavailable : BOOLEAN, paramsError : BOOLEAN,
   rows : Texts \cup {NoQuery}, testRunning : BOOLEAN, testError : BOOLEAN,
   testUnavailable : BOOLEAN]

CallSet ==
  [slot : {"tables", "columns", "test"}, db : Dbs, table : Tables \cup {NoTable},
   query : Texts \cup {NoQuery}]

Configs == [query : Texts \cup {NoQuery}, builder : Builders \cup {NoQuery}]

DbTypeOK ==
  /\ config \in Configs
  /\ db \in Dbs \cup {NoDb}
  /\ form \in Forms
  /\ calls \subseteq CallSet
  /\ since \subseteq {"metadata", "unseen", "edit"}
  /\ edits \in Nat

\* What was built or written was so for the connection there is, if there is one.
BuiltFor(builder, c) == builder.table # NoTable /\ c # NoDb => builder.of = c

OfTheConnection ==
  /\ BuiltFor(form.builder, db)
  /\ config.builder # NoQuery => BuiltFor(config.builder, db)
  /\ config.query # NoQuery /\ db # NoDb => config.query.of = db

\* One trial at a time, and it is of the query as it stands unless that was
\* changed meanwhile.
TrialInv ==
  /\ \A c \in calls : c.slot = "test" =>
       /\ form.testRunning
       /\ since \cap {"edit", "unseen"} = {} => c.query = Tried(form)
  /\ \A c, d \in calls : c.slot = "test" /\ d.slot = "test" => c = d

\* Columns are asked for the chosen table.
AskedInv == \A c \in calls : c.slot = "columns" => c.table = form.builder.table

DbInv == DbTypeOK /\ OfTheConnection /\ TrialInv /\ AskedInv /\ FormShowsWhatIs

-----------------------------------------------------------------------------
(* The query that is built.                                                *)

LEMMA GeneratedText ==
  ASSUME NEW b \in Builders, NEW tables \in SUBSET Tables, NEW columns \in SUBSET Columns
  PROVE  /\ generateSql(b, tables, columns) \in Texts \cup {NoQuery}
         /\ b.table \notin tables => generateSql(b, tables, columns) = NoQuery
         /\ generateSql(b, tables, columns) # NoQuery
              => generateSql(b, tables, columns).of = b.of /\ b.table \in tables
<1> DEFINE values == IF UsesValues(b.operation) THEN b.setValues \cap columns ELSE {}
           where == IF UsesFilters(b.operation) THEN b.filters \cap columns ELSE {}
           text == [kind |-> b.operation, table |-> b.table, set |-> values,
                    where |-> where, of |-> b.of]
<1>1. b.operation \in OPERATIONS /\ b.table \in Tables \cup {NoTable}
      /\ b.of \in Dbs \cup {NoDb} /\ b.filters \subseteq Columns /\ b.setValues \subseteq Columns
  BY DEF Builders
<1>2. values \in SUBSET Columns /\ where \in SUBSET Columns
  OBVIOUS
<1>3. \/ generateSql(b, tables, columns) = NoQuery
      \/ generateSql(b, tables, columns) = text /\ b.table \in tables
  BY DEF generateSql
<1>4. b.table \notin tables => generateSql(b, tables, columns) = NoQuery
  BY DEF generateSql
<1> HIDE DEF values, where
<1>5. text \in Texts /\ text.of = b.of
  BY <1>1, <1>2 DEF Texts
<1> QED BY <1>3, <1>4, <1>5

\* Forms that differ in no part of the query make the same one.
LEMMA SameQuery ==
  ASSUME NEW f, NEW g, f.mode = g.mode, f.builder = g.builder, f.tables = g.tables,
         f.columns = g.columns, f.unavailable = g.unavailable
  PROVE  /\ usingVisualPath(f) <=> usingVisualPath(g)
         /\ sqlPreview(f) = sqlPreview(g)
         /\ Tried(f) = Tried(g)
BY DEF usingVisualPath, sqlPreview, Tried

\* Without a table there is no query, whatever columns are known.
LEMMA NoTableNoQuery ==
  ASSUME NEW f \in Forms, f.builder.table = NoTable
  PROVE  sqlPreview(f) = NoQuery
<1>1. f.builder \in Builders /\ f.tables \subseteq Tables /\ f.columns \subseteq Columns
  BY DEF Forms
<1>2. NoTable \notin f.tables
  BY <1>1, TableAssumption DEF Tables
<1> QED BY <1>1, <1>2, GeneratedText DEF sqlPreview

LEMMA EmptyBuilder == EMPTY_BUILDER \in Builders /\ EMPTY_BUILDER.table = NoTable
BY DEF EMPTY_BUILDER, Builders, OPERATIONS

-----------------------------------------------------------------------------
(* What the form becomes, field by field.                                  *)

LEMMA ClearedForm ==
  ASSUME NEW f \in Forms
  PROVE  /\ clearTestResults(f) \in Forms /\ clearTestResults(f).rows = NoQuery
         /\ clearTestResults(f).mode = f.mode /\ clearTestResults(f).builder = f.builder
         /\ clearTestResults(f).tables = f.tables /\ clearTestResults(f).columns = f.columns
         /\ clearTestResults(f).unavailable = f.unavailable
         /\ clearTestResults(f).testRunning = f.testRunning
         /\ clearTestResults(f).columnsLoading = f.columnsLoading
         /\ clearTestResults(f).metaError = f.metaError
BY DEF clearTestResults, Forms

LEMMA OpenedForm ==
  ASSUME NEW cfg \in Configs
  PROVE  /\ Opened(cfg) \in Forms
         /\ Opened(cfg).builder = IF cfg.builder # NoQuery THEN cfg.builder ELSE EMPTY_BUILDER
         /\ Opened(cfg).columns = {} /\ Opened(cfg).rows = NoQuery
<1> DEFINE mode == IF cfg.builder # NoQuery \/ cfg.query = NoQuery THEN "visual" ELSE "raw"
           builder == IF cfg.builder # NoQuery THEN cfg.builder ELSE EMPTY_BUILDER
<1>1. mode \in {"visual", "raw"} /\ builder \in Builders
  BY EmptyBuilder DEF Configs
<1>2. Opened(cfg) = [mode |-> mode, builder |-> builder, tables |-> {}, columns |-> {},
        tablesLoading |-> FALSE, columnsLoading |-> FALSE, metaError |-> FALSE,
        unavailable |-> FALSE, paramsError |-> FALSE, rows |-> NoQuery,
        testRunning |-> FALSE, testError |-> FALSE, testUnavailable |-> FALSE]
  BY DEF Opened
<1> HIDE DEF mode
<1>3. Opened(cfg).builder = builder /\ Opened(cfg).columns = {} /\ Opened(cfg).rows = NoQuery
  BY <1>2
<1> HIDE DEF builder
<1>4. Opened(cfg) \in Forms
  BY <1>1, <1>2 DEF Forms
<1> QED BY <1>3, <1>4 DEF builder

\* An effect that runs asks for the chosen table, and shows no columns without one.
LEMMA AskingForm ==
  ASSUME NEW f \in Forms, NEW cs \in SUBSET CallSet, NEW c \in Dbs,
         NEW slots \in SUBSET {"tables", "columns"}, Asks(f, cs, c, slots)
  PROVE  /\ form' \in Forms
         /\ form'.mode = f.mode /\ form'.builder = f.builder /\ form'.tables = f.tables
         /\ form'.unavailable = f.unavailable /\ form'.rows = f.rows
         /\ form'.testRunning = f.testRunning
         /\ form'.columns = IF f.builder.table = NoTable THEN {} ELSE f.columns
         /\ "columns" \in slots /\ f.builder.table # NoTable => form'.columnsLoading
         /\ calls' \subseteq CallSet
         /\ \A k \in calls' :
              \/ k \in cs /\ k.slot \notin slots
              \/ k.slot \in slots /\ k.db = c /\ k.table = f.builder.table
<1> DEFINE asking == Asking(f, slots)
           tl == f.tablesLoading \/ "tables" \in asking
           cl == f.columnsLoading \/ "columns" \in asking
           cols == IF f.builder.table = NoTable THEN {} ELSE f.columns
<1>1. form' = [f EXCEPT !.tablesLoading = tl, !.columnsLoading = cl, !.metaError = FALSE,
                        !.columns = cols]
  BY DEF Asks
<1>2. calls' = Drop(cs, slots) \cup {Call(s, c, f.builder.table) : s \in asking}
  BY DEF Asks
<1>3. tl \in BOOLEAN /\ cl \in BOOLEAN
  BY DEF Forms
<1>4. cols \in SUBSET Columns
  BY DEF Forms
<1>5. asking \subseteq slots /\ ("columns" \in slots /\ f.builder.table # NoTable => cl)
  BY DEF Asking
<1> HIDE DEF asking, tl, cl
<1>6. form' \in Forms
  <2> HIDE DEF cols
  <2> QED BY <1>1, <1>3, <1>4 DEF Forms
<1>7. /\ form'.mode = f.mode /\ form'.builder = f.builder /\ form'.tables = f.tables
      /\ form'.unavailable = f.unavailable /\ form'.rows = f.rows
      /\ form'.testRunning = f.testRunning /\ form'.columns = cols
      /\ form'.columnsLoading = cl
  <2> HIDE DEF cols
  <2> QED BY <1>1 DEF Forms
<1>8. f.builder.table \in Tables \cup {NoTable}
  BY DEF Forms, Builders
<1>9. \A s \in asking : Call(s, c, f.builder.table) \in CallSet
  BY <1>5, <1>8 DEF Call, CallSet
<1>10. calls' \subseteq CallSet
  BY <1>2, <1>9 DEF Drop
<1>11. ASSUME NEW k \in calls'
       PROVE  \/ k \in cs /\ k.slot \notin slots
              \/ k.slot \in slots /\ k.db = c /\ k.table = f.builder.table
  BY <1>2, <1>5 DEF Drop, Call
<1> QED BY <1>5, <1>6, <1>7, <1>10, <1>11

-----------------------------------------------------------------------------
(* The invariant begins.                                                   *)

LEMMA SavedStep ==
  ASSUME NEW saved \in Saved
  PROVE  /\ saved[1] \in Configs /\ saved[2] \in Dbs \cup {NoDb}
         /\ saved[1].builder # NoQuery => BuiltFor(saved[1].builder, saved[2])
         /\ saved[1].query # NoQuery /\ saved[2] # NoDb => saved[1].query.of = saved[2]
<1> DEFINE Deleting(c, t, x) == [operation |-> "delete", table |-> t, filters |-> {x},
                                 setValues |-> {}, of |-> c]
           Query(c, t, x) == generateSql(Deleting(c, t, x), TablesOf[c], ColumnsOf[t])
           Reading(c) == [kind |-> "read", table |-> NoTable, set |-> {}, where |-> {},
                          of |-> c]
<1>1. CASE saved = <<[query |-> NoQuery, builder |-> NoQuery], NoDb>>
  BY <1>1 DEF Configs
<1>2. ASSUME NEW c \in Dbs, NEW t \in TablesOf[c], NEW x \in ColumnsOf[t],
             saved = <<[query |-> Query(c, t, x), builder |-> Deleting(c, t, x)], c>>
      PROVE  /\ saved[1] \in Configs /\ saved[2] \in Dbs \cup {NoDb}
             /\ saved[1].builder # NoQuery => BuiltFor(saved[1].builder, saved[2])
             /\ saved[1].query # NoQuery /\ saved[2] # NoDb
                  => saved[1].query.of = saved[2]
  <2>1. t \in Tables /\ x \in Columns /\ TablesOf[c] \subseteq Tables
        /\ ColumnsOf[t] \subseteq Columns
    BY DEF Tables, Columns
  <2>2. Deleting(c, t, x) \in Builders /\ Deleting(c, t, x).of = c
    BY <2>1 DEF Builders, OPERATIONS
  <2>3. Query(c, t, x) \in Texts \cup {NoQuery}
        /\ (Query(c, t, x) # NoQuery => Query(c, t, x).of = c)
    <3> HIDE DEF Deleting
    <3> QED BY <2>1, <2>2, GeneratedText
  <2> HIDE DEF Deleting, Query
  <2> QED BY <1>2, <2>2, <2>3 DEF Configs, BuiltFor
<1>3. ASSUME NEW c \in Dbs, saved = <<[query |-> Reading(c), builder |-> NoQuery], c>>
      PROVE  /\ saved[1] \in Configs /\ saved[2] \in Dbs \cup {NoDb}
             /\ saved[1].builder # NoQuery => BuiltFor(saved[1].builder, saved[2])
             /\ saved[1].query # NoQuery /\ saved[2] # NoDb
                  => saved[1].query.of = saved[2]
  <2>1. Reading(c) \in Texts /\ Reading(c).of = c
    BY DEF Texts
  <2> HIDE DEF Reading
  <2> QED BY <1>3, <2>1 DEF Configs
<1> HIDE DEF Deleting, Query, Reading
<1>4. \/ saved = <<[query |-> NoQuery, builder |-> NoQuery], NoDb>>
      \/ \E c \in Dbs : \E t \in TablesOf[c] : \E x \in ColumnsOf[t] :
           \/ saved = <<[query |-> Query(c, t, x), builder |-> Deleting(c, t, x)], c>>
           \/ saved = <<[query |-> Reading(c), builder |-> NoQuery], c>>
  <2> DEFINE Two(c, t, x) ==
        {<<[query |-> Query(c, t, x), builder |-> Deleting(c, t, x)], c>>,
         <<[query |-> Reading(c), builder |-> NoQuery], c>>}
  <2>1. Saved = {<<[query |-> NoQuery, builder |-> NoQuery], NoDb>>} \cup
          UNION {UNION {UNION {Two(c, t, x) : x \in ColumnsOf[t]} : t \in TablesOf[c]}
                 : c \in Dbs}
    BY DEF Saved, Query, Deleting, Reading
  <2>2. \A c, t, x : saved \in Two(c, t, x) =>
          \/ saved = <<[query |-> Query(c, t, x), builder |-> Deleting(c, t, x)], c>>
          \/ saved = <<[query |-> Reading(c), builder |-> NoQuery], c>>
    OBVIOUS
  <2> HIDE DEF Two
  <2> QED BY <2>1, <2>2
<1> QED BY <1>1, <1>2, <1>3, <1>4

LEMMA InitDb == DbInit => DbInv
<1> SUFFICES ASSUME DbInit PROVE DbInv
  OBVIOUS
<1> DEFINE f == Opened(config)
           slots == IF db = NoDb THEN {} ELSE Asking(f, {"tables", "columns"})
<1>1. config \in Configs /\ db \in Dbs \cup {NoDb}
      /\ (config.builder # NoQuery => BuiltFor(config.builder, db))
      /\ (config.query # NoQuery /\ db # NoDb => config.query.of = db)
  BY SavedStep DEF DbInit
<1>2. f \in Forms /\ f.columns = {} /\ f.rows = NoQuery
      /\ f.builder = IF config.builder # NoQuery THEN config.builder ELSE EMPTY_BUILDER
  BY <1>1, OpenedForm DEF Configs
<1>3. /\ form = [f EXCEPT !.tablesLoading = "tables" \in slots,
                          !.columnsLoading = "columns" \in slots]
      /\ calls = {Call(s, db, f.builder.table) : s \in slots}
      /\ since = {"metadata"} /\ edits = 0
  BY DEF DbInit
<1>4. ("tables" \in slots) \in BOOLEAN /\ ("columns" \in slots) \in BOOLEAN
  OBVIOUS
<1>5. slots \subseteq {"tables", "columns"} /\ (slots # {} => db \in Dbs)
  BY <1>1 DEF Asking
<1> HIDE DEF f, slots
<1>6. form \in Forms /\ form.builder = f.builder /\ form.columns = {} /\ form.rows = NoQuery
  BY <1>2, <1>3, <1>4 DEF Forms
<1>7. f.builder.table \in Tables \cup {NoTable}
  BY <1>2 DEF Forms, Builders
<1>8. calls \subseteq CallSet /\ \A c \in calls : c.slot # "test" /\ c.table = f.builder.table
  BY <1>3, <1>5, <1>7 DEF Call, CallSet
<1>9. DbTypeOK
  BY <1>1, <1>3, <1>6, <1>8 DEF DbTypeOK, Configs
<1>10. OfTheConnection
  BY <1>1, <1>2, <1>6, EmptyBuilder DEF OfTheConnection, BuiltFor
<1>11. TrialInv /\ AskedInv
  BY <1>6, <1>8 DEF TrialInv, AskedInv
<1>12. FormShowsWhatIs
  BY <1>3, <1>6, <1>8 DEF FormShowsWhatIs, NoStaleSqlTested, StoredIsShown,
                          RowsAreOfTheQuery, ColumnsAreOfTheTable
<1> QED BY <1>9, <1>10, <1>11, <1>12 DEF DbInv

-----------------------------------------------------------------------------
(* What steps have in common.                                              *)

\* An edit takes the rows away, and tells of itself where a trial runs.
LEMMA EditedStep ==
  ASSUME DbInv, form' \in Forms, form'.rows = NoQuery,
         form'.testRunning = form.testRunning, Edited(form) \subseteq since',
         \A k \in calls' : k.slot = "test" => k \in calls
  PROVE  TrialInv' /\ NoStaleSqlTested' /\ RowsAreOfTheQuery'
<1>1. TrialInv'
  BY DEF DbInv, TrialInv, Edited
<1>2. NoStaleSqlTested'
  BY DEF DbInv, FormShowsWhatIs, NoStaleSqlTested
<1> QED BY <1>1, <1>2 DEF RowsAreOfTheQuery

\* A step that leaves trial and rows alone says so where it changes the query.
LEMMA UnseenStep ==
  ASSUME DbInv, form'.rows \in {form.rows, NoQuery}, form'.testRunning = form.testRunning,
         \A k \in calls' : k.slot = "test" => k \in calls,
         since' \cap {"edit", "unseen"} = {} =>
           since \cap {"edit", "unseen"} = {} /\ Tried(form)' = Tried(form)
  PROVE  TrialInv' /\ NoStaleSqlTested' /\ RowsAreOfTheQuery'
<1>1. TrialInv'
  BY DEF DbInv, TrialInv
<1>2. NoStaleSqlTested'
  BY DEF DbInv, FormShowsWhatIs, NoStaleSqlTested
<1>3. RowsAreOfTheQuery'
  BY DEF DbInv, FormShowsWhatIs, RowsAreOfTheQuery
<1> QED BY <1>1, <1>2, <1>3

\* Columns that stay are still those of the table, if that stays.
LEMMA SameColumns ==
  ASSUME DbInv, form'.builder.table = form.builder.table,
         form'.columns \in {form.columns, {}},
         form'.columnsLoading = form.columnsLoading, form'.metaError = form.metaError
  PROVE  ColumnsAreOfTheTable'
BY DEF DbInv, FormShowsWhatIs, ColumnsAreOfTheTable

LEMMA InvParts ==
  ASSUME DbTypeOK', OfTheConnection', TrialInv', AskedInv', NoStaleSqlTested',
         StoredIsShown', RowsAreOfTheQuery', ColumnsAreOfTheTable'
  PROVE  DbInv'
BY DEF DbInv, FormShowsWhatIs

-----------------------------------------------------------------------------
(* The user.                                                               *)

LEMMA ReopenStep == DbInv /\ Reopen => DbInv'
<1> SUFFICES ASSUME DbInv, Reopen PROVE DbInv'
  OBVIOUS
<1> DEFINE f == Opened(config)
<1>1. DbTypeOK /\ OfTheConnection
  BY DEF DbInv
<1>2. f \in Forms /\ f.columns = {} /\ f.rows = NoQuery
      /\ f.builder = IF config.builder # NoQuery THEN config.builder ELSE EMPTY_BUILDER
  BY <1>1, OpenedForm DEF DbTypeOK
<1>3. UNCHANGED <<config, db>> /\ since' = {"metadata"} /\ edits' \in Nat
  BY <1>1 DEF Reopen, Edit, DbTypeOK
<1> HIDE DEF f
<1>4. /\ form' \in Forms /\ form'.builder = f.builder /\ form'.columns = {}
      /\ form'.rows = NoQuery /\ calls' \subseteq CallSet
      /\ \A k \in calls' : k.slot # "test" /\ k.table = f.builder.table
  <2>1. CASE db = NoDb
    BY <1>2, <2>1 DEF Reopen, Open, f
  <2>2. CASE db # NoDb
    <3> DEFINE none == {}
               both == {"tables", "columns"}
    <3>1. Asks(f, none, db, both) /\ db \in Dbs
      BY <1>1, <2>2 DEF Reopen, Open, f, DbTypeOK
    <3>2. none \in SUBSET CallSet /\ both \in SUBSET {"tables", "columns"}
      OBVIOUS
    <3> HIDE DEF none, both
    <3>3. /\ form' \in Forms /\ form'.builder = f.builder /\ form'.rows = f.rows
          /\ form'.columns = IF f.builder.table = NoTable THEN {} ELSE f.columns
          /\ calls' \subseteq CallSet
          /\ \A k \in calls' : \/ k \in none
                               \/ k.slot \in both /\ k.table = f.builder.table
      BY <1>2, <3>1, <3>2, AskingForm
    <3> QED BY <1>2, <3>3 DEF none, both
  <2> QED BY <2>1, <2>2
<1>5. DbTypeOK'
  BY <1>1, <1>3, <1>4 DEF DbTypeOK
<1>6. OfTheConnection'
  BY <1>1, <1>2, <1>3, <1>4, EmptyBuilder DEF OfTheConnection, BuiltFor
<1>7. TrialInv' /\ AskedInv' /\ NoStaleSqlTested'
  BY <1>4 DEF TrialInv, AskedInv, NoStaleSqlTested
<1>8. StoredIsShown' /\ RowsAreOfTheQuery' /\ ColumnsAreOfTheTable'
  BY <1>3, <1>4 DEF StoredIsShown, RowsAreOfTheQuery, ColumnsAreOfTheTable
<1> QED BY <1>5, <1>6, <1>7, <1>8, InvParts

\* No connection any more: nothing is known of tables.
LEMMA UnselectStep == DbInv /\ SelectConnection(NoDb) => DbInv'
<1> SUFFICES ASSUME DbInv, SelectConnection(NoDb) PROVE DbInv'
  OBVIOUS
<1>1. DbTypeOK /\ OfTheConnection
  BY DEF DbInv
<1>2. /\ form' = [form EXCEPT !.tables = {}, !.columns = {}, !.unavailable = FALSE,
                              !.testUnavailable = FALSE]
      /\ calls' = Drop(calls, {"tables", "columns"})
      /\ since' = since \cup {"metadata", "unseen"}
      /\ UNCHANGED config /\ db' = NoDb /\ edits' \in Nat
  BY <1>1 DEF SelectConnection, Edit, DbTypeOK
<1>3. /\ form' \in Forms /\ form'.builder = form.builder /\ form'.columns = {}
      /\ form'.rows = form.rows /\ form'.testRunning = form.testRunning
  BY <1>1, <1>2 DEF Forms, DbTypeOK
<1>4. calls' \subseteq calls /\ \A k \in calls' : k.slot # "columns"
  BY <1>2 DEF Drop
<1>5. DbTypeOK'
  BY <1>1, <1>2, <1>3, <1>4 DEF DbTypeOK
<1>6. OfTheConnection'
  BY <1>1, <1>2, <1>3 DEF OfTheConnection, BuiltFor
<1>7. TrialInv' /\ NoStaleSqlTested' /\ RowsAreOfTheQuery'
  BY <1>2, <1>3, <1>4, UnseenStep
<1>8. AskedInv' /\ StoredIsShown' /\ ColumnsAreOfTheTable'
  BY <1>2, <1>3, <1>4 DEF AskedInv, StoredIsShown, ColumnsAreOfTheTable
<1> QED BY <1>5, <1>6, <1>7, <1>8, InvParts

\* Another connection: nothing stays of what was built for the one before.
LEMMA SelectStep ==
  ASSUME DbInv, NEW c \in Dbs, SelectConnection(c)
  PROVE  DbInv'
<1> DEFINE g == clearTestResults(form)
           cl == g.columnsLoading \/ form.builder.table # NoTable
           f == [g EXCEPT !.mode = "visual", !.builder = EMPTY_BUILDER,
                          !.unavailable = FALSE, !.testUnavailable = FALSE,
                          !.columnsLoading = cl]
<1>1. DbTypeOK /\ c # NoDb
  BY DbAssumption DEF DbInv
<1>2. g \in Forms /\ g.rows = NoQuery /\ g.testRunning = form.testRunning
  BY <1>1, ClearedForm DEF DbTypeOK
<1>3. /\ Asks(f, calls, c, {"tables", "columns"})
      /\ config' = [query |-> NoQuery, builder |-> EMPTY_BUILDER]
      /\ since' = Edited(form) /\ db' = c /\ edits' \in Nat
  BY <1>1 DEF SelectConnection, Edit, DbTypeOK, Fresh
<1>4. cl \in BOOLEAN
  OBVIOUS
<1> HIDE DEF g, cl
<1>5. f \in Forms /\ f.rows = NoQuery /\ f.testRunning = form.testRunning
      /\ f.mode = "visual" /\ f.builder = EMPTY_BUILDER
  BY <1>2, <1>4, EmptyBuilder DEF Forms
<1> HIDE DEF f
<1>6. \A slots \in SUBSET {"tables", "columns"} :
        Asks(f, calls, c, slots) =>
          /\ form' \in Forms /\ form'.builder = f.builder /\ form'.rows = f.rows
          /\ form'.testRunning = f.testRunning
          /\ form'.columns = IF f.builder.table = NoTable THEN {} ELSE f.columns
          /\ calls' \subseteq CallSet
          /\ \A k \in calls' : \/ k \in calls /\ k.slot \notin slots
                               \/ k.slot \in slots /\ k.table = f.builder.table
  BY <1>1, <1>5, AskingForm DEF DbTypeOK
<1>7. /\ form' \in Forms /\ form'.builder = EMPTY_BUILDER /\ form'.rows = NoQuery
      /\ form'.testRunning = form.testRunning /\ form'.columns = {}
      /\ calls' \subseteq CallSet
      /\ \A k \in calls' : \/ k \in calls /\ k.slot \notin {"tables", "columns"}
                           \/ k.slot \in {"tables", "columns"} /\ k.table = NoTable
  BY <1>3, <1>5, <1>6, EmptyBuilder
<1>8. DbTypeOK'
  BY <1>1, <1>3, <1>7, EmptyBuilder DEF DbTypeOK, Configs, Edited
<1>9. OfTheConnection'
  BY <1>3, <1>7, EmptyBuilder DEF OfTheConnection, BuiltFor
<1>10. TrialInv' /\ NoStaleSqlTested' /\ RowsAreOfTheQuery'
  BY <1>3, <1>7, EditedStep
<1>11. AskedInv'
  BY <1>7, EmptyBuilder DEF AskedInv
<1>12. StoredIsShown' /\ ColumnsAreOfTheTable'
  <2>1. sqlPreview(form') = NoQuery
    BY <1>7, EmptyBuilder, NoTableNoQuery
  <2>2. sqlPreview(form)' = sqlPreview(form')
    BY DEF sqlPreview, usingVisualPath
  <2> QED BY <1>3, <1>7, <2>1, <2>2 DEF StoredIsShown, ColumnsAreOfTheTable
<1> QED BY <1>8, <1>9, <1>10, <1>11, <1>12, InvParts

\* The builder of another edit: its query is stored as the form makes it.
LEMMA BuilderStep ==
  ASSUME DbInv, Edit, NEW b \in Builders, updateBuilder(b), BuiltFor(b, db),
         db = NoDb => b.table = form.builder.table
  PROVE  DbInv'
<1> DEFINE g == clearTestResults(form)
           f == [g EXCEPT !.builder = b]
<1>1. DbTypeOK /\ form \in Forms
  BY DEF DbInv, DbTypeOK
<1>2. /\ g \in Forms /\ g.rows = NoQuery /\ g.testRunning = form.testRunning
      /\ g.mode = form.mode /\ g.tables = form.tables /\ g.columns = form.columns
      /\ g.unavailable = form.unavailable
      /\ g.columnsLoading = form.columnsLoading /\ g.metaError = form.metaError
  BY <1>1, ClearedForm
<1>3. /\ config' = [query |-> generateSql(b, form.tables, form.columns), builder |-> b]
      /\ since' = Edited(form) /\ UNCHANGED db /\ usingVisualPath(form)
      /\ IF b.table = form.builder.table \/ db = NoDb
           THEN form' = f /\ UNCHANGED calls
           ELSE Asks(f, calls, db, {"columns"})
  BY DEF updateBuilder, pushBuilderToConfig
<1> HIDE DEF g
<1>4. /\ f \in Forms /\ f.rows = NoQuery /\ f.testRunning = form.testRunning
      /\ f.mode = form.mode /\ f.builder = b /\ f.tables = form.tables
      /\ f.columns = form.columns /\ f.unavailable = form.unavailable
      /\ f.columnsLoading = form.columnsLoading /\ f.metaError = form.metaError
  BY <1>2 DEF Forms
<1> HIDE DEF f
<1>5. generateSql(b, form.tables, form.columns) \in Texts \cup {NoQuery}
      /\ (b.table \notin form.tables => generateSql(b, form.tables, form.columns) = NoQuery)
      /\ (generateSql(b, form.tables, form.columns) # NoQuery =>
            generateSql(b, form.tables, form.columns).of = b.of /\ b.table \in form.tables)
  <2>1. form.tables \in SUBSET Tables /\ form.columns \in SUBSET Columns
    BY <1>1 DEF Forms
  <2> QED BY <2>1, GeneratedText
<1>6. NoTable \notin form.tables
  BY <1>1, TableAssumption DEF Forms, Tables
<1>7. /\ form' \in Forms /\ form'.rows = NoQuery /\ form'.testRunning = form.testRunning
      /\ form'.mode = form.mode /\ form'.builder = b /\ form'.tables = form.tables
      /\ form'.unavailable = form.unavailable
      /\ form'.columns = form.columns \/ (b.table = NoTable /\ form'.columns = {})
      /\ calls' \subseteq CallSet
      /\ \A k \in calls' : k.slot = "test" => k \in calls
      /\ \A k \in calls' : k.slot = "columns" => k.table = b.table
      /\ ColumnsAreOfTheTable'
  <2>1. CASE b.table = form.builder.table \/ db = NoDb
    <3>1. b.table = form.builder.table /\ form' = f /\ UNCHANGED calls
      BY <1>3, <2>1
    <3>2. ColumnsAreOfTheTable'
      BY <1>4, <3>1, SameColumns
    <3> QED BY <1>1, <1>4, <3>1, <3>2 DEF DbInv, DbTypeOK, AskedInv
  <2>2. CASE ~ (b.table = form.builder.table \/ db = NoDb)
    <3> DEFINE own == {"columns"}
    <3>1. Asks(f, calls, db, own) /\ db \in Dbs
      BY <1>1, <1>3, <2>2 DEF DbTypeOK
    <3>2. own \in SUBSET {"tables", "columns"} /\ calls \in SUBSET CallSet
      BY <1>1 DEF DbTypeOK
    <3> HIDE DEF own
    <3>3. /\ form' \in Forms /\ form'.rows = f.rows /\ form'.testRunning = f.testRunning
          /\ form'.mode = f.mode /\ form'.builder = f.builder /\ form'.tables = f.tables
          /\ form'.unavailable = f.unavailable
          /\ form'.columns = IF f.builder.table = NoTable THEN {} ELSE f.columns
          /\ "columns" \in own /\ f.builder.table # NoTable => form'.columnsLoading
          /\ calls' \subseteq CallSet
          /\ \A k \in calls' : \/ k \in calls /\ k.slot \notin own
                               \/ k.slot \in own /\ k.table = f.builder.table
      <4>1. f \in Forms
        BY <1>4
      <4> QED BY ONLY <3>1, <3>2, <4>1, AskingForm
    <3>4. ColumnsAreOfTheTable'
      BY <3>3 DEF ColumnsAreOfTheTable, own
    <3> QED BY <1>4, <3>3, <3>4 DEF own
  <2> QED BY <2>1, <2>2
<1>8. DbTypeOK'
  BY <1>1, <1>3, <1>5, <1>7 DEF DbTypeOK, Configs, Edited, Edit
<1>9. OfTheConnection'
  <2>1. b.table \in form.tables => b.table # NoTable
    BY <1>6
  <2> QED BY <1>3, <1>5, <1>7, <2>1 DEF OfTheConnection, BuiltFor
<1>10. TrialInv' /\ NoStaleSqlTested' /\ RowsAreOfTheQuery'
  BY <1>3, <1>7, EditedStep
<1>11. AskedInv'
  BY <1>7 DEF AskedInv
<1>12. StoredIsShown'
  <2>1. sqlPreview(form)' = generateSql(b, form.tables, form'.columns)
    BY <1>3, <1>7 DEF sqlPreview, usingVisualPath
  <2>2. CASE form'.columns = form.columns
    BY <1>3, <2>1, <2>2 DEF StoredIsShown
  <2>3. CASE b.table = NoTable
    <3>1. form'.columns \in SUBSET Columns /\ form.tables \in SUBSET Tables
      BY <1>1, <1>7 DEF Forms
    <3>2. generateSql(b, form.tables, form'.columns) = NoQuery
      BY <1>6, <2>3, <3>1, GeneratedText
    <3> QED BY <1>3, <1>5, <1>6, <2>1, <2>3, <3>2 DEF StoredIsShown
  <2> QED BY <1>7, <2>2, <2>3
<1> QED BY <1>7, <1>8, <1>9, <1>10, <1>11, <1>12, InvParts

LEMMA VisualStep ==
  ASSUME DbInv,
         \/ \E op \in OPERATIONS : PickOperation(op)
         \/ \E t \in Tables \cup {NoTable} : PickTable(t)
         \/ \E x \in UNION {ColumnsOf[t] : t \in Tables} : EditFilter(x) \/ EditSetValue(x)
  PROVE  DbInv'
<1>1. /\ form.builder \in Builders /\ form.columns \subseteq Columns
      /\ BuiltFor(form.builder, db)
  BY DEF DbInv, DbTypeOK, OfTheConnection, Forms
<1>2. ASSUME NEW op \in OPERATIONS, PickOperation(op) PROVE DbInv'
  <2> DEFINE b == IF op = form.builder.operation THEN form.builder
                  ELSE [form.builder EXCEPT !.operation = op, !.filters = {},
                                            !.setValues = {}]
  <2>1. b \in Builders /\ b.table = form.builder.table /\ b.of = form.builder.of
    BY <1>1 DEF Builders
  <2>2. updateBuilder(b) /\ Edit
    BY <1>2 DEF PickOperation
  <2> HIDE DEF b
  <2>3. BuiltFor(b, db)
    BY <1>1, <2>1 DEF BuiltFor
  <2> QED BY <2>1, <2>2, <2>3, BuilderStep
<1>3. ASSUME NEW t \in Tables \cup {NoTable}, PickTable(t) PROVE DbInv'
  <2> DEFINE b == [form.builder EXCEPT !.table = t, !.filters = {}, !.setValues = {},
                                       !.of = db]
  <2>1. db \in Dbs \cup {NoDb} /\ db # NoDb
    BY <1>3 DEF PickTable, DbInv, DbTypeOK
  <2>2. b \in Builders /\ b.of = db
    BY <1>1, <2>1 DEF Builders
  <2>3. updateBuilder(b) /\ Edit
    BY <1>3 DEF PickTable
  <2> HIDE DEF b
  <2>4. BuiltFor(b, db)
    BY <2>2 DEF BuiltFor
  <2> QED BY <2>1, <2>2, <2>3, <2>4, BuilderStep
<1>4. ASSUME NEW x \in UNION {ColumnsOf[t] : t \in Tables}, EditFilter(x) PROVE DbInv'
  <2> DEFINE kept == IF x \in form.builder.filters THEN form.builder.filters \ {x}
                     ELSE form.builder.filters \cup {x}
             b == [form.builder EXCEPT !.filters = kept]
  <2>1. kept \in SUBSET Columns
    BY <1>1 DEF Builders, Columns
  <2>2. updateBuilder(b) /\ Edit
    BY <1>4 DEF EditFilter
  <2> HIDE DEF kept
  <2>3. b \in Builders /\ b.table = form.builder.table /\ b.of = form.builder.of
    BY <1>1, <2>1 DEF Builders
  <2> HIDE DEF b
  <2>4. BuiltFor(b, db)
    BY <1>1, <2>3 DEF BuiltFor
  <2> QED BY <2>2, <2>3, <2>4, BuilderStep
<1>5. ASSUME NEW x \in UNION {ColumnsOf[t] : t \in Tables}, EditSetValue(x) PROVE DbInv'
  <2> DEFINE kept == IF x \in form.builder.setValues THEN form.builder.setValues \ {x}
                     ELSE form.builder.setValues \cup {x}
             b == [form.builder EXCEPT !.setValues = kept]
  <2>1. kept \in SUBSET Columns
    BY <1>1 DEF Builders, Columns
  <2>2. updateBuilder(b) /\ Edit
    BY <1>5 DEF EditSetValue
  <2> HIDE DEF kept
  <2>3. b \in Builders /\ b.table = form.builder.table /\ b.of = form.builder.of
    BY <1>1, <2>1 DEF Builders
  <2> HIDE DEF b
  <2>4. BuiltFor(b, db)
    BY <1>1, <2>3 DEF BuiltFor
  <2> QED BY <2>2, <2>3, <2>4, BuilderStep
<1> QED BY <1>2, <1>3, <1>4, <1>5

\* A query for the connection there is.
MayStand(q) == q \in Texts \cup {NoQuery} /\ (q # NoQuery /\ db # NoDb => q.of = db)

LEMMA QueriesMayStand ==
  ASSUME DbInv, NEW q \in Queries \cup {config.query}
  PROVE  MayStand(q)
<1>1. MayStand(config.query) /\ MayStand(NoQuery)
  BY DEF DbInv, DbTypeOK, Configs, OfTheConnection, MayStand
<1>2. ASSUME NEW k \in {"read", "mutation", "other"} PROVE MayStand(Written(k))
  BY DEF DbInv, DbTypeOK, Texts, Written, MayStand
<1> QED BY <1>1, <1>2 DEF Queries

\* The user writes the query: the form no longer shows one of its own.
LEMMA RawStep ==
  ASSUME DbInv, Edit, NEW q, MayStand(q), ToRaw(q), NEW e \in BOOLEAN,
         form' = [clearTestResults(form) EXCEPT !.mode = "raw", !.paramsError = e]
  PROVE  DbInv'
<1> DEFINE g == clearTestResults(form)
<1>1. DbTypeOK /\ form \in Forms
  BY DEF DbInv, DbTypeOK
<1>2. /\ g \in Forms /\ g.rows = NoQuery /\ g.testRunning = form.testRunning
      /\ g.builder = form.builder /\ g.columns = form.columns
      /\ g.columnsLoading = form.columnsLoading /\ g.metaError = form.metaError
  BY <1>1, ClearedForm
<1> HIDE DEF g
<1>3. form' = [g EXCEPT !.mode = "raw", !.paramsError = e]
  BY DEF g
<1>4. /\ form' \in Forms /\ form'.rows = NoQuery /\ form'.testRunning = form.testRunning
      /\ form'.builder = form.builder /\ form'.columns = form.columns
      /\ form'.columnsLoading = form.columnsLoading /\ form'.metaError = form.metaError
      /\ form'.mode = "raw"
  BY <1>2, <1>3 DEF Forms
<1>5. /\ config' = [query |-> q, builder |-> NoQuery] /\ since' = Edited(form)
      /\ UNCHANGED <<db, calls>> /\ edits' \in Nat
  BY <1>1 DEF ToRaw, Edit, DbTypeOK
<1>6. DbTypeOK'
  BY <1>1, <1>4, <1>5 DEF DbTypeOK, Configs, MayStand, Edited
<1>7. OfTheConnection'
  BY <1>4, <1>5 DEF DbInv, OfTheConnection, MayStand
<1>8. TrialInv' /\ NoStaleSqlTested' /\ RowsAreOfTheQuery'
  BY <1>4, <1>5, EditedStep
<1>9. AskedInv' /\ StoredIsShown'
  BY <1>4, <1>5 DEF DbInv, AskedInv, StoredIsShown, usingVisualPath
<1>10. ColumnsAreOfTheTable'
  BY <1>4, SameColumns
<1> QED BY <1>6, <1>7, <1>8, <1>9, <1>10, InvParts

LEMMA WritingStep ==
  ASSUME DbInv,
         \/ switchToRawEditing
         \/ \E q \in Queries : handleQueryChange(q)
         \/ \E valid \in BOOLEAN : handleParamsChange(valid)
  PROVE  DbInv'
<1> DEFINE g == clearTestResults(form)
<1>1. g \in Forms
  BY ClearedForm DEF DbInv, DbTypeOK
<1> HIDE DEF g
<1>2. [g EXCEPT !.mode = "raw"] = [g EXCEPT !.mode = "raw", !.paramsError = g.paramsError]
      /\ g.paramsError \in BOOLEAN
  BY <1>1 DEF Forms
<1>3. CASE switchToRawEditing
  <2>1. MayStand(config.query)
    BY QueriesMayStand
  <2> QED BY <1>2, <1>3, <2>1, RawStep DEF switchToRawEditing, g
<1>4. ASSUME NEW q \in Queries, handleQueryChange(q) PROVE DbInv'
  <2>1. MayStand(q)
    BY QueriesMayStand
  <2> QED BY <1>2, <1>4, <2>1, RawStep DEF handleQueryChange, g
<1>5. ASSUME NEW valid \in BOOLEAN, handleParamsChange(valid) PROVE DbInv'
  <2>1. MayStand(config.query) /\ (~ valid) \in BOOLEAN
    BY QueriesMayStand
  <2> QED BY <1>5, <2>1, RawStep DEF handleParamsChange
<1> QED BY <1>3, <1>4, <1>5

\* The step as JSON.
LEMMA JsonStep ==
  ASSUME DbInv, NEW q \in Queries \cup {config.query}, NEW keep \in BOOLEAN,
         EditJson(q, keep)
  PROVE  DbInv'
<1> DEFINE g == clearTestResults(form)
           mode == IF keep \/ q = NoQuery THEN "visual" ELSE "raw"
           builder == IF keep THEN config.builder ELSE NoQuery
<1>1. DbTypeOK /\ form \in Forms /\ MayStand(q) /\ OfTheConnection
  BY QueriesMayStand DEF DbInv, DbTypeOK
<1>2. /\ g \in Forms /\ g.rows = NoQuery /\ g.testRunning = form.testRunning
      /\ g.builder = form.builder /\ g.columns = form.columns
      /\ g.columnsLoading = form.columnsLoading /\ g.metaError = form.metaError
  BY <1>1, ClearedForm
<1>3. /\ config' = [query |-> q, builder |-> builder]
      /\ since' = Edited(form) \cup {"metadata", "unseen"}
      /\ UNCHANGED <<db, calls>> /\ edits' \in Nat
      /\ form' = IF config.builder = NoQuery THEN form ELSE [g EXCEPT !.mode = mode]
  BY <1>1 DEF EditJson, Edit, DbTypeOK
<1>4. builder \in {config.builder, NoQuery} /\ mode \in {"visual", "raw"}
  OBVIOUS
<1> HIDE DEF g, mode, builder
<1>5. /\ form' \in Forms /\ form'.rows \in {form.rows, NoQuery}
      /\ form'.testRunning = form.testRunning
      /\ form'.builder = form.builder /\ form'.columns = form.columns
      /\ form'.columnsLoading = form.columnsLoading /\ form'.metaError = form.metaError
  BY <1>1, <1>2, <1>3, <1>4 DEF Forms
<1>6. DbTypeOK'
  BY <1>1, <1>3, <1>4, <1>5 DEF DbTypeOK, Configs, MayStand, Edited
<1>7. OfTheConnection'
  BY <1>1, <1>3, <1>4, <1>5 DEF OfTheConnection, MayStand
<1>8. TrialInv' /\ NoStaleSqlTested' /\ RowsAreOfTheQuery'
  BY <1>3, <1>5, UnseenStep
<1>9. AskedInv' /\ StoredIsShown'
  BY <1>3, <1>5 DEF DbInv, AskedInv, StoredIsShown
<1>10. ColumnsAreOfTheTable'
  BY <1>5, SameColumns
<1> QED BY <1>6, <1>7, <1>8, <1>9, <1>10, InvParts

\* Another language: both effects run again.
LEMMA LanguageStep == DbInv /\ SwitchLanguage => DbInv'
<1> SUFFICES ASSUME DbInv, SwitchLanguage PROVE DbInv'
  OBVIOUS
<1> DEFINE f == [form EXCEPT !.unavailable = FALSE]
           both == {"tables", "columns"}
<1>1. DbTypeOK /\ form \in Forms /\ db \in Dbs
  BY DEF DbInv, DbTypeOK, SwitchLanguage
<1>2. /\ f \in Forms /\ f.mode = form.mode /\ f.builder = form.builder
      /\ f.tables = form.tables /\ f.columns = form.columns /\ f.rows = form.rows
      /\ f.testRunning = form.testRunning /\ f.unavailable = FALSE
  BY <1>1 DEF Forms
<1>3. /\ Asks(f, calls, db, both) /\ UNCHANGED <<config, db>> /\ edits' \in Nat
      /\ since' = since \cup IF form.unavailable THEN {"metadata", "unseen"} ELSE {}
  BY <1>1 DEF SwitchLanguage, Edit, DbTypeOK
<1>4. both \in SUBSET {"tables", "columns"} /\ calls \in SUBSET CallSet
  BY <1>1 DEF DbTypeOK
<1> HIDE DEF f, both
<1>5. /\ form' \in Forms /\ form'.mode = f.mode /\ form'.builder = f.builder
      /\ form'.tables = f.tables /\ form'.unavailable = f.unavailable
      /\ form'.rows = f.rows /\ form'.testRunning = f.testRunning
      /\ form'.columns = IF f.builder.table = NoTable THEN {} ELSE f.columns
      /\ "columns" \in both /\ f.builder.table # NoTable => form'.columnsLoading
      /\ calls' \subseteq CallSet
      /\ \A k \in calls' : \/ k \in calls /\ k.slot \notin both
                           \/ k.slot \in both /\ k.table = f.builder.table
  <2>1. f \in Forms /\ db \in Dbs
    BY <1>1, <1>2
  <2> QED BY ONLY <1>3, <1>4, <2>1, AskingForm
<1>6. ASSUME ~ form.unavailable
      PROVE  Tried(form)' = Tried(form) /\ sqlPreview(form)' = sqlPreview(form)
             /\ (usingVisualPath(form)' <=> usingVisualPath(form))
  <2>1. CASE form.builder.table # NoTable
    BY <1>2, <1>3, <1>5, <1>6, <2>1 DEF Tried, usingVisualPath, sqlPreview
  <2>2. CASE form.builder.table = NoTable
    <3>1. sqlPreview(form) = NoQuery
      BY <1>1, <2>2, NoTableNoQuery
    <3>2. sqlPreview(form') = NoQuery
      BY <1>2, <1>5, <2>2, NoTableNoQuery
    <3>3. sqlPreview(form)' = sqlPreview(form')
      BY DEF sqlPreview, usingVisualPath
    <3>4. usingVisualPath(form)' <=> usingVisualPath(form)
      BY <1>2, <1>5, <1>6 DEF usingVisualPath
    <3>5. Tried(form)' = IF usingVisualPath(form)' THEN sqlPreview(form)' ELSE config'.query
      BY DEF Tried
    <3> QED BY <1>3, <3>1, <3>2, <3>3, <3>4, <3>5 DEF Tried
  <2> QED BY <2>1, <2>2
<1>7. DbTypeOK'
  BY <1>1, <1>3, <1>5 DEF DbTypeOK
<1>8. OfTheConnection'
  BY <1>2, <1>3, <1>5 DEF DbInv, OfTheConnection
<1>9. TrialInv' /\ NoStaleSqlTested' /\ RowsAreOfTheQuery'
  BY <1>2, <1>3, <1>5, <1>6, UnseenStep DEF both
<1>10. AskedInv'
  BY <1>5 DEF AskedInv, both
<1>11. StoredIsShown'
  BY <1>3, <1>6 DEF DbInv, FormShowsWhatIs, StoredIsShown
<1>12. ColumnsAreOfTheTable'
  BY <1>5 DEF ColumnsAreOfTheTable, both
<1> QED BY <1>7, <1>8, <1>9, <1>10, <1>11, <1>12, InvParts

\* What runs on trial is for the connection there is.
LEMMA TriedIsOfThis ==
  ASSUME DbInv, db # NoDb, Tried(form) # NoQuery
  PROVE  Tried(form) \in Texts /\ Tried(form).of = db
<1>1. /\ form.builder \in Builders /\ form.tables \in SUBSET Tables
      /\ form.columns \in SUBSET Columns /\ config \in Configs
      /\ OfTheConnection
  BY DEF DbInv, DbTypeOK, Forms
<1>2. CASE usingVisualPath(form)
  <2>1. Tried(form) = generateSql(form.builder, form.tables, form.columns)
    BY <1>2 DEF Tried, sqlPreview
  <2>2. Tried(form) \in Texts /\ Tried(form).of = form.builder.of
        /\ form.builder.table \in form.tables
    BY <1>1, <2>1, GeneratedText
  <2>3. form.builder.table # NoTable
    BY <1>1, <2>2, TableAssumption DEF Tables
  <2> QED BY <1>1, <2>2, <2>3 DEF OfTheConnection, BuiltFor
<1>3. CASE ~ usingVisualPath(form)
  BY <1>1, <1>3 DEF Tried, OfTheConnection, Configs
<1> QED BY <1>2, <1>3

LEMMA TestStep == DbInv /\ handleTest => DbInv'
<1> SUFFICES ASSUME DbInv, handleTest PROVE DbInv'
  OBVIOUS
<1> DEFINE g == clearTestResults(form)
           k == [Call("test", db, NoTable) EXCEPT !.query = Tried(form)]
<1>1. DbTypeOK /\ form \in Forms /\ db \in Dbs /\ db # NoDb
  BY DEF DbInv, DbTypeOK, handleTest
<1>2. ~ form.testRunning /\ Tried(form) # NoQuery
  BY DEF handleTest, testDisabled
<1>3. Tried(form) \in Texts /\ Tried(form).of = db
  BY <1>1, <1>2, TriedIsOfThis
<1>4. k \in CallSet /\ k.slot = "test" /\ k.db = db /\ k.query = Tried(form)
  BY <1>1, <1>3 DEF Call, CallSet
<1>5. /\ g \in Forms /\ g.rows = NoQuery /\ g.mode = form.mode
      /\ g.builder = form.builder /\ g.tables = form.tables /\ g.columns = form.columns
      /\ g.unavailable = form.unavailable
      /\ g.columnsLoading = form.columnsLoading /\ g.metaError = form.metaError
  BY <1>1, ClearedForm
<1>6. /\ form' = [g EXCEPT !.testRunning = TRUE, !.testUnavailable = FALSE]
      /\ calls' = calls \cup {k} /\ since' = since \ {"edit", "unseen"}
      /\ UNCHANGED <<config, db>> /\ edits' \in Nat
  BY <1>1 DEF handleTest, Edit, DbTypeOK
<1> HIDE DEF g, k
<1>7. /\ form' \in Forms /\ form'.rows = NoQuery /\ form'.mode = form.mode
      /\ form'.builder = form.builder /\ form'.tables = form.tables
      /\ form'.columns = form.columns /\ form'.unavailable = form.unavailable
      /\ form'.columnsLoading = form.columnsLoading /\ form'.metaError = form.metaError
      /\ form'.testRunning
  BY <1>5, <1>6 DEF Forms
<1>8. Tried(form)' = Tried(form) /\ sqlPreview(form)' = sqlPreview(form)
      /\ (usingVisualPath(form)' <=> usingVisualPath(form))
  BY <1>6, <1>7 DEF Tried, sqlPreview, usingVisualPath
<1>9. \A c \in calls' : c.slot = "test" => c = k
  BY <1>2, <1>6 DEF DbInv, TrialInv
<1>10. DbTypeOK'
  BY <1>1, <1>4, <1>6, <1>7 DEF DbTypeOK
<1>11. OfTheConnection'
  BY <1>6, <1>7 DEF DbInv, OfTheConnection
<1>12. TrialInv' /\ NoStaleSqlTested' /\ RowsAreOfTheQuery'
  BY <1>3, <1>4, <1>7, <1>8, <1>9 DEF TrialInv, NoStaleSqlTested, RowsAreOfTheQuery
<1>13. AskedInv' /\ StoredIsShown'
  BY <1>4, <1>6, <1>7, <1>8 DEF DbInv, AskedInv, FormShowsWhatIs, StoredIsShown
<1>14. ColumnsAreOfTheTable'
  BY <1>7, SameColumns
<1> QED BY <1>10, <1>11, <1>12, <1>13, <1>14, InvParts

-----------------------------------------------------------------------------
(* The answers.                                                            *)

\* An answer of an effect: what it moves, the form knows of.
LEMMA MetadataStep ==
  ASSUME DbInv, NEW c \in calls, c.slot # "test", NEW f \in Forms, Answer(c, f),
         edits' \in Nat, f.mode = form.mode, f.builder = form.builder,
         f.rows = form.rows, f.testRunning = form.testRunning, ColumnsAreOfTheTable'
  PROVE  DbInv'
<1>1. /\ calls' = calls \ {c} /\ form' = f /\ since' = since \cup Moved(f)
      /\ UNCHANGED <<config, db>>
  BY DEF Answer
<1>2. DbTypeOK /\ Moved(f) \subseteq {"metadata", "unseen"}
  BY DEF DbInv, Moved
<1>3. ASSUME since' \cap {"edit", "unseen"} = {} \/ "metadata" \notin since'
      PROVE  Tried(form)' = Tried(form) /\ sqlPreview(form)' = sqlPreview(form)
             /\ (usingVisualPath(form)' <=> usingVisualPath(form))
  <2>1. f.tables = form.tables /\ f.columns = form.columns
        /\ f.unavailable = form.unavailable
    BY <1>1, <1>3 DEF Moved
  <2> QED BY <1>1, <2>1 DEF Tried, sqlPreview, usingVisualPath
<1>4. DbTypeOK'
  BY <1>1, <1>2 DEF DbTypeOK
<1>5. OfTheConnection' /\ AskedInv'
  BY <1>1 DEF DbInv, OfTheConnection, AskedInv
<1>6. TrialInv' /\ NoStaleSqlTested' /\ RowsAreOfTheQuery'
  BY <1>1, <1>3, UnseenStep
<1>7. StoredIsShown'
  BY <1>1, <1>3 DEF DbInv, FormShowsWhatIs, StoredIsShown
<1> QED BY <1>4, <1>5, <1>6, <1>7, InvParts

LEMMA TablesStep ==
  ASSUME DbInv, NEW c \in calls, introspectTables(c)
  PROVE  DbInv'
<1> DEFINE f == [form EXCEPT !.tablesLoading = FALSE]
           told == [f EXCEPT !.tables = TablesOf[c.db], !.unavailable = FALSE]
           failed == [f EXCEPT !.metaError = TRUE]
           gone == [f EXCEPT !.tables = {}, !.columns = {}, !.unavailable = TRUE]
<1>1. DbTypeOK /\ form \in Forms /\ c.slot = "tables" /\ c.db \in Dbs
  BY DEF DbInv, DbTypeOK, introspectTables, CallSet
<1>2. f \in Forms /\ f.mode = form.mode /\ f.builder = form.builder
      /\ f.rows = form.rows /\ f.testRunning = form.testRunning
      /\ f.columns = form.columns /\ f.columnsLoading = form.columnsLoading
      /\ f.metaError = form.metaError
  BY <1>1 DEF Forms
<1>3. TablesOf[c.db] \in SUBSET Tables
  BY <1>1 DEF Tables
<1>4. \/ Answer(c, told) /\ UNCHANGED edits
      \/ Fails(c, failed)
      \/ Fails(c, gone)
  BY DEF introspectTables
<1> HIDE DEF f
<1>5. edits' \in Nat
  BY <1>1, <1>4 DEF Fails, Edit, DbTypeOK
<1>6. CASE Answer(c, told)
  <2>1. /\ told \in Forms /\ told.mode = form.mode /\ told.builder = form.builder
        /\ told.rows = form.rows /\ told.testRunning = form.testRunning
        /\ told.columns = form.columns /\ told.columnsLoading = form.columnsLoading
        /\ told.metaError = form.metaError
    BY <1>2, <1>3 DEF Forms
  <2>2. form' = told
    BY <1>6 DEF Answer
  <2> HIDE DEF told
  <2>3. ColumnsAreOfTheTable'
    BY <2>1, <2>2, SameColumns
  <2> QED BY <1>1, <1>5, <1>6, <2>1, <2>3, MetadataStep
<1>7. CASE Answer(c, failed)
  <2>1. /\ failed \in Forms /\ failed.mode = form.mode /\ failed.builder = form.builder
        /\ failed.rows = form.rows /\ failed.testRunning = form.testRunning
        /\ failed.metaError
    BY <1>2 DEF Forms
  <2>2. form' = failed
    BY <1>7 DEF Answer
  <2> HIDE DEF failed
  <2>3. ColumnsAreOfTheTable'
    BY <2>1, <2>2 DEF ColumnsAreOfTheTable
  <2> QED BY <1>1, <1>5, <1>7, <2>1, <2>3, MetadataStep
<1>8. CASE Answer(c, gone)
  <2>1. /\ gone \in Forms /\ gone.mode = form.mode /\ gone.builder = form.builder
        /\ gone.rows = form.rows /\ gone.testRunning = form.testRunning
        /\ gone.columns = {}
    BY <1>2 DEF Forms
  <2>2. form' = gone
    BY <1>8 DEF Answer
  <2> HIDE DEF gone
  <2>3. ColumnsAreOfTheTable'
    BY <2>1, <2>2 DEF ColumnsAreOfTheTable
  <2> QED BY <1>1, <1>5, <1>8, <2>1, <2>3, MetadataStep
<1> QED BY <1>4, <1>6, <1>7, <1>8 DEF Fails

LEMMA ColumnsStep ==
  ASSUME DbInv, NEW c \in calls, introspectColumns(c)
  PROVE  DbInv'
<1> DEFINE f == [form EXCEPT !.columnsLoading = FALSE]
           columns == IF c.table \in TablesOf[c.db] THEN ColumnsOf[c.table] ELSE {}
           told == [f EXCEPT !.columns = columns, !.unavailable = FALSE]
           failed == [f EXCEPT !.metaError = TRUE]
           gone == [f EXCEPT !.columns = {}, !.unavailable = TRUE]
<1>1. /\ DbTypeOK /\ form \in Forms /\ c.slot = "columns" /\ c.db \in Dbs
      /\ c.table = form.builder.table
  BY DEF DbInv, DbTypeOK, AskedInv, introspectColumns, CallSet
<1>2. f \in Forms /\ f.mode = form.mode /\ f.builder = form.builder
      /\ f.rows = form.rows /\ f.testRunning = form.testRunning
  BY <1>1 DEF Forms
<1>3. /\ columns \in SUBSET Columns
      /\ columns # {} => form.builder.table \in Tables
                         /\ columns = ColumnsOf[form.builder.table]
  BY <1>1 DEF Tables, Columns
<1>4. \/ Answer(c, told) /\ UNCHANGED edits
      \/ Fails(c, failed)
      \/ Fails(c, gone)
  BY DEF introspectColumns
<1> HIDE DEF f, columns
<1>5. edits' \in Nat
  BY <1>1, <1>4 DEF Fails, Edit, DbTypeOK
<1>6. CASE Answer(c, told)
  <2>1. /\ told \in Forms /\ told.mode = form.mode /\ told.builder = form.builder
        /\ told.rows = form.rows /\ told.testRunning = form.testRunning
        /\ told.columns = columns
    BY <1>2, <1>3 DEF Forms
  <2>2. form' = told
    BY <1>6 DEF Answer
  <2> HIDE DEF told
  <2>3. ColumnsAreOfTheTable'
    BY <1>3, <2>1, <2>2 DEF ColumnsAreOfTheTable
  <2> QED BY <1>1, <1>5, <1>6, <2>1, <2>3, MetadataStep
<1>7. CASE Answer(c, failed)
  <2>1. /\ failed \in Forms /\ failed.mode = form.mode /\ failed.builder = form.builder
        /\ failed.rows = form.rows /\ failed.testRunning = form.testRunning
        /\ failed.metaError
    BY <1>2 DEF Forms
  <2>2. form' = failed
    BY <1>7 DEF Answer
  <2> HIDE DEF failed
  <2>3. ColumnsAreOfTheTable'
    BY <2>1, <2>2 DEF ColumnsAreOfTheTable
  <2> QED BY <1>1, <1>5, <1>7, <2>1, <2>3, MetadataStep
<1>8. CASE Answer(c, gone)
  <2>1. /\ gone \in Forms /\ gone.mode = form.mode /\ gone.builder = form.builder
        /\ gone.rows = form.rows /\ gone.testRunning = form.testRunning
        /\ gone.columns = {}
    BY <1>2 DEF Forms
  <2>2. form' = gone
    BY <1>8 DEF Answer
  <2> HIDE DEF gone
  <2>3. ColumnsAreOfTheTable'
    BY <2>1, <2>2 DEF ColumnsAreOfTheTable
  <2> QED BY <1>1, <1>5, <1>8, <2>1, <2>3, MetadataStep
<1> QED BY <1>4, <1>6, <1>7, <1>8 DEF Fails

\* The trial ends: with its rows, which are of the query it ran.
LEMMA TrialStep ==
  ASSUME DbInv, NEW c \in calls, testDbQuery(c)
  PROVE  DbInv'
<1>1. /\ DbTypeOK /\ form \in Forms /\ c.slot = "test" /\ c \in CallSet
      /\ since \cap {"edit", "unseen"} = {} => c.query = Tried(form)
  BY DEF DbInv, DbTypeOK, TrialInv, testDbQuery
<1> DEFINE f == [form EXCEPT !.testRunning = FALSE]
<1>2. /\ f \in Forms /\ f.mode = form.mode /\ f.builder = form.builder
      /\ f.tables = form.tables /\ f.columns = form.columns
      /\ f.unavailable = form.unavailable /\ f.rows = form.rows
      /\ f.columnsLoading = form.columnsLoading /\ f.metaError = form.metaError
  BY <1>1 DEF Forms
<1>3. PICK h \in {[f EXCEPT !.rows = c.query], [f EXCEPT !.testError = TRUE],
                  [f EXCEPT !.testUnavailable = TRUE]} :
        Answer(c, h) /\ edits' \in Nat
  BY <1>1 DEF testDbQuery, Fails, Edit, DbTypeOK
<1> HIDE DEF f
<1>4. c.query \in Texts \cup {NoQuery}
  BY <1>1 DEF CallSet
<1>5. /\ h \in Forms /\ h.mode = form.mode /\ h.builder = form.builder
      /\ h.tables = form.tables /\ h.columns = form.columns
      /\ h.unavailable = form.unavailable /\ h.rows \in {form.rows, c.query}
      /\ h.columnsLoading = form.columnsLoading /\ h.metaError = form.metaError
  <2>1. CASE h = [f EXCEPT !.rows = c.query]
    BY <1>2, <1>4, <2>1 DEF Forms
  <2>2. CASE h = [f EXCEPT !.testError = TRUE]
    BY <1>2, <2>2 DEF Forms
  <2>3. CASE h = [f EXCEPT !.testUnavailable = TRUE]
    BY <1>2, <2>3 DEF Forms
  <2> QED BY <2>1, <2>2, <2>3
<1>6. /\ calls' = calls \ {c} /\ form' = h /\ since' = since
      /\ UNCHANGED <<config, db>>
  <2>1. Moved(h) = {}
    BY <1>5 DEF Moved
  <2> QED BY <1>3, <2>1 DEF Answer
<1>7. Tried(form)' = Tried(form) /\ sqlPreview(form)' = sqlPreview(form)
      /\ (usingVisualPath(form)' <=> usingVisualPath(form))
  BY <1>5, <1>6 DEF Tried, sqlPreview, usingVisualPath
<1>8. \A k \in calls' : k.slot # "test"
  BY <1>1, <1>6 DEF DbInv, TrialInv
<1>9. DbTypeOK'
  BY <1>1, <1>3, <1>5, <1>6 DEF DbTypeOK
<1>10. OfTheConnection' /\ AskedInv'
  BY <1>5, <1>6 DEF DbInv, OfTheConnection, AskedInv
<1>11. TrialInv' /\ NoStaleSqlTested'
  BY <1>8 DEF TrialInv, NoStaleSqlTested
<1>12. StoredIsShown' /\ RowsAreOfTheQuery'
  BY <1>1, <1>5, <1>6, <1>7 DEF DbInv, FormShowsWhatIs, StoredIsShown, RowsAreOfTheQuery
<1>13. ColumnsAreOfTheTable'
  BY <1>5, <1>6, SameColumns
<1> QED BY <1>3, <1>9, <1>10, <1>11, <1>12, <1>13, InvParts

-----------------------------------------------------------------------------
(* The result.                                                             *)

\* The inductive invariant of the form of a database step: requests, tables and
\* columns belong to the connection and the table chosen when they were asked for.
THEOREM DbInvariance == DbSpec => []DbInv
<1>1. DbInv /\ [DbNext]_dbVars => DbInv'
  <2>1. ASSUME DbInv, UNCHANGED dbVars PROVE DbInv'
    BY <2>1 DEF dbVars, DbInv, DbTypeOK, OfTheConnection, BuiltFor, TrialInv, AskedInv,
                Tried, sqlPreview, usingVisualPath, FormShowsWhatIs, NoStaleSqlTested,
                StoredIsShown, RowsAreOfTheQuery, ColumnsAreOfTheTable
  <2>2. ASSUME DbInv, DbUser PROVE DbInv'
    BY <2>2, ReopenStep, UnselectStep, SelectStep, VisualStep, WritingStep, JsonStep,
       LanguageStep, TestStep
    DEF DbUser
  <2>3. ASSUME DbInv, DbAnswers PROVE DbInv'
    BY <2>3, TablesStep, ColumnsStep, TrialStep DEF DbAnswers
  <2> QED BY <2>1, <2>2, <2>3 DEF DbNext
<1> QED BY <1>1, InitDb, PTL DEF DbSpec

\* What the form shows is what there is, for any databases, edits, trials and
\* answers: the stored query, the columns of the table, the rows of the trial,
\* and no trial runs on a connection it was not written for.
THEOREM FormIsTrue == DbSpec => []FormShowsWhatIs
<1>1. DbInv => FormShowsWhatIs
  BY DEF DbInv
<1> QED BY <1>1, DbInvariance, PTL

\* A set of naturals that is not empty has a least member.
LEMMA LeastOf ==
  ASSUME NEW K \in SUBSET Nat, K # {}
  PROVE  \E k \in K : \A j \in K : ~ (j < k)
<1>1. IsWellFoundedOn(OpToRel(<, Nat), Nat)
  BY NatLessThanWellFounded
<1>2. PICK k \in K : \A j \in K : <<j, k>> \notin OpToRel(<, Nat)
  BY <1>1, WFMin
<1> QED BY <1>2 DEF OpToRel

-----------------------------------------------------------------------------
(* LinearGraph: a graph, its edges and the walk along them.                *)

LEMMA Drawing ==
  ASSUME TypeOK
  PROVE  /\ IsFiniteSet(Nodes) /\ Steps \in Nat /\ NoNode \notin Nodes
         /\ Nodes \subseteq Ids
         /\ Len(edges) \in Nat /\ AllEdges = 1..Len(edges)
         /\ IsFiniteSet(AllEdges) /\ Cardinality(AllEdges) = Len(edges)
         /\ \A i \in AllEdges : edges[i] \in Edges
         /\ Nodes = Triggers \cup Actions /\ Triggers \cap Actions = {}
<1>1. Nodes \subseteq Ids /\ IsFiniteSet(Ids) /\ NoNode \notin Ids
  BY GraphAssumption DEF Nodes
<1>2. IsFiniteSet(Nodes) /\ Steps \in Nat
  BY <1>1, FS_Subset, FS_CardinalityType DEF Steps
<1>3. /\ Len(edges) \in Nat /\ AllEdges = 1..Len(edges)
      /\ \A i \in AllEdges : edges[i] \in Edges
  BY DEF TypeOK, AllEdges
<1>4. IsFiniteSet(AllEdges) /\ Cardinality(AllEdges) = Len(edges)
  <2>1. IsFiniteSet(1..Len(edges))
        /\ Cardinality(1..Len(edges)) = IF 1 > Len(edges) THEN 0 ELSE Len(edges) - 1 + 1
    <3>1. 1 \in Int /\ Len(edges) \in Int
      BY <1>3
    <3> QED BY <3>1, FS_Interval, Zenon
  <2> QED BY <1>3, <2>1
<1>5. Nodes = Triggers \cup Actions /\ Triggers \cap Actions = {}
  BY DEF TypeOK, Kinds, Nodes, Triggers, Actions
<1> QED BY <1>1, <1>2, <1>3, <1>4, <1>5

LEMMA OneTrigger ==
  ASSUME TypeOK, Cardinality(Triggers) = 1
  PROVE  Triggers = {Trigger} /\ Trigger \in Nodes
<1>1. IsFiniteSet(Triggers)
  BY Drawing, FS_Subset DEF Triggers
<1>2. PICK t : Triggers = {t}
  BY <1>1, FS_Singleton
<1> QED BY <1>2 DEF Trigger, Triggers

\* A set of edges that is counted as one at most, with an edge that is in it.
LEMMA OnlyEdge ==
  ASSUME TypeOK, NEW es \in SUBSET AllEdges, NEW i \in es, Cardinality(es) <= 1
  PROVE  es = {i}
<1>1. IsFiniteSet(es) /\ Cardinality(es) \in Nat
  BY Drawing, FS_Subset, FS_CardinalityType
<1>2. Cardinality(es) # 0
  BY <1>1, FS_EmptySet
<1>3. Cardinality(es) = 1
  BY <1>1, <1>2
<1>4. PICK j : es = {j}
  BY <1>1, <1>3, FS_Singleton
<1> QED BY <1>4

LEMMA OnlyOf ==
  ASSUME NEW i \in Int
  PROVE  Min({i}) = i /\ Max({i}) = i
BY DEF Min, Max

\* Where a walk goes from a node with one edge, and that it ends without any.
LEMMA Following ==
  ASSUME TypeOK, NEW n \in Nodes, NEW i, Outgoing(AllEdges, n) = {i}
  PROVE  /\ FollowFirst(AllEdges, n) = edges[i].target
         /\ kind[edges[i].target] = "action" => FollowLast(n) = edges[i].target
<1>1. i \in Int /\ n # NoNode
  BY Drawing DEF Outgoing
<1>2. Min({i}) = i /\ Max({i}) = i
  BY <1>1, OnlyOf
<1> QED BY <1>1, <1>2 DEF FollowFirst, FollowLast

LEMMA NotFollowing ==
  ASSUME NEW n, Outgoing(AllEdges, n) = {}
  PROVE  FollowFirst(AllEdges, n) = NoNode /\ FollowLast(n) = NoNode
BY DEF FollowFirst, FollowLast

IsWalk(f, es, n) ==
  f = [i \in 0..n |-> IF i = 0 THEN Trigger ELSE FollowFirst(es, f[i - 1])]

LEMMA WalkIsThere ==
  ASSUME NEW es, NEW n \in Nat
  PROVE  \E f : IsWalk(f, es, n)
<1> DEFINE Missing == {k \in Nat : ~ \E f : IsWalk(f, es, k)}
<1> SUFFICES ASSUME Missing # {} PROVE FALSE
  OBVIOUS
<1>1. PICK k \in Missing : \A j \in Missing : ~ (j < k)
  BY LeastOf
<1>2. k # 0
  <2> DEFINE f == [i \in 0..0 |-> Trigger]
  <2>1. IsWalk(f, es, 0)
    BY DEF IsWalk
  <2> QED BY <2>1
<1>3. PICK g : IsWalk(g, es, k - 1)
  <2>1. k - 1 \in Nat /\ k - 1 < k
    BY <1>2
  <2> QED BY <1>1, <2>1
<1> DEFINE f == [i \in 0..k |-> IF i = k THEN FollowFirst(es, g[k - 1]) ELSE g[i]]
<1>4. \A i \in 0..(k - 1) : g[i] = IF i = 0 THEN Trigger ELSE FollowFirst(es, g[i - 1])
  BY <1>3 DEF IsWalk
<1>5. \A i \in 0..k : f[i] = IF i = 0 THEN Trigger ELSE FollowFirst(es, f[i - 1])
  <2> SUFFICES ASSUME NEW i \in 0..k
      PROVE f[i] = IF i = 0 THEN Trigger ELSE FollowFirst(es, f[i - 1])
    OBVIOUS
  <2>1. CASE i = k
    <3>1. i - 1 = k - 1 /\ i - 1 \in 0..k /\ i - 1 # k
      BY <1>2, <2>1
    <3> QED BY <1>2, <2>1, <3>1
  <2>2. CASE i # k /\ i # 0
    <3>1. i - 1 \in 0..k /\ i - 1 # k /\ i \in 0..(k - 1)
      BY <2>2
    <3> QED BY <1>4, <2>2, <3>1
  <2>3. CASE i # k /\ i = 0
    <3>1. i \in 0..(k - 1)
      BY <1>2, <2>3
    <3> QED BY <1>4, <2>3, <3>1
  <2> QED BY <2>1, <2>2, <2>3
<1>6. IsWalk(f, es, k)
  BY <1>5 DEF IsWalk
<1> QED BY <1>6

LEMMA Walking ==
  ASSUME TypeOK, NEW es
  PROVE  /\ Walk(es)[0] = Trigger
         /\ \A i \in 1..Steps : Walk(es)[i] = FollowFirst(es, Walk(es)[i - 1])
<1>1. Steps \in Nat
  BY Drawing
<1>2. \E f : IsWalk(f, es, Steps)
  BY <1>1, WalkIsThere
<1>3. IsWalk(Walk(es), es, Steps)
  BY <1>2 DEF Walk, IsWalk
<1> DEFINE at == Walk(es)
<1>4. at = [i \in 0..Steps |-> IF i = 0 THEN Trigger ELSE FollowFirst(es, at[i - 1])]
  BY <1>3 DEF IsWalk
<1> HIDE DEF at
<1>5. at[0] = Trigger /\ \A i \in 1..Steps : at[i] = FollowFirst(es, at[i - 1])
  <2>1. 0 \in 0..Steps /\ \A i \in 1..Steps : i \in 0..Steps /\ i # 0
    BY <1>1
  <2> QED BY <1>4, <2>1
<1> QED BY <1>5 DEF at

-----------------------------------------------------------------------------
(* LinearGraph: what the api accepts is a chain.                           *)

LEMMA WalkInRow ==
  ASSUME TypeOK, ServerAccepts
  PROVE  /\ Steps > 1
         /\ Walk(AllEdges)[0] = Trigger /\ Walk(AllEdges)[Steps] = NoNode
         /\ \A i \in 0..Steps - 1 : Walk(AllEdges)[i] \in Nodes
         /\ \A i, j \in 0..Steps - 1 :
              Walk(AllEdges)[i] = Walk(AllEdges)[j] => i = j
         /\ \A n \in Nodes : \E i \in 0..Steps - 1 : Walk(AllEdges)[i] = n
<1> DEFINE at == Walk(AllEdges)
           S == 0..Steps - 1
           P == {i \in S : at[i] # NoNode}
           f == [i \in P |-> at[i]]
<1>1. Steps \in Nat /\ IsFiniteSet(Nodes) /\ NoNode \notin Nodes
  BY Drawing
<1>2. at[Steps] = NoNode /\ Reached(AllEdges) = Nodes
  BY DEF ServerAccepts, Cycles
<1>3. {at[i] : i \in 0..Steps} \ {NoNode} = Nodes
  BY <1>2 DEF Reached
<1>4. \A i \in P : at[i] \in Nodes
  BY <1>1, <1>3
<1>5. \A n \in Nodes : \E i \in P : at[i] = n
  <2> SUFFICES ASSUME NEW n \in Nodes PROVE \E i \in P : at[i] = n
    OBVIOUS
  <2>1. PICK i \in 0..Steps : at[i] = n
    BY <1>3
  <2>2. i \in P
    BY <1>1, <1>2, <2>1
  <2> QED BY <2>1, <2>2
<1>6. f \in Surjection(P, Nodes)
  <2>1. f \in [P -> Nodes]
    BY <1>4
  <2>2. \A n \in Nodes : \E i \in P : f[i] = n
    BY <1>5
  <2> QED BY <2>1, <2>2, Fun_IsSurj
<1>7. IsFiniteSet(S) /\ Cardinality(S) = Steps
  BY <1>1, FS_Interval
<1>8. /\ IsFiniteSet(P) /\ Cardinality(P) \in Nat /\ Cardinality(P) <= Steps
      /\ Cardinality(P) = Steps => P = S
  BY <1>7, FS_Subset, FS_CardinalityType
<1>9. /\ Steps <= Cardinality(P)
      /\ Steps = Cardinality(P) => f \in Injection(P, Nodes)
  BY <1>6, <1>8, FS_Surjection DEF Steps
<1>10. P = S /\ f \in Injection(P, Nodes)
  <2> HIDE DEF P, S, f
  <2>1. Cardinality(P) = Steps
    BY <1>1, <1>8, <1>9
  <2> QED BY <1>8, <1>9, <2>1
<1>11. \A i, j \in S : at[i] = at[j] => i = j
  <2>1. \A i, j \in P : f[i] = f[j] => i = j
    BY <1>10, Fun_InjectionProperties
  <2> QED BY <1>10, <2>1
<1>12. at[0] = Trigger /\ Trigger \in Nodes
  BY Walking, OneTrigger DEF ServerAccepts
<1>13. Steps > 1
  <2>1. Steps # 0
    BY <1>1, <1>12, FS_EmptySet DEF Steps
  <2>2. SUFFICES ASSUME Steps = 1 PROVE FALSE
    BY <1>1, <2>1
  <2>3. FollowFirst(AllEdges, Trigger) = NoNode
    BY <1>2, <1>12, <2>2, Walking
  <2>4. Cardinality(Outgoing(AllEdges, Trigger)) = 1
    BY DEF ServerAccepts
  <2>5. Outgoing(AllEdges, Trigger) # {}
    BY <2>4, FS_EmptySet
  <2>6. PICK i : i \in Outgoing(AllEdges, Trigger)
    BY <2>5
  <2>7. Outgoing(AllEdges, Trigger) = {i}
    BY <2>4, <2>6, OnlyEdge DEF Outgoing
  <2>8. edges[i].target = NoNode /\ edges[i].target \in Nodes
    BY <1>12, <2>3, <2>6, <2>7, Following DEF ServerAccepts, NoMissingNodes, Outgoing, AllEdges
  <2> QED BY <1>1, <2>8
<1> QED BY <1>2, <1>4, <1>5, <1>10, <1>11, <1>12, <1>13

\* The nodes that a walk comes through, as an order.
Order == [i \in 1..Steps |-> Walk(AllEdges)[i - 1]]

\* The edge between two neighbours of an order.
Between(o, i) == [source |-> o[i], target |-> o[i + 1]]

LEMMA RowIsOrder ==
  ASSUME TypeOK, ServerAccepts
  PROVE  /\ Order \in [1..Steps -> Nodes] /\ Order[1] = Trigger
         /\ \A i, j \in 1..Steps : Order[i] = Order[j] => i = j
         /\ \A n \in Nodes : \E i \in 1..Steps : Order[i] = n
         /\ \A i \in 1..Steps - 1 : Order[i + 1] = FollowFirst(AllEdges, Order[i])
         /\ FollowFirst(AllEdges, Order[Steps]) = NoNode
         /\ Steps \in Nat /\ Steps > 1
<1> DEFINE at == Walk(AllEdges)
<1>1. Steps \in Nat /\ Steps > 1
  BY Drawing, WalkInRow
<1>2. /\ at[0] = Trigger /\ at[Steps] = NoNode
      /\ \A i \in 0..Steps - 1 : at[i] \in Nodes
      /\ \A i, j \in 0..Steps - 1 : at[i] = at[j] => i = j
      /\ \A n \in Nodes : \E i \in 0..Steps - 1 : at[i] = n
      /\ \A i \in 1..Steps : at[i] = FollowFirst(AllEdges, at[i - 1])
  BY WalkInRow, Walking
<1> HIDE DEF at
<1>3. Order = [i \in 1..Steps |-> at[i - 1]]
  BY DEF Order, at
<1>4. \A i \in 1..Steps : Order[i] = at[i - 1] /\ i - 1 \in 0..Steps - 1
  BY <1>1, <1>3
<1>5. Order \in [1..Steps -> Nodes]
  BY <1>2, <1>3, <1>4
<1>6. Order[1] = Trigger
  BY <1>1, <1>2, <1>4
<1>7. \A i, j \in 1..Steps : Order[i] = Order[j] => i = j
  <2> SUFFICES ASSUME NEW i \in 1..Steps, NEW j \in 1..Steps, Order[i] = Order[j]
      PROVE i = j
    OBVIOUS
  <2>1. i - 1 = j - 1
    BY <1>2, <1>4
  <2> QED BY <2>1
<1>8. \A n \in Nodes : \E i \in 1..Steps : Order[i] = n
  <2> SUFFICES ASSUME NEW n \in Nodes PROVE \E i \in 1..Steps : Order[i] = n
    OBVIOUS
  <2>1. PICK i \in 0..Steps - 1 : at[i] = n
    BY <1>2
  <2>2. i + 1 \in 1..Steps /\ (i + 1) - 1 = i
    BY <1>1
  <2>3. Order[i + 1] = n
    BY <1>4, <2>1, <2>2
  <2> QED BY <2>2, <2>3
<1>9. \A i \in 1..Steps - 1 : Order[i + 1] = FollowFirst(AllEdges, Order[i])
  <2> SUFFICES ASSUME NEW i \in 1..Steps - 1
      PROVE Order[i + 1] = FollowFirst(AllEdges, Order[i])
    OBVIOUS
  <2>1. i \in 1..Steps /\ i + 1 \in 1..Steps /\ (i + 1) - 1 = i
    BY <1>1
  <2>2. Order[i + 1] = at[i] /\ Order[i] = at[i - 1]
    BY <1>4, <2>1
  <2> QED BY <1>2, <2>1, <2>2
<1>10. FollowFirst(AllEdges, Order[Steps]) = NoNode
  <2>1. Steps \in 1..Steps
    BY <1>1
  <2> QED BY <1>2, <1>4, <2>1
<1> QED BY <1>1, <1>5, <1>6, <1>7, <1>8, <1>9, <1>10

\* Every node of an accepted graph has one outgoing edge at most.
LEMMA OneOutgoing ==
  ASSUME TypeOK, ServerAccepts, NEW n \in Nodes, NEW i \in Outgoing(AllEdges, n)
  PROVE  Outgoing(AllEdges, n) = {i}
<1>1. Cardinality(Outgoing(AllEdges, n)) <= 1
  <2>1. n = Trigger \/ n \in Actions
    BY Drawing, OneTrigger DEF ServerAccepts
  <2> QED BY <2>1 DEF ServerAccepts, LinearDegrees
<1> QED BY <1>1, OnlyEdge DEF Outgoing

LEMMA EdgeIs ==
  ASSUME TypeOK, NEW j \in AllEdges
  PROVE  edges[j] = [source |-> edges[j].source, target |-> edges[j].target]
BY Drawing DEF Edges

LEMMA OrderIsDrawn ==
  ASSUME TypeOK, ServerAccepts
  PROVE  /\ \A i \in 1..Steps - 1 : \E j \in AllEdges : edges[j] = Between(Order, i)
         /\ \A j \in AllEdges : \E i \in 1..Steps - 1 : edges[j] = Between(Order, i)
<1>1. /\ Order \in [1..Steps -> Nodes] /\ Steps \in Nat /\ Steps > 1
      /\ \A n \in Nodes : \E i \in 1..Steps : Order[i] = n
      /\ \A i \in 1..Steps - 1 : Order[i + 1] = FollowFirst(AllEdges, Order[i])
      /\ FollowFirst(AllEdges, Order[Steps]) = NoNode
      /\ NoNode \notin Nodes
  BY RowIsOrder, Drawing
<1>2. ASSUME NEW i \in 1..Steps - 1
      PROVE  \E j \in AllEdges : edges[j] = Between(Order, i)
  <2>1. i \in 1..Steps /\ i + 1 \in 1..Steps
    BY <1>1
  <2>2. Order[i] \in Nodes /\ Order[i + 1] \in Nodes
    BY <1>1, <2>1
  <2>3. Outgoing(AllEdges, Order[i]) # {}
    BY <1>1, <2>2, NotFollowing
  <2>4. PICK j : j \in Outgoing(AllEdges, Order[i])
    BY <2>3
  <2>5. edges[j].target = Order[i + 1]
    BY <1>1, <2>2, <2>4, OneOutgoing, Following
  <2>6. j \in AllEdges /\ edges[j].source = Order[i]
    BY <2>4 DEF Outgoing
  <2> QED BY <2>5, <2>6, EdgeIs DEF Between
<1>3. ASSUME NEW j \in AllEdges
      PROVE  \E i \in 1..Steps - 1 : edges[j] = Between(Order, i)
  <2>1. edges[j].source \in Nodes /\ edges[j].target \in Nodes
    BY DEF ServerAccepts, NoMissingNodes, AllEdges
  <2>2. PICK i \in 1..Steps : Order[i] = edges[j].source
    BY <1>1, <2>1
  <2>3. j \in Outgoing(AllEdges, Order[i])
    BY <2>2 DEF Outgoing
  <2>4. FollowFirst(AllEdges, Order[i]) = edges[j].target
    BY <2>1, <2>2, <2>3, OneOutgoing, Following
  <2>5. i # Steps
    BY <1>1, <2>1, <2>4
  <2>6. i \in 1..Steps - 1
    BY <1>1, <2>5
  <2>7. edges[j].target = Order[i + 1]
    BY <1>1, <2>4, <2>6
  <2> QED BY <2>2, <2>6, <2>7, EdgeIs DEF Between
<1> QED BY <1>2, <1>3

\* An order of distinct nodes whose neighbours are the ends of the edges, each
\* edge once, has an edge less than nodes.
LEMMA EdgesCounted ==
  ASSUME TypeOK, NEW o \in [1..Steps -> Nodes], Steps \in Nat, Steps > 1,
         NoDuplicates,
         \A i, j \in 1..Steps : o[i] = o[j] => i = j,
         \A i \in 1..Steps - 1 : \E j \in AllEdges : edges[j] = Between(o, i),
         \A j \in AllEdges : \E i \in 1..Steps - 1 : edges[j] = Between(o, i)
  PROVE  Len(edges) = Steps - 1
<1> DEFINE S == 1..Steps - 1
           g == [i \in S |-> CHOOSE j \in AllEdges : edges[j] = Between(o, i)]
<1>1. \A i \in S : g[i] \in AllEdges /\ edges[g[i]] = Between(o, i)
  OBVIOUS
<1>2. \A a, b \in S : Between(o, a) = Between(o, b) => a = b
  BY DEF Between
<1>3. g \in [S -> AllEdges]
  BY <1>1
<1> HIDE DEF g
<1>4. \A a, b \in S : g[a] = g[b] => a = b
  BY <1>1, <1>2
<1>5. \A j \in AllEdges : \E i \in S : g[i] = j
  BY <1>1 DEF NoDuplicates, AllEdges
<1>6. g \in Bijection(S, AllEdges)
  BY <1>3, <1>4, <1>5, Fun_IsBij
<1>7. IsFiniteSet(S) /\ Cardinality(S) = Steps - 1
  <2>1. Steps - 1 \in Int /\ 1 \in Int
    OBVIOUS
  <2>2. IsFiniteSet(S) /\ Cardinality(S) = IF 1 > Steps - 1 THEN 0 ELSE (Steps - 1) - 1 + 1
    BY <2>1, FS_Interval, Zenon
  <2> QED BY <2>2
<1>8. Cardinality(AllEdges) = Cardinality(S)
  BY <1>6, <1>7, FS_Bijection DEF ExistsBijection
<1> QED BY <1>7, <1>8, Drawing

LEMMA LenIs ==
  ASSUME NEW n \in Nat, NEW S, NEW f \in [1..n -> S]
  PROVE  f \in Seq(S) /\ Len(f) = n
OBVIOUS

LEMMA AcceptedIsChain ==
  ASSUME TypeOK, ServerAccepts
  PROVE  IsChain(Order) /\ Order \in [1..Steps -> Nodes] /\ Steps > 1
<1>1. /\ Order \in [1..Steps -> Nodes] /\ Order[1] = Trigger
      /\ \A i, j \in 1..Steps : Order[i] = Order[j] => i = j
      /\ \A n \in Nodes : \E i \in 1..Steps : Order[i] = n
      /\ Steps \in Nat /\ Steps > 1
  BY RowIsOrder
<1>2. Len(Order) = Steps /\ DOMAIN Order = 1..Steps
  BY <1>1, LenIs
<1>3. {Order[i] : i \in DOMAIN Order} = Nodes
  BY <1>1, <1>2
<1>4. Triggers = {Trigger} /\ kind[Trigger] = "trigger"
  BY OneTrigger DEF ServerAccepts, Triggers
<1>5. \A i \in 2..Steps : kind[Order[i]] = "action"
  <2> SUFFICES ASSUME NEW i \in 2..Steps PROVE kind[Order[i]] = "action"
    OBVIOUS
  <2>1. i \in 1..Steps /\ 1 \in 1..Steps /\ i # 1
    BY <1>1
  <2>2. Order[i] \in Nodes /\ Order[i] # Trigger
    BY <1>1, <2>1
  <2> QED BY <1>4, <2>2, Drawing DEF Actions
<1>6. /\ \A i \in 1..Steps - 1 : \E j \in AllEdges : edges[j] = Between(Order, i)
      /\ \A j \in AllEdges : \E i \in 1..Steps - 1 : edges[j] = Between(Order, i)
  BY OrderIsDrawn
<1>7. Len(edges) = Steps - 1
  BY <1>1, <1>6, EdgesCounted DEF ServerAccepts
<1> QED BY <1>1, <1>2, <1>3, <1>4, <1>5, <1>6, <1>7 DEF IsChain, Between, AllEdges

-----------------------------------------------------------------------------
(* LinearGraph: a chain is accepted.                                       *)

\* A row of all nodes, its edges and their positions.
LEMMA ChainIs ==
  ASSUME TypeOK, Steps > 1, NEW o \in [1..Steps -> Nodes], IsChain(o)
  PROVE  /\ Steps \in Nat
         /\ \A i, j \in 1..Steps : o[i] = o[j] => i = j
         /\ \A n \in Nodes : \E i \in 1..Steps : o[i] = n
         /\ \E h \in Bijection(1..Steps - 1, AllEdges) :
              \A i \in 1..Steps - 1 : edges[h[i]] = Between(o, i)
<1>1. Steps \in Nat /\ IsFiniteSet(Nodes)
  BY Drawing
<1>2. \A n \in Nodes : \E i \in 1..Steps : o[i] = n
  BY DEF IsChain
<1>3. o \in Surjection(1..Steps, Nodes)
  BY <1>2, Fun_IsSurj
<1>4. \A n \in Nat : IsFiniteSet(1..n) /\ Cardinality(1..n) = n
  <2> SUFFICES ASSUME NEW n \in Nat PROVE IsFiniteSet(1..n) /\ Cardinality(1..n) = n
    OBVIOUS
  <2>1. n \in Int /\ 1 \in Int
    OBVIOUS
  <2>2. IsFiniteSet(1..n) /\ Cardinality(1..n) = IF 1 > n THEN 0 ELSE n - 1 + 1
    BY <2>1, FS_Interval, Zenon
  <2> QED BY <2>2
<1>5. o \in Injection(1..Steps, Nodes)
  <2>1. IsFiniteSet(1..Steps) /\ Cardinality(1..Steps) = Steps
    BY <1>1, <1>4
  <2>2. Cardinality(1..Steps) = Cardinality(Nodes)
    BY <2>1 DEF Steps
  <2> QED BY <1>3, <2>1, <2>2, FS_SurjSameCardinalityImpliesInj
<1>6. \A i, j \in 1..Steps : o[i] = o[j] => i = j
  BY <1>5, Fun_InjectionProperties
<1> DEFINE S == 1..Steps - 1
           h == [i \in S |-> CHOOSE j \in AllEdges : edges[j] = Between(o, i)]
<1>7. \A i \in S : \E j \in AllEdges : edges[j] = Between(o, i)
  BY DEF IsChain, Between, AllEdges
<1>8. \A i \in S : h[i] \in AllEdges /\ edges[h[i]] = Between(o, i)
  BY <1>7
<1>9. h \in [S -> AllEdges]
  BY <1>8
<1> HIDE DEF h
<1>10. \A a, b \in S : h[a] = h[b] => a = b
  <2> SUFFICES ASSUME NEW a \in S, NEW b \in S, h[a] = h[b] PROVE a = b
    OBVIOUS
  <2>1. Between(o, a) = Between(o, b)
    BY <1>8
  <2>2. o[a] = o[b] /\ a \in 1..Steps /\ b \in 1..Steps
    BY <1>1, <2>1 DEF Between
  <2> QED BY <1>6, <2>2
<1>11. h \in Injection(S, AllEdges)
  BY <1>9, <1>10, Fun_IsInj
<1>12. Cardinality(S) = Steps - 1
  <2>1. Steps - 1 \in Nat
    BY <1>1
  <2> QED BY <1>4, <2>1
<1>13. IsFiniteSet(AllEdges) /\ Cardinality(AllEdges) = Steps - 1
  BY Drawing DEF IsChain
<1>14. h \in Surjection(S, AllEdges)
  <2>1. Cardinality(S) = Cardinality(AllEdges)
    BY <1>12, <1>13
  <2> QED BY <1>11, <1>13, <2>1, FS_Injection
<1>15. h \in Bijection(S, AllEdges)
  BY <1>11, <1>14, Fun_IsBij
<1> QED BY <1>1, <1>2, <1>6, <1>8, <1>15

\* The edges at each node of a chain.
LEMMA ChainEdges ==
  ASSUME TypeOK, Steps > 1, NEW o \in [1..Steps -> Nodes], IsChain(o)
  PROVE  /\ \A i \in 1..Steps - 1 : \E k \in AllEdges :
              /\ Outgoing(AllEdges, o[i]) = {k} /\ Incoming(AllEdges, o[i + 1]) = {k}
              /\ edges[k].target = o[i + 1]
         /\ Outgoing(AllEdges, o[Steps]) = {}
         /\ Incoming(AllEdges, o[1]) = {}
         /\ NoMissingNodes /\ NoSelfEdges /\ NoDuplicates
<1>1. /\ Steps \in Nat
      /\ \A i, j \in 1..Steps : o[i] = o[j] => i = j
  BY ChainIs
<1>2. PICK h \in Bijection(1..Steps - 1, AllEdges) :
        \A i \in 1..Steps - 1 : edges[h[i]] = Between(o, i)
  BY ChainIs
<1>3. /\ h \in [1..Steps - 1 -> AllEdges]
      /\ \A a, b \in 1..Steps - 1 : h[a] = h[b] => a = b
      /\ \A j \in AllEdges : \E i \in 1..Steps - 1 : h[i] = j
  <2> DEFINE S == 1..Steps - 1
  <2> HIDE DEF S
  <2>1. h \in Bijection(S, AllEdges)
    BY DEF S
  <2>2. h \in Injection(S, AllEdges) /\ h \in Surjection(S, AllEdges)
    BY <2>1, Fun_BijectionProperties, Zenon
  <2>3. h \in [S -> AllEdges] /\ \A a, b \in S : h[a] = h[b] => a = b
    BY <2>2, Fun_InjectionProperties, Zenon
  <2>4. \A j \in AllEdges : \E i \in S : h[i] = j
    BY <2>2, Fun_SurjectionProperties, Zenon
  <2> QED BY <2>3, <2>4 DEF S
<1>4. \A i \in 1..Steps - 1 : i \in 1..Steps /\ i + 1 \in 1..Steps
  BY <1>1
<1>5. \A i \in 1..Steps - 1 : /\ h[i] \in AllEdges
                             /\ edges[h[i]].source = o[i]
                             /\ edges[h[i]].target = o[i + 1]
  <2> SUFFICES ASSUME NEW i \in 1..Steps - 1
      PROVE /\ h[i] \in AllEdges
            /\ edges[h[i]].source = o[i] /\ edges[h[i]].target = o[i + 1]
    OBVIOUS
  <2>1. edges[h[i]] = [source |-> o[i], target |-> o[i + 1]]
    BY <1>2 DEF Between
  <2>2. h[i] \in AllEdges
    BY <1>3
  <2> QED BY <2>1, <2>2
<1>6. \A j \in AllEdges : \E i \in 1..Steps - 1 :
        h[i] = j /\ edges[j].source = o[i] /\ edges[j].target = o[i + 1]
  BY <1>3, <1>5
<1>7. ASSUME NEW i \in 1..Steps - 1
      PROVE  \E k \in AllEdges :
              /\ Outgoing(AllEdges, o[i]) = {k} /\ Incoming(AllEdges, o[i + 1]) = {k}
              /\ edges[k].target = o[i + 1]
  <2>1. h[i] \in Outgoing(AllEdges, o[i]) /\ h[i] \in Incoming(AllEdges, o[i + 1])
    BY <1>5 DEF Outgoing, Incoming
  <2>2. ASSUME NEW j \in AllEdges, edges[j].source = o[i] PROVE j = h[i]
    <3>1. PICK m \in 1..Steps - 1 : h[m] = j /\ edges[j].source = o[m]
      BY <1>6
    <3> QED BY <1>1, <1>4, <2>2, <3>1
  <2>3. ASSUME NEW j \in AllEdges, edges[j].target = o[i + 1] PROVE j = h[i]
    <3>1. PICK m \in 1..Steps - 1 : h[m] = j /\ edges[j].target = o[m + 1]
      BY <1>6
    <3>2. m + 1 = i + 1
      BY <1>1, <1>4, <2>3, <3>1
    <3> QED BY <3>1, <3>2
  <2>4. Outgoing(AllEdges, o[i]) = {h[i]} /\ Incoming(AllEdges, o[i + 1]) = {h[i]}
    BY <2>1, <2>2, <2>3 DEF Outgoing, Incoming
  <2> QED BY <1>5, <2>4
<1>8. Outgoing(AllEdges, o[Steps]) = {}
  <2> SUFFICES ASSUME NEW j \in AllEdges, edges[j].source = o[Steps] PROVE FALSE
    BY DEF Outgoing
  <2>1. PICK i \in 1..Steps - 1 : edges[j].source = o[i]
    BY <1>6
  <2>2. i \in 1..Steps /\ Steps \in 1..Steps /\ o[i] = o[Steps]
    BY <1>1, <1>4, <2>1
  <2> QED BY <1>1, <2>2
<1>9. Incoming(AllEdges, o[1]) = {}
  <2> SUFFICES ASSUME NEW j \in AllEdges, edges[j].target = o[1] PROVE FALSE
    BY DEF Incoming
  <2>1. PICK i \in 1..Steps - 1 : edges[j].target = o[i + 1]
    BY <1>6
  <2>2. i + 1 \in 1..Steps /\ 1 \in 1..Steps /\ o[i + 1] = o[1]
    BY <1>1, <1>4, <2>1
  <2>3. i + 1 = 1
    BY <1>1, <2>2
  <2> QED BY <2>3
<1>10. NoMissingNodes /\ NoSelfEdges
  <2> SUFFICES ASSUME NEW j \in AllEdges
      PROVE /\ edges[j].source \in Nodes /\ edges[j].target \in Nodes
            /\ edges[j].source # edges[j].target
    BY DEF NoMissingNodes, NoSelfEdges, AllEdges
  <2>1. PICK i \in 1..Steps - 1 : edges[j].source = o[i] /\ edges[j].target = o[i + 1]
    BY <1>6
  <2>2. i # i + 1
    OBVIOUS
  <2> QED BY <1>1, <1>4, <2>1, <2>2
<1>11. NoDuplicates
  <2> SUFFICES ASSUME NEW j \in AllEdges, NEW k \in AllEdges, edges[j] = edges[k]
      PROVE j = k
    BY DEF NoDuplicates, AllEdges
  <2>1. PICK a \in 1..Steps - 1 : h[a] = j /\ edges[j].source = o[a]
    BY <1>6
  <2>2. PICK b \in 1..Steps - 1 : h[b] = k /\ edges[k].source = o[b]
    BY <1>6
  <2>3. a = b
    BY <1>1, <1>4, <2>1, <2>2
  <2> QED BY <2>1, <2>2, <2>3
<1> QED BY <1>7, <1>8, <1>9, <1>10, <1>11

\* The walk along a chain.
LEMMA ChainWalked ==
  ASSUME TypeOK, Steps > 1, NEW o \in [1..Steps -> Nodes], IsChain(o)
  PROVE  /\ Triggers = {o[1]} /\ Trigger = o[1] /\ Cardinality(Triggers) = 1
         /\ \A i \in 0..Steps - 1 : Walk(AllEdges)[i] = o[i + 1]
         /\ Walk(AllEdges)[Steps] = NoNode
<1>1. /\ Steps \in Nat
      /\ \A i, j \in 1..Steps : o[i] = o[j] => i = j
      /\ \A n \in Nodes : \E i \in 1..Steps : o[i] = n
  BY ChainIs
<1>2. kind[o[1]] = "trigger" /\ \A i \in 2..Steps : kind[o[i]] = "action"
  BY DEF IsChain
<1>3. Triggers = {o[1]}
  <2>1. 1 \in 1..Steps
    BY <1>1
  <2>2. o[1] \in Triggers
    BY <1>2, <2>1 DEF Triggers
  <2>3. ASSUME NEW n \in Triggers PROVE n = o[1]
    <3>1. PICK i \in 1..Steps : o[i] = n
      BY <1>1 DEF Triggers
    <3>2. i \notin 2..Steps
      BY <1>2, <3>1 DEF Triggers
    <3>3. i = 1
      BY <1>1, <3>2
    <3> QED BY <3>1, <3>3
  <2> QED BY <2>2, <2>3
<1>4. Cardinality(Triggers) = 1
  BY <1>3, FS_Singleton
<1>5. Trigger = o[1]
  BY <1>3 DEF Trigger
<1> DEFINE at == Walk(AllEdges)
<1>6. /\ at[0] = Trigger
      /\ \A i \in 1..Steps : at[i] = FollowFirst(AllEdges, at[i - 1])
  BY Walking
<1> HIDE DEF at
<1>7. \A i \in 1..Steps - 1 : FollowFirst(AllEdges, o[i]) = o[i + 1]
  <2> SUFFICES ASSUME NEW i \in 1..Steps - 1
      PROVE FollowFirst(AllEdges, o[i]) = o[i + 1]
    OBVIOUS
  <2>1. PICK k \in AllEdges : Outgoing(AllEdges, o[i]) = {k} /\ edges[k].target = o[i + 1]
    BY ChainEdges
  <2>2. o[i] \in Nodes
    BY <1>1
  <2> QED BY <2>1, <2>2, Following
<1>8. \A i \in 0..Steps - 1 : at[i] = o[i + 1]
  <2> DEFINE Wrong == {i \in 0..Steps - 1 : at[i] # o[i + 1]}
  <2> SUFFICES ASSUME Wrong # {} PROVE FALSE
    OBVIOUS
  <2>1. Wrong \in SUBSET Nat
    BY <1>1
  <2>2. PICK k \in Wrong : \A j \in Wrong : ~ (j < k)
    BY <2>1, LeastOf
  <2>3. k # 0
    BY <1>5, <1>6, <2>2
  <2>4. k - 1 \in 0..Steps - 1 /\ k - 1 < k /\ k \in 1..Steps - 1 /\ k \in 1..Steps
    BY <1>1, <2>2, <2>3
  <2>5. at[k - 1] = o[(k - 1) + 1]
    BY <2>2, <2>4
  <2>6. at[k] = FollowFirst(AllEdges, o[k])
    <3>1. (k - 1) + 1 = k
      BY <2>4
    <3> QED BY <1>6, <2>4, <2>5, <3>1
  <2> QED BY <1>7, <2>2, <2>4, <2>6
<1>9. at[Steps] = NoNode
  <2>1. Steps \in 1..Steps /\ Steps - 1 \in 0..Steps - 1 /\ (Steps - 1) + 1 = Steps
    BY <1>1
  <2>2. at[Steps] = FollowFirst(AllEdges, o[Steps])
    BY <1>6, <1>8, <2>1
  <2>3. Outgoing(AllEdges, o[Steps]) = {}
    BY ChainEdges
  <2> QED BY <2>2, <2>3, NotFollowing
<1> QED BY <1>3, <1>4, <1>5, <1>8, <1>9 DEF at

LEMMA AtMostOne ==
  ASSUME NEW S, (S = {} \/ \E k : S = {k})
  PROVE  Cardinality(S) <= 1
<1>1. CASE S = {}
  BY <1>1, FS_EmptySet
<1>2. CASE \E k : S = {k}
  BY <1>2, FS_Singleton
<1> QED BY <1>1, <1>2

LEMMA ChainIsAccepted ==
  ASSUME TypeOK, Steps > 1, NEW o \in [1..Steps -> Nodes], IsChain(o)
  PROVE  ServerAccepts
<1>1. /\ Steps \in Nat
      /\ \A i, j \in 1..Steps : o[i] = o[j] => i = j
      /\ \A n \in Nodes : \E i \in 1..Steps : o[i] = n
  BY ChainIs
<1>2. /\ \A i \in 1..Steps - 1 : \E k \in AllEdges :
           Outgoing(AllEdges, o[i]) = {k} /\ Incoming(AllEdges, o[i + 1]) = {k}
      /\ Outgoing(AllEdges, o[Steps]) = {} /\ Incoming(AllEdges, o[1]) = {}
      /\ NoMissingNodes /\ NoSelfEdges /\ NoDuplicates
  BY ChainEdges
<1>3. /\ Trigger = o[1] /\ Cardinality(Triggers) = 1
      /\ \A i \in 0..Steps - 1 : Walk(AllEdges)[i] = o[i + 1]
      /\ Walk(AllEdges)[Steps] = NoNode
  BY ChainWalked
<1>4. Cardinality(Outgoing(AllEdges, Trigger)) = 1
  <2>1. 1 \in 1..Steps - 1
    BY <1>1
  <2>2. \E k : Outgoing(AllEdges, o[1]) = {k}
    BY <1>2, <2>1
  <2> QED BY <1>3, <2>2, FS_Singleton
<1>5. LinearDegrees(AllEdges)
  <2> SUFFICES ASSUME NEW a \in Nodes
      PROVE /\ Cardinality(Outgoing(AllEdges, a)) <= 1
            /\ Cardinality(Incoming(AllEdges, a)) <= 1
    BY DEF LinearDegrees, Actions
  <2>1. PICK i \in 1..Steps : o[i] = a
    BY <1>1
  <2>2. Outgoing(AllEdges, a) = {} \/ \E k : Outgoing(AllEdges, a) = {k}
    <3>1. i = Steps \/ i \in 1..Steps - 1
      BY <1>1
    <3> QED BY <1>2, <2>1, <3>1
  <2>3. Incoming(AllEdges, a) = {} \/ \E k : Incoming(AllEdges, a) = {k}
    <3>1. i = 1 \/ (i - 1 \in 1..Steps - 1 /\ (i - 1) + 1 = i)
      BY <1>1
    <3> QED BY <1>2, <2>1, <3>1
  <2> QED BY <2>2, <2>3, AtMostOne
<1>6. Terminal(AllEdges) = {o[Steps]}
  <2>1. Steps \in 1..Steps /\ Steps \in 2..Steps
    BY <1>1
  <2>2. o[Steps] \in Terminal(AllEdges)
    BY <1>2, <2>1 DEF Terminal, Actions, IsChain
  <2>3. ASSUME NEW a \in Terminal(AllEdges) PROVE a = o[Steps]
    <3>1. a \in Nodes /\ Outgoing(AllEdges, a) = {}
      BY DEF Terminal, Actions
    <3>2. PICK i \in 1..Steps : o[i] = a
      BY <1>1, <3>1
    <3>3. i \notin 1..Steps - 1
      BY <1>2, <3>1, <3>2
    <3>4. i = Steps
      BY <1>1, <3>3
    <3> QED BY <3>2, <3>4
  <2> QED BY <2>2, <2>3
<1>7. Cardinality(Terminal(AllEdges)) = 1
  BY <1>6, FS_Singleton
<1>8. ~ Cycles(AllEdges)
  BY <1>3 DEF Cycles
<1>9. Reached(AllEdges) = Nodes
  <2> DEFINE at == Walk(AllEdges)
  <2> HIDE DEF at
  <2>1. /\ \A i \in 0..Steps - 1 : at[i] = o[i + 1]
        /\ at[Steps] = NoNode
    BY <1>3 DEF at
  <2>2. ASSUME NEW i \in 0..Steps, at[i] # NoNode PROVE at[i] \in Nodes
    <3>1. i \in 0..Steps - 1 /\ i + 1 \in 1..Steps
      BY <1>1, <2>1, <2>2
    <3> QED BY <2>1, <3>1
  <2>3. ASSUME NEW n \in Nodes PROVE n # NoNode /\ \E i \in 0..Steps : at[i] = n
    <3>1. PICK j \in 1..Steps : o[j] = n
      BY <1>1
    <3>2. j - 1 \in 0..Steps - 1 /\ j - 1 \in 0..Steps /\ (j - 1) + 1 = j
      BY <1>1
    <3>3. at[j - 1] = n
      BY <2>1, <3>1, <3>2
    <3> QED BY <3>2, <3>3, Drawing
  <2>4. {at[i] : i \in 0..Steps} \ {NoNode} = Nodes
    BY <2>2, <2>3
  <2> QED BY <2>4 DEF Reached, at
<1>10. Nodes # {}
  <2>1. 1 \in 1..Steps
    BY <1>1
  <2> QED BY <2>1
<1> QED BY <1>2, <1>3, <1>4, <1>5, <1>7, <1>8, <1>9, <1>10 DEF ServerAccepts

LEMMA Exactly == ASSUME TypeOK PROVE AcceptedIffChain
BY AcceptedIsChain, ChainIsAccepted DEF AcceptedIffChain

-----------------------------------------------------------------------------
(* LinearGraph: what is accepted is run, and what the editor says of it.   *)

\* The worker's list of the actions of an accepted graph.
RunOrder == [i \in 1..Steps - 1 |-> Order[i + 1]]

LEMMA RowAfterTrigger ==
  ASSUME TypeOK, ServerAccepts, NEW walk,
         \A i \in 1..Steps - 1 : walk[i] = Order[i + 1],
         walk[Steps] = NoNode
  PROVE  AfterTrigger(walk) = RunOrder
<1>1. /\ Order \in [1..Steps -> Nodes] /\ Steps \in Nat /\ Steps > 1
      /\ NoNode \notin Nodes
  BY RowIsOrder, Drawing
<1>2. \A i \in 1..Steps - 1 : walk[i] # NoNode
  <2> SUFFICES ASSUME NEW i \in 1..Steps - 1 PROVE walk[i] # NoNode
    OBVIOUS
  <2>1. i + 1 \in 1..Steps
    BY <1>1
  <2> QED BY <1>1, <2>1
<1>3. {j \in 1..Steps : walk[j] # NoNode} = 1..Steps - 1
  BY <1>1, <1>2
<1> QED BY <1>3 DEF AfterTrigger, RunOrder

LEMMA RowOfWalk ==
  ASSUME TypeOK, ServerAccepts
  PROVE  \A i \in 1..Steps - 1 : Walk(AllEdges)[i] = Order[i + 1]
<1> DEFINE at == Walk(AllEdges)
<1> HIDE DEF at
<1>1. Order = [i \in 1..Steps |-> at[i - 1]] /\ Steps \in Nat
  BY Drawing DEF Order, at
<1>2. ASSUME NEW i \in 1..Steps - 1 PROVE at[i] = Order[i + 1]
  <2>1. i + 1 \in 1..Steps /\ (i + 1) - 1 = i
    BY <1>1
  <2> QED BY <1>1, <2>1
<1> QED BY <1>2 DEF at

LEMMA ResolvedIs ==
  ASSUME TypeOK, ServerAccepts
  PROVE  Resolve = RunOrder
<1>1. /\ Order \in [1..Steps -> Nodes] /\ Order[1] = Trigger
      /\ \A i, j \in 1..Steps : Order[i] = Order[j] => i = j
      /\ Steps \in Nat /\ Steps > 1
      /\ NoNode \notin Nodes
      /\ Triggers = {Trigger} /\ Trigger \in Nodes
  BY RowIsOrder, Drawing, OneTrigger DEF ServerAccepts
<1> DEFINE at == Walk(AllEdges)
<1>2. /\ \A i \in 1..Steps - 1 : at[i] = Order[i + 1]
      /\ at[Steps] = NoNode
  BY RowOfWalk, WalkInRow
<1>3. AfterTrigger(at) = RunOrder
  BY <1>2, RowAfterTrigger
<1> HIDE DEF at
<1>4. \A i \in 1..Steps : at[i] \notin Triggers
  <2> SUFFICES ASSUME NEW i \in 1..Steps, at[i] = Trigger PROVE FALSE
    BY <1>1
  <2>1. i \in 1..Steps - 1
    BY <1>1, <1>2
  <2>2. i + 1 \in 1..Steps /\ 1 \in 1..Steps /\ i + 1 # 1
    BY <1>1, <2>1
  <2> QED BY <1>1, <1>2, <2>1, <2>2
<1>5. ~ ResolverThrows
  BY <1>4 DEF ResolverThrows, ServerAccepts, at
<1> QED BY <1>3, <1>5 DEF Resolve, at

\* The fields' chain is the same one.
Continued(f, i) ==
  IF i = 0 THEN Trigger
  ELSE IF f[i - 1] = NoNode \/ \E j \in 0..i - 2 : f[j] = f[i - 1] THEN NoNode
  ELSE FollowLast(f[i - 1])

IsPositionWalk(f) == f = [i \in 0..Steps |-> Continued(f, i)]

LEMMA FollowedLast ==
  ASSUME TypeOK, ServerAccepts
  PROVE  /\ \A i \in 1..Steps - 1 : FollowLast(Order[i]) = Order[i + 1]
         /\ FollowLast(Order[Steps]) = NoNode
<1>1. /\ IsChain(Order) /\ Order \in [1..Steps -> Nodes] /\ Steps > 1
      /\ Steps \in Nat
  BY AcceptedIsChain, Drawing
<1>2. ASSUME NEW i \in 1..Steps - 1 PROVE FollowLast(Order[i]) = Order[i + 1]
  <2>1. PICK k \in AllEdges :
          Outgoing(AllEdges, Order[i]) = {k} /\ edges[k].target = Order[i + 1]
    BY <1>1, ChainEdges
  <2>2. Order[i] \in Nodes /\ i + 1 \in 2..Steps
    BY <1>1
  <2>3. kind[Order[i + 1]] = "action"
    BY <1>1, <2>2 DEF IsChain
  <2> QED BY <2>1, <2>2, <2>3, Following
<1>3. Outgoing(AllEdges, Order[Steps]) = {}
  BY <1>1, ChainEdges
<1> QED BY <1>2, <1>3, NotFollowing

LEMMA PositionsAre ==
  ASSUME TypeOK, ServerAccepts
  PROVE  ChainPositions = RunOrder
<1>1. /\ Order \in [1..Steps -> Nodes] /\ Order[1] = Trigger
      /\ \A i, j \in 1..Steps : Order[i] = Order[j] => i = j
      /\ Steps \in Nat /\ Steps > 1
      /\ NoNode \notin Nodes
      /\ Triggers = {Trigger}
  BY RowIsOrder, Drawing, OneTrigger DEF ServerAccepts
<1>2. /\ \A i \in 1..Steps - 1 : FollowLast(Order[i]) = Order[i + 1]
      /\ FollowLast(Order[Steps]) = NoNode
  BY FollowedLast
<1> DEFINE g == [i \in 0..Steps |-> IF i = Steps THEN NoNode ELSE Order[i + 1]]
<1>3. \A i \in 0..Steps - 1 : i \in 0..Steps /\ i # Steps /\ i + 1 \in 1..Steps
  BY <1>1
<1>4. /\ \A i \in 0..Steps - 1 : g[i] = Order[i + 1] /\ g[i] # NoNode
      /\ g[Steps] = NoNode
  BY <1>1, <1>3
<1>5. \A i \in 0..Steps : g[i] = Continued(g, i)
  <2> SUFFICES ASSUME NEW i \in 0..Steps PROVE g[i] = Continued(g, i)
    OBVIOUS
  <2> HIDE DEF g
  <2>1. CASE i = 0
    <3>1. 0 \in 0..Steps - 1
      BY <1>1
    <3>2. g[0] = Order[0 + 1]
      BY <1>4, <3>1
    <3> QED BY <1>1, <2>1, <3>2 DEF Continued
  <2>2. CASE i # 0
    <3>1. i - 1 \in 0..Steps - 1 /\ (i - 1) + 1 = i /\ i \in 1..Steps
      BY <1>1, <2>2
    <3>2. g[i - 1] = Order[i] /\ g[i - 1] # NoNode
      BY <1>4, <3>1
    <3>3. ~ \E j \in 0..i - 2 : g[j] = g[i - 1]
      <4> SUFFICES ASSUME NEW j \in 0..i - 2, g[j] = g[i - 1] PROVE FALSE
        OBVIOUS
      <4>1. j \in 0..Steps - 1 /\ j + 1 \in 1..Steps /\ j + 1 # i
        BY <1>1, <3>1
      <4>2. Order[j + 1] = Order[i]
        BY <1>4, <3>2, <4>1
      <4> QED BY <1>1, <3>1, <4>1, <4>2
    <3>4. g[i] = FollowLast(Order[i])
      <4>1. CASE i = Steps
        BY <1>2, <1>4, <4>1
      <4>2. CASE i # Steps
        <5>1. i \in 1..Steps - 1 /\ i \in 0..Steps - 1
          BY <1>1, <3>1, <4>2
        <5> QED BY <1>2, <1>4, <5>1
      <4> QED BY <4>1, <4>2
    <3> QED BY <2>2, <3>2, <3>3, <3>4 DEF Continued
  <2> QED BY <2>1, <2>2
<1>6. IsPositionWalk(g)
  BY <1>5 DEF IsPositionWalk
<1>7. IsPositionWalk(PositionWalk)
  BY <1>6 DEF PositionWalk, IsPositionWalk, Continued
<1> DEFINE at == PositionWalk
<1>8. \A i \in 0..Steps : at[i] = Continued(at, i)
  BY <1>7 DEF IsPositionWalk
<1> HIDE DEF at, g
<1>9. \A i \in 0..Steps : at[i] = g[i]
  <2> DEFINE Wrong == {i \in 0..Steps : at[i] # g[i]}
  <2> SUFFICES ASSUME Wrong # {} PROVE FALSE
    OBVIOUS
  <2>1. Wrong \in SUBSET Nat
    BY <1>1
  <2>2. PICK k \in Wrong : \A j \in Wrong : ~ (j < k)
    BY <2>1, LeastOf
  <2>3. \A j \in 0..k - 1 : at[j] = g[j]
    BY <1>1, <2>2
  <2>4. Continued(at, k) = Continued(g, k)
    <3>1. CASE k = 0
      BY <3>1 DEF Continued
    <3>2. CASE k # 0
      <4>1. k - 1 \in 0..k - 1 /\ \A j \in 0..k - 2 : j \in 0..k - 1
        BY <1>1, <3>2
      <4>2. at[k - 1] = g[k - 1]
        BY <2>3, <4>1
      <4>3. (\E j \in 0..k - 2 : at[j] = at[k - 1]) <=> \E j \in 0..k - 2 : g[j] = g[k - 1]
        BY <2>3, <4>1, <4>2
      <4> QED BY <3>2, <4>2, <4>3 DEF Continued
    <3> QED BY <3>1, <3>2
  <2> QED BY <1>5, <1>8, <2>2, <2>4
<1>10. /\ \A i \in 1..Steps - 1 : at[i] = Order[i + 1]
       /\ at[Steps] = NoNode
  BY <1>1, <1>4, <1>9
<1>11. AfterTrigger(PositionWalk) = RunOrder
  BY <1>10, RowAfterTrigger DEF at
<1> QED BY <1>1, <1>11 DEF ChainPositions

LEMMA RunIsChain == ASSUME TypeOK PROVE AcceptedIsRun
<1> SUFFICES ASSUME ServerAccepts PROVE IsChain(<<Trigger>> \o Resolve) /\ ChainPositions = Resolve
  BY DEF AcceptedIsRun
<1>1. /\ Order \in [1..Steps -> Nodes] /\ Order[1] = Trigger
      /\ Steps \in Nat /\ Steps > 1
  BY RowIsOrder
<1>2. RunOrder \in [1..Steps - 1 -> Nodes]
  <2>1. \A i \in 1..Steps - 1 : i + 1 \in 1..Steps
    BY <1>1
  <2> QED BY <1>1, <2>1 DEF RunOrder
<1>3. RunOrder \in Seq(Nodes) /\ Len(RunOrder) = Steps - 1
  <2>1. Steps - 1 \in Nat
    BY <1>1
  <2> QED BY <1>2, <2>1, LenIs
<1>4. <<Trigger>> \o RunOrder = Order
  <2>1. Order[1] \in Nodes
    BY <1>1
  <2>2. /\ <<Trigger>> \o RunOrder \in Seq(Nodes)
        /\ Len(<<Trigger>> \o RunOrder) = Steps
        /\ \A i \in 1..Steps : (<<Trigger>> \o RunOrder)[i] = IF i = 1 THEN Trigger ELSE RunOrder[i - 1]
    BY <1>1, <1>3, <2>1
  <2>3. \A i \in 1..Steps : (<<Trigger>> \o RunOrder)[i] = Order[i]
    <3> SUFFICES ASSUME NEW i \in 1..Steps, i # 1 PROVE RunOrder[i - 1] = Order[i]
      BY <1>1, <2>2
    <3>1. i - 1 \in 1..Steps - 1 /\ (i - 1) + 1 = i
      BY <1>1
    <3> QED BY <3>1 DEF RunOrder
  <2>4. <<Trigger>> \o RunOrder \in [1..Steps -> Nodes]
    <3> DEFINE row == <<Trigger>> \o RunOrder
    <3>1. row \in Seq(Nodes) /\ Len(row) = Steps
      BY <2>2
    <3> HIDE DEF row
    <3>2. row \in [1..Steps -> Nodes]
      BY <3>1
    <3> QED BY <3>2 DEF row
  <2> QED BY <1>1, <2>3, <2>4
<1> QED BY <1>4, AcceptedIsChain, ResolvedIs, PositionsAre

\* Without an error at an edge the editor's maps have them all.
LEMMA GoodAreAll ==
  ASSUME TypeOK
  PROVE  /\ EdgeErrors = {} <=> NoMissingNodes /\ NoSelfEdges /\ NoDuplicates
         /\ EdgeErrors = {} => GoodEdges = AllEdges
<1>1. /\ AllEdges = 1..Len(edges) /\ Len(edges) \in Nat
      /\ AllEdges = DOMAIN edges
  BY Drawing DEF AllEdges
<1>2. ASSUME EdgeErrors = {} PROVE NoMissingNodes /\ NoSelfEdges /\ NoDuplicates
  <2>1. NoMissingNodes
    BY <1>2 DEF EdgeErrors
  <2>2. NoSelfEdges
    BY <1>2, <2>1 DEF EdgeErrors, NoMissingNodes, NoSelfEdges
  <2>3. NoDuplicates
    BY <1>2, <2>1, <2>2 DEF EdgeErrors, NoMissingNodes, NoSelfEdges, NoDuplicates
  <2> QED BY <2>1, <2>2, <2>3
<1>3. ASSUME NoMissingNodes, NoSelfEdges, NoDuplicates
      PROVE  EdgeErrors = {} /\ GoodEdges = AllEdges
  <2>1. EdgeErrors = {}
    BY <1>3 DEF EdgeErrors, NoMissingNodes, NoSelfEdges, NoDuplicates
  <2>2. \A i \in AllEdges : \A j \in 1..i - 1 : j \in AllEdges /\ j # i
    BY <1>1
  <2>3. GoodEdges = AllEdges
    BY <1>1, <1>3, <2>2 DEF GoodEdges, NoMissingNodes, NoSelfEdges, NoDuplicates
  <2> QED BY <2>1, <2>3
<1> QED BY <1>2, <1>3

LEMMA EditorSaysSo == ASSUME TypeOK PROVE EditorAgrees
<1>1. EditorErrors = {} <=> /\ EdgeErrors = {} /\ TriggerErrors = {}
                            /\ NoEdgesError = {} /\ ActionErrors = {}
  BY DEF EditorErrors
<1>2. /\ IsFiniteSet(Triggers) /\ Cardinality(Triggers) \in Nat
      /\ Cardinality(Triggers) = 0 <=> Triggers = {}
  <2>1. IsFiniteSet(Triggers)
    BY Drawing, FS_Subset DEF Triggers
  <2> QED BY <2>1, FS_CardinalityType, FS_EmptySet
<1>3. TriggerErrors = {} <=> /\ Cardinality(Triggers) = 1
                             /\ Cardinality(Outgoing(GoodEdges, Trigger)) = 1
                             /\ ~ Cycles(GoodEdges)
                             /\ Reached(GoodEdges) = Nodes
  <2>1. TriggerErrors = {} <=> /\ Triggers # {} /\ ~ (Cardinality(Triggers) > 1)
                               /\ Cardinality(Outgoing(GoodEdges, Trigger)) = 1
                               /\ ~ Cycles(GoodEdges)
                               /\ Reached(GoodEdges) = Nodes
    BY DEF TriggerErrors
  <2> QED BY <1>2, <2>1
<1>4. ActionErrors = {} <=> /\ LinearDegrees(GoodEdges) /\ Actions # {}
                            /\ Cardinality(Terminal(GoodEdges)) = 1
  BY DEF ActionErrors
<1>5. Cardinality(Terminal(GoodEdges)) = 1 => Actions # {}
  BY FS_EmptySet DEF Terminal
<1>6. Cardinality(Outgoing(AllEdges, Trigger)) = 1 => NoEdgesError = {}
  <2>1. edges = <<>> => Outgoing(AllEdges, Trigger) = {}
    BY DEF Outgoing, AllEdges
  <2> QED BY <2>1, FS_EmptySet DEF NoEdgesError
<1>7. Cardinality(Triggers) = 1 => Nodes # {}
  BY OneTrigger
<1> QED BY <1>1, <1>3, <1>4, <1>5, <1>6, <1>7, GoodAreAll DEF EditorAgrees, ServerAccepts

\* Every graph of a request has nodes and edges.
LEMMA GraphTyped == Spec => []TypeOK
<1>1. Init => TypeOK
  BY GraphAssumption DEF Init, TypeOK
<1>2. TypeOK /\ [Next]_vars => TypeOK'
  <2> SUFFICES ASSUME TypeOK, [Next]_vars PROVE TypeOK'
    OBVIOUS
  <2>1. ASSUME NEW n \in Ids, NEW k \in Kinds, AddNode(n, k) PROVE TypeOK'
    BY <2>1 DEF AddNode, TypeOK
  <2>2. ASSUME NEW e \in Edges, AddEdge(e) PROVE TypeOK'
    BY <2>2, GraphAssumption DEF AddEdge, TypeOK
  <2>3. CASE UNCHANGED vars
    BY <2>3 DEF vars, TypeOK
  <2> QED BY <2>1, <2>2, <2>3 DEF Next
<1> QED BY <1>1, <1>2, PTL DEF Spec

\* For every set of node ids and every bound: the four readings of a drawing,
\* the api's, the worker's, the field list's and the editor's, agree, and
\* they accept exactly the chains.
THEOREM ReadingsAlwaysAgree == Spec => []ReadingsAgree
<1>1. TypeOK => ReadingsAgree
  BY Exactly, RunIsChain, EditorSaysSo DEF ReadingsAgree
<1> QED BY <1>1, GraphTyped, PTL

-----------------------------------------------------------------------------
(* FieldData: documents.                                                   *)

Types == {"object", "array", "leaf", "null"}

\* A value is a member of what it is in, and of an array under an index.
DocInv ==
  /\ DOMAIN doc \subseteq Seq(Keys) /\ doc \in [DOMAIN doc -> Types]
  /\ <<>> \in DOMAIN doc
  /\ \A p \in DOMAIN doc \ {<<>>} :
       /\ Parent(p) \in DOMAIN doc /\ doc[Parent(p)] \in {"object", "array"}
       /\ doc[Parent(p)] = "array" => Last(p) \in Range(Indices)

LEMMA Extended ==
  ASSUME NEW S, NEW p \in Seq(S), NEW k \in S
  PROVE  /\ Append(p, k) \in Seq(S) /\ Append(p, k) # <<>>
         /\ Parent(Append(p, k)) = p /\ Last(Append(p, k)) = k
         /\ Len(Append(p, k)) = Len(p) + 1
         /\ \A n \in 0..Len(p) : SubSeq(Append(p, k), 1, n) = SubSeq(p, 1, n)
BY DEF Parent, Last

LEMMA PrefixOf ==
  ASSUME NEW S, NEW p \in Seq(S), NEW n \in 0..Len(p)
  PROVE  /\ SubSeq(p, 1, n) \in Seq(S) /\ Len(SubSeq(p, 1, n)) = n
         /\ \A i \in 1..n : SubSeq(p, 1, n)[i] = p[i]
         /\ \A m \in 0..n : SubSeq(SubSeq(p, 1, n), 1, m) = SubSeq(p, 1, m)
         /\ SubSeq(p, 1, 0) = <<>> /\ SubSeq(p, 1, Len(p)) = p
OBVIOUS

LEMMA ParentOfPrefix ==
  ASSUME NEW S, NEW p \in Seq(S), NEW n \in 1..Len(p)
  PROVE  /\ SubSeq(p, 1, n) # <<>>
         /\ Parent(SubSeq(p, 1, n)) = SubSeq(p, 1, n - 1)
         /\ Last(SubSeq(p, 1, n)) = p[n]
         /\ SubSeq(p, 1, n) = Append(SubSeq(p, 1, n - 1), p[n])
<1>1. n \in 0..Len(p) /\ n - 1 \in 0..n /\ n \in 1..n /\ n - 1 \in 0..Len(p)
  OBVIOUS
<1>2. Len(SubSeq(p, 1, n)) = n /\ n # 0
  BY <1>1, PrefixOf
<1>3. SubSeq(p, 1, n) # <<>>
  BY <1>2
<1>4. Parent(SubSeq(p, 1, n)) = SubSeq(p, 1, n - 1)
  BY <1>1, <1>2, PrefixOf DEF Parent
<1>5. Last(SubSeq(p, 1, n)) = p[n]
  BY <1>1, <1>2, PrefixOf DEF Last
<1>6. SubSeq(p, 1, n) = Append(SubSeq(p, 1, n - 1), p[n])
  OBVIOUS
<1> QED BY <1>3, <1>4, <1>5, <1>6

LEMMA AddKeeps ==
  ASSUME DocInv, NEW p \in DOMAIN doc, NEW k \in Keys, NEW type \in Types,
         AddMember(p, k, type)
  PROVE  DocInv'
<1> DEFINE new == Append(p, k)
<1>1. /\ p \in Seq(Keys) /\ new \in Seq(Keys) /\ new # <<>>
      /\ Parent(new) = p /\ Last(new) = k
  BY Extended DEF DocInv
<1>2. /\ doc[p] \in {"object", "array"} /\ new \notin DOMAIN doc
      /\ doc[p] = "array" => k \in Range(Indices)
      /\ doc' = Put(doc, new, type)
  BY DEF AddMember, Range
<1> HIDE DEF new
<1>3. /\ DOMAIN doc' = DOMAIN doc \cup {new} /\ doc'[new] = type
      /\ \A q \in DOMAIN doc : doc'[q] = doc[q]
  BY <1>2 DEF Put
<1>4. DOMAIN doc' \subseteq Seq(Keys) /\ <<>> \in DOMAIN doc'
  BY <1>1, <1>3 DEF DocInv
<1>5. doc' \in [DOMAIN doc' -> Types]
  BY <1>2, <1>3 DEF DocInv, Put
<1>6. ASSUME NEW q \in DOMAIN doc' \ {<<>>}
      PROVE  /\ Parent(q) \in DOMAIN doc' /\ doc'[Parent(q)] \in {"object", "array"}
             /\ doc'[Parent(q)] = "array" => Last(q) \in Range(Indices)
  <2>1. CASE q = new
    BY <1>1, <1>2, <1>3, <2>1
  <2>2. CASE q \in DOMAIN doc
    BY <1>3, <2>2 DEF DocInv
  <2> QED BY <1>3, <2>1, <2>2
<1> QED BY <1>4, <1>5, <1>6 DEF DocInv, Parent, Last

LEMMA DocInvariance == FieldSpec => []DocInv
<1>1. FieldInit => DocInv
  <2> SUFFICES ASSUME FieldInit PROVE DocInv
    OBVIOUS
  <2>1. DOMAIN doc = {<<>>} /\ doc \in [{<<>>} -> Types]
    BY DEF FieldInit, Types
  <2> QED BY <2>1 DEF DocInv
<1>2. DocInv /\ [FieldNext]_fieldVars => DocInv'
  <2> SUFFICES ASSUME DocInv, [FieldNext]_fieldVars PROVE DocInv'
    OBVIOUS
  <2>1. CASE FieldNext
    BY <2>1, AddKeeps DEF FieldNext, Types
  <2>2. CASE UNCHANGED fieldVars
    BY <2>2 DEF fieldVars, DocInv, Parent, Last
  <2> QED BY <2>1, <2>2
<1> QED BY <1>1, <1>2, PTL DEF FieldSpec

\* Whatever a value is in is in the document.
LEMMA PrefixIsThere ==
  ASSUME DocInv, NEW p \in DOMAIN doc, NEW n \in 0..Len(p)
  PROVE  SubSeq(p, 1, n) \in DOMAIN doc
<1>1. p \in Seq(Keys) /\ Len(p) \in Nat
  BY DEF DocInv
<1> DEFINE Wrong == {m \in 0..Len(p) : SubSeq(p, 1, Len(p) - m) \notin DOMAIN doc}
<1>2. Wrong = {}
  <2> SUFFICES ASSUME Wrong # {} PROVE FALSE
    OBVIOUS
  <2>1. Wrong \in SUBSET Nat
    BY <1>1
  <2>2. PICK m \in Wrong : \A j \in Wrong : ~ (j < m)
    BY <2>1, LeastOf
  <2>3. m # 0
    <3>1. SubSeq(p, 1, Len(p)) = p /\ Len(p) - 0 = Len(p) /\ p \in DOMAIN doc
      BY <1>1, PrefixOf
    <3>2. SubSeq(p, 1, Len(p) - m) \notin DOMAIN doc
      BY <2>2
    <3>3. ASSUME m = 0 PROVE FALSE
      <4>1. Len(p) - m = Len(p)
        BY <3>1, <3>3
      <4> QED BY <3>1, <3>2, <4>1
    <3> QED BY <3>3
  <2> DEFINE k == Len(p) - m + 1
  <2>4. m - 1 \in 0..Len(p) /\ m - 1 < m /\ k \in 1..Len(p) /\ k = Len(p) - (m - 1) /\ k - 1 = Len(p) - m
    BY <1>1, <2>2, <2>3
  <2>5. SubSeq(p, 1, k) \in DOMAIN doc
    BY <2>2, <2>4
  <2> HIDE DEF k
  <2>6. SubSeq(p, 1, k) # <<>> /\ Parent(SubSeq(p, 1, k)) = SubSeq(p, 1, k - 1)
    BY <1>1, <2>4, ParentOfPrefix
  <2>7. SubSeq(p, 1, k - 1) \in DOMAIN doc
    BY <2>5, <2>6 DEF DocInv
  <2> QED BY <2>2, <2>4, <2>7
<1>3. Len(p) - n \in 0..Len(p) /\ Len(p) - (Len(p) - n) = n
  BY <1>1
<1> QED BY <1>2, <1>3

-----------------------------------------------------------------------------
(* FieldData: the text of a path and the walk along it.                    *)

IsFlat(f, seqs, n) ==
  f = [i \in 1..n |-> IF i = 1 THEN seqs[i] ELSE f[i - 1] \o seqs[i]]

LEMMA FlatIsThere ==
  ASSUME NEW seqs, NEW n \in Nat
  PROVE  \E f : IsFlat(f, seqs, n)
<1> DEFINE Missing == {k \in Nat : ~ \E f : IsFlat(f, seqs, k)}
<1> SUFFICES ASSUME Missing # {} PROVE FALSE
  OBVIOUS
<1>1. PICK k \in Missing : \A j \in Missing : ~ (j < k)
  BY LeastOf
<1>2. k # 0
  <2> DEFINE f == [i \in 1..0 |-> seqs[1]]
  <2>1. IsFlat(f, seqs, 0)
    BY DEF IsFlat
  <2> QED BY <2>1
<1>3. PICK g : IsFlat(g, seqs, k - 1)
  <2>1. k - 1 \in Nat /\ k - 1 < k
    BY <1>2
  <2> QED BY <1>1, <2>1
<1> DEFINE last == IF k = 1 THEN seqs[k] ELSE g[k - 1] \o seqs[k]
           f == [i \in 1..k |-> IF i = k THEN last ELSE g[i]]
<1>4. \A i \in 1..(k - 1) : g[i] = IF i = 1 THEN seqs[i] ELSE g[i - 1] \o seqs[i]
  BY <1>3 DEF IsFlat
<1> HIDE DEF last
<1>5. \A i \in 1..k : f[i] = IF i = 1 THEN seqs[i] ELSE f[i - 1] \o seqs[i]
  <2> SUFFICES ASSUME NEW i \in 1..k
      PROVE f[i] = IF i = 1 THEN seqs[i] ELSE f[i - 1] \o seqs[i]
    OBVIOUS
  <2>1. CASE i = k /\ i # 1
    <3>1. i - 1 = k - 1 /\ i - 1 \in 1..k /\ i - 1 # k
      BY <1>2, <2>1
    <3> QED BY <2>1, <3>1 DEF last
  <2>2. CASE i = k /\ i = 1
    BY <2>2 DEF last
  <2>3. CASE i # k /\ i # 1
    <3>1. i - 1 \in 1..k /\ i - 1 # k /\ i \in 1..(k - 1)
      BY <2>3
    <3> QED BY <1>4, <2>3, <3>1
  <2>4. CASE i # k /\ i = 1
    <3>1. i \in 1..(k - 1)
      BY <1>2, <2>4
    <3> QED BY <1>4, <2>4, <3>1
  <2> QED BY <2>1, <2>2, <2>3, <2>4
<1>6. IsFlat(f, seqs, k)
  BY <1>5 DEF IsFlat
<1> QED BY <1>6

\* What FlattenSeq does, step by step.
LEMMA Flattening ==
  ASSUME NEW seqs, Len(seqs) \in Nat, Len(seqs) # 0
  PROVE  \E f : /\ FlattenSeq(seqs) = f[Len(seqs)]
                /\ f[1] = seqs[1]
                /\ \A i \in 2..Len(seqs) : f[i] = f[i - 1] \o seqs[i]
<1> DEFINE n == Len(seqs)
           f == CHOOSE h : IsFlat(h, seqs, n)
<1>1. \E h : IsFlat(h, seqs, n)
  BY FlatIsThere
<1>2. IsFlat(f, seqs, n)
  BY <1>1
<1>3. FlattenSeq(seqs) = f[n]
  BY DEF FlattenSeq, IsFlat
<1> HIDE DEF f
<1>4. f[1] = seqs[1] /\ \A i \in 2..n : f[i] = f[i - 1] \o seqs[i]
  <2>1. 1 \in 1..n /\ \A i \in 2..n : i \in 1..n /\ i # 1
    OBVIOUS
  <2> QED BY <1>2, <2>1 DEF IsFlat
<1> QED BY <1>3, <1>4

LEMMA PathHas ==
  ASSUME NEW p \in Seq(Keys)
  PROVE  PathText(p) \in Seq(Keys) /\ (IsPlain(p) => PathText(p) = p)
<1> DEFINE seqs == [n \in DOMAIN p |-> SegmentsOf[p[n]]]
<1>1. /\ Len(p) \in Nat /\ DOMAIN p = 1..Len(p)
      /\ \A n \in 1..Len(p) : p[n] \in Keys
  OBVIOUS
<1>2. seqs \in [1..Len(p) -> Seq(Keys)]
  BY <1>1, FieldAssumption
<1>3. Len(seqs) = Len(p) /\ \A n \in 1..Len(p) : seqs[n] \in Seq(Keys)
  BY <1>1, <1>2, LenIs
<1>4. PathText(p) = FlattenSeq(seqs)
  BY DEF PathText
<1>5. IsPlain(p) => \A n \in 1..Len(p) : seqs[n] = <<p[n]>>
  BY <1>1 DEF IsPlain
<1> HIDE DEF seqs
<1>6. CASE Len(p) = 0
  <2>1. p = <<>> /\ seqs = <<>>
    BY <1>1, <1>2, <1>6
  <2>2. FlattenSeq(seqs) = seqs
    BY <1>3, <1>6 DEF FlattenSeq
  <2> QED BY <1>4, <2>1, <2>2
<1>7. CASE Len(p) # 0
  <2>1. PICK f : /\ FlattenSeq(seqs) = f[Len(p)]
                 /\ f[1] = seqs[1]
                 /\ \A i \in 2..Len(p) : f[i] = f[i - 1] \o seqs[i]
    <3>1. Len(seqs) \in Nat /\ Len(seqs) # 0
      BY <1>1, <1>3, <1>7
    <3>2. PICK f : /\ FlattenSeq(seqs) = f[Len(seqs)]
                   /\ f[1] = seqs[1]
                   /\ \A i \in 2..Len(seqs) : f[i] = f[i - 1] \o seqs[i]
      BY <3>1, Flattening
    <3> QED BY <1>3, <3>2, Zenon
  <2> DEFINE Right(i) == f[i] \in Seq(Keys) /\ (IsPlain(p) => f[i] = SubSeq(p, 1, i))
             Wrong == {i \in 1..Len(p) : ~ Right(i)}
  <2>2. Wrong = {}
    <3> SUFFICES ASSUME Wrong # {} PROVE FALSE
      OBVIOUS
    <3>1. Wrong \in SUBSET Nat
      OBVIOUS
    <3>2. PICK k \in Wrong : \A j \in Wrong : ~ (j < k)
      BY <3>1, LeastOf
    <3>3. k \in 1..Len(p) /\ p[k] \in Keys
      BY <1>1, <3>2
    <3>4. SubSeq(p, 1, k) = Append(SubSeq(p, 1, k - 1), p[k])
      BY <3>3, ParentOfPrefix
    <3>5. CASE k = 1
      <4>1. SubSeq(p, 1, 1) = <<p[1]>>
        <5>1. SubSeq(p, 1, 0) = <<>>
          BY <1>1, PrefixOf
        <5>2. k - 1 = 0
          BY <3>5
        <5>3. SubSeq(p, 1, 1) = Append(<<>>, p[1])
          BY <3>4, <3>5, <5>1, <5>2, Zenon
        <5> QED BY <3>3, <3>5, <5>3
      <4>2. f[1] \in Seq(Keys) /\ (IsPlain(p) => f[1] = SubSeq(p, 1, 1))
        BY <1>3, <1>5, <2>1, <3>3, <3>5, <4>1
      <4> QED BY <3>2, <3>5, <4>2
    <3>6. CASE k # 1
      <4>1. k - 1 \in 1..Len(p) /\ k - 1 < k /\ k \in 2..Len(p) /\ k - 1 \in 0..Len(p)
        BY <3>3, <3>6
      <4>2. Right(k - 1)
        BY <3>2, <4>1
      <4>3. f[k] = f[k - 1] \o seqs[k]
        BY <2>1, <4>1
      <4>4. f[k] \in Seq(Keys)
        BY <1>3, <3>3, <4>2, <4>3
      <4>5. ASSUME IsPlain(p) PROVE f[k] = SubSeq(p, 1, k)
        <5>1. f[k] = SubSeq(p, 1, k - 1) \o <<p[k]>>
          BY <1>5, <3>3, <4>2, <4>3, <4>5
        <5>2. SubSeq(p, 1, k - 1) \in Seq(Keys)
          BY <4>1, PrefixOf
        <5>3. SubSeq(p, 1, k - 1) \o <<p[k]>> = Append(SubSeq(p, 1, k - 1), p[k])
          BY <3>3, <5>2
        <5> QED BY <3>4, <5>1, <5>3
      <4> QED BY <3>2, <4>4, <4>5
    <3> QED BY <3>5, <3>6
  <2>3. Len(p) \in 1..Len(p) /\ Len(p) \in 0..Len(p)
    BY <1>1, <1>7
  <2>4. Right(Len(p))
    BY <2>2, <2>3
  <2>5. SubSeq(p, 1, Len(p)) = p
    BY <2>3, PrefixOf
  <2> QED BY <1>4, <2>1, <2>4, <2>5
<1> QED BY <1>6, <1>7

IsPathWalk(f, d, segments, n) ==
  f = [i \in 0..n |-> IF i = 0 THEN <<>> ELSE Member(d, f[i - 1], segments[i])]

LEMMA PathWalkIsThere ==
  ASSUME NEW d, NEW segments, NEW n \in Nat
  PROVE  \E f : IsPathWalk(f, d, segments, n)
<1> DEFINE Missing == {k \in Nat : ~ \E f : IsPathWalk(f, d, segments, k)}
<1> SUFFICES ASSUME Missing # {} PROVE FALSE
  OBVIOUS
<1>1. PICK k \in Missing : \A j \in Missing : ~ (j < k)
  BY LeastOf
<1>2. k # 0
  <2> DEFINE f == [i \in 0..0 |-> <<>>]
  <2>1. IsPathWalk(f, d, segments, 0)
    BY DEF IsPathWalk
  <2> QED BY <2>1
<1>3. PICK g : IsPathWalk(g, d, segments, k - 1)
  <2>1. k - 1 \in Nat /\ k - 1 < k
    BY <1>2
  <2> QED BY <1>1, <2>1
<1> DEFINE f == [i \in 0..k |-> IF i = k THEN Member(d, g[k - 1], segments[k]) ELSE g[i]]
<1>4. \A i \in 0..(k - 1) : g[i] = IF i = 0 THEN <<>> ELSE Member(d, g[i - 1], segments[i])
  BY <1>3 DEF IsPathWalk
<1>5. \A i \in 0..k : f[i] = IF i = 0 THEN <<>> ELSE Member(d, f[i - 1], segments[i])
  <2> SUFFICES ASSUME NEW i \in 0..k
      PROVE f[i] = IF i = 0 THEN <<>> ELSE Member(d, f[i - 1], segments[i])
    OBVIOUS
  <2>1. CASE i = k
    <3>1. i - 1 = k - 1 /\ i - 1 \in 0..k /\ i - 1 # k
      BY <1>2, <2>1
    <3> QED BY <1>2, <2>1, <3>1
  <2>2. CASE i # k /\ i # 0
    <3>1. i - 1 \in 0..k /\ i - 1 # k /\ i \in 0..(k - 1)
      BY <2>2
    <3> QED BY <1>4, <2>2, <3>1
  <2>3. CASE i # k /\ i = 0
    <3>1. i \in 0..(k - 1)
      BY <1>2, <2>3
    <3> QED BY <1>4, <2>3, <3>1
  <2> QED BY <2>1, <2>2, <2>3
<1>6. IsPathWalk(f, d, segments, k)
  BY <1>5 DEF IsPathWalk
<1> QED BY <1>6

LEMMA WalkingPath ==
  ASSUME NEW d, NEW segments, Len(segments) \in Nat
  PROVE  /\ PathWalk(d, segments)[0] = <<>>
         /\ \A i \in 1..Len(segments) :
              PathWalk(d, segments)[i] = Member(d, PathWalk(d, segments)[i - 1], segments[i])
<1> DEFINE n == Len(segments)
           at == PathWalk(d, segments)
<1>1. \E f : IsPathWalk(f, d, segments, n)
  BY PathWalkIsThere
<1>2. IsPathWalk(at, d, segments, n)
  BY <1>1 DEF PathWalk, IsPathWalk
<1>3. at = [i \in 0..n |-> IF i = 0 THEN <<>> ELSE Member(d, at[i - 1], segments[i])]
  BY <1>2 DEF IsPathWalk
<1> HIDE DEF at
<1>4. at[0] = <<>> /\ \A i \in 1..n : at[i] = Member(d, at[i - 1], segments[i])
  <2>1. 0 \in 0..n /\ \A i \in 1..n : i \in 0..n /\ i # 0
    OBVIOUS
  <2> QED BY <1>3, <2>1
<1> QED BY <1>4 DEF at

\* A value's own keys lead to it.
LEMMA OwnKeysLead ==
  ASSUME DocInv, NEW p \in DOMAIN doc
  PROVE  resolveInputPath(doc, p) = p
<1>1. p \in Seq(Keys) /\ Len(p) \in Nat /\ \A n \in 1..Len(p) : p[n] \in Keys
  BY DEF DocInv
<1> DEFINE at == PathWalk(doc, p)
<1>2. at[0] = <<>> /\ \A i \in 1..Len(p) : at[i] = Member(doc, at[i - 1], p[i])
  BY <1>1, WalkingPath
<1> HIDE DEF at
<1>3. ASSUME NEW n \in 1..Len(p)
      PROVE  Member(doc, SubSeq(p, 1, n - 1), p[n]) = SubSeq(p, 1, n)
  <2> DEFINE q == SubSeq(p, 1, n)
             r == SubSeq(p, 1, n - 1)
  <2>1. q \in DOMAIN doc /\ r \in DOMAIN doc
    BY <1>1, PrefixIsThere
  <2>2. q # <<>> /\ Parent(q) = r /\ Last(q) = p[n] /\ q = Append(r, p[n])
    BY <1>1, ParentOfPrefix
  <2> HIDE DEF q, r
  <2>3. /\ doc[r] \in {"object", "array"}
        /\ doc[r] = "array" => p[n] \in Range(Indices)
    BY <2>1, <2>2 DEF DocInv
  <2>4. r # NoValue
    BY <2>1, FieldAssumption DEF DocInv
  <2>5. doc[r] = "array" => IndexOf[p[n]] = p[n]
    BY <2>3, FieldAssumption
  <2>6. Member(doc, r, p[n]) = q
    BY <2>1, <2>2, <2>3, <2>4, <2>5 DEF Member
  <2> QED BY <2>6 DEF q, r
<1> DEFINE Wrong == {n \in 0..Len(p) : at[n] # SubSeq(p, 1, n)}
<1>4. Wrong = {}
  <2> SUFFICES ASSUME Wrong # {} PROVE FALSE
    OBVIOUS
  <2>1. Wrong \in SUBSET Nat
    BY <1>1
  <2>2. PICK k \in Wrong : \A j \in Wrong : ~ (j < k)
    BY <2>1, LeastOf
  <2>3. k # 0
    <3>1. SubSeq(p, 1, 0) = <<>>
      BY <1>1, PrefixOf
    <3> QED BY <1>2, <2>2, <3>1
  <2>4. k \in 1..Len(p) /\ k - 1 \in 0..Len(p) /\ k - 1 < k
    BY <1>1, <2>2, <2>3
  <2>5. at[k - 1] = SubSeq(p, 1, k - 1)
    BY <2>2, <2>4
  <2> QED BY <1>2, <1>3, <2>2, <2>4, <2>5
<1>5. at[Len(p)] = p
  <2>1. Len(p) \in 0..Len(p) /\ SubSeq(p, 1, Len(p)) = p
    BY <1>1, PrefixOf
  <2> QED BY <1>4, <2>1
<1> QED BY <1>5 DEF resolveInputPath, at

\* Every field that is offered resolves, in documents of any depth and size.
LEMMA OfferedResolve == ASSUME DocInv PROVE OfferedFieldsResolve
<1> SUFFICES ASSUME NEW p \in buildFieldTree(redactValue(doc)), IsPlain(p)
    PROVE resolveInputPath(doc, PathText(p)) = p
  BY DEF OfferedFieldsResolve
<1>1. p \in DOMAIN doc
  BY DEF buildFieldTree, redactValue
<1>2. PathText(p) = p
  BY <1>1, PathHas DEF DocInv
<1> QED BY <1>1, <1>2, OwnKeysLead

\* For every set of keys and every document: a field that the editor offers
\* from the redacted output, and whose keys are segments as they stand, is
\* found by the worker in the output itself.
THEOREM OfferedAlwaysResolve == FieldSpec => []OfferedFieldsResolve
BY DocInvariance, OfferedResolve, PTL

-----------------------------------------------------------------------------
(* FieldData: a reference in the output and in the redacted output.        *)

\* What the redaction leaves of a value's path.
Left(q) == IF q # NoValue /\ IsBeneathSecret(doc, q) THEN NoValue ELSE q

\* What is in a value is beneath a credential if the value is, or is one.
LEMMA BeneathWithin ==
  ASSUME DocInv, NEW p \in DOMAIN doc, NEW k \in Keys
  PROVE  IsBeneathSecret(doc, Append(p, k))
           <=> IsBeneathSecret(doc, p) \/ IsSecret(doc, p)
<1> DEFINE new == Append(p, k)
<1>1. p \in Seq(Keys) /\ Len(p) \in Nat
  BY DEF DocInv
<1>2. Len(new) - 1 = Len(p) /\ \A n \in 0..Len(p) : SubSeq(new, 1, n) = SubSeq(p, 1, n)
  BY <1>1, Extended
<1>3. SubSeq(p, 1, Len(p)) = p /\ (Len(p) = 0 => p = <<>>)
  BY <1>1, PrefixOf
<1> HIDE DEF new
<1>4. ASSUME IsBeneathSecret(doc, new)
      PROVE  IsBeneathSecret(doc, p) \/ IsSecret(doc, p)
  <2>1. PICK n \in 1..Len(p) : IsSecret(doc, SubSeq(new, 1, n))
    BY <1>2, <1>4 DEF IsBeneathSecret
  <2>2. IsSecret(doc, SubSeq(p, 1, n))
    <3>1. n \in 0..Len(p)
      BY <1>1
    <3> QED BY <1>2, <2>1, <3>1
  <2>3. CASE n = Len(p)
    BY <1>3, <2>2, <2>3
  <2>4. CASE n # Len(p)
    <3>1. n \in 1..Len(p) - 1
      BY <1>1, <2>4
    <3> QED BY <2>2, <3>1 DEF IsBeneathSecret
  <2> QED BY <2>3, <2>4
<1>5. ASSUME NEW n \in 1..Len(p), IsSecret(doc, SubSeq(p, 1, n))
      PROVE  IsBeneathSecret(doc, new)
  <2>1. n \in 0..Len(p) /\ n \in 1..Len(new) - 1
    BY <1>1, <1>2
  <2> QED BY <1>2, <1>5, <2>1 DEF IsBeneathSecret
<1>6. ASSUME IsBeneathSecret(doc, p) PROVE IsBeneathSecret(doc, new)
  <2>1. PICK n \in 1..Len(p) - 1 : IsSecret(doc, SubSeq(p, 1, n))
    BY <1>6 DEF IsBeneathSecret
  <2>2. n \in 1..Len(p)
    BY <1>1
  <2> QED BY <1>5, <2>1, <2>2
<1>7. ASSUME IsSecret(doc, p) PROVE IsBeneathSecret(doc, new)
  <2>1. p # <<>>
    BY <1>7 DEF IsSecret
  <2>2. Len(p) \in 1..Len(p)
    BY <1>1, <1>3, <2>1
  <2> QED BY <1>3, <1>5, <1>7, <2>2
<1> QED BY <1>4, <1>6, <1>7 DEF new

LEMMA RedactedIs ==
  /\ DOMAIN redactValue(doc) = {q \in DOMAIN doc : ~ IsBeneathSecret(doc, q)}
  /\ \A q \in DOMAIN redactValue(doc) :
       redactValue(doc)[q] = IF IsSecret(doc, q) THEN "masked" ELSE doc[q]
BY DEF redactValue

\* One segment leads to the same member, unless a credential is on the way.
LEMMA SameMember ==
  ASSUME DocInv, NEW p \in DOMAIN doc \cup {NoValue}, NEW segment
  PROVE  /\ Member(doc, p, segment) \in DOMAIN doc \cup {NoValue}
         /\ Member(redactValue(doc), Left(p), segment) = Left(Member(doc, p, segment))
<1> DEFINE red == redactValue(doc)
           to == Member(doc, p, segment)
           key == IF doc[p] = "array" THEN IndexOf[segment] ELSE segment
<1>1. NoValue \notin DOMAIN doc /\ DOMAIN doc \subseteq Seq(Keys)
  BY FieldAssumption DEF DocInv
<1>2. /\ DOMAIN red = {q \in DOMAIN doc : ~ IsBeneathSecret(doc, q)}
      /\ \A q \in DOMAIN red : red[q] = IF IsSecret(doc, q) THEN "masked" ELSE doc[q]
  BY RedactedIs
<1>3. /\ \/ to = NoValue
         \/ to = Append(p, key) /\ p # NoValue /\ Append(p, key) \in DOMAIN doc
      /\ to \in DOMAIN doc \cup {NoValue}
  BY DEF Member
<1>4. CASE p = NoValue
  <2>1. Left(p) = NoValue /\ to = NoValue
    BY <1>4 DEF Left, Member
  <2>2. Member(red, NoValue, segment) = NoValue /\ Left(NoValue) = NoValue
    BY DEF Member, Left
  <2> QED BY <1>3, <2>1, <2>2
<1>5. CASE p \in DOMAIN doc
  <2> DEFINE new == Append(p, key)
  <2>1. p # NoValue /\ p \in Seq(Keys)
    BY <1>1, <1>5
  <2>2. ASSUME new \in DOMAIN doc
        PROVE  IsBeneathSecret(doc, new) <=> IsBeneathSecret(doc, p) \/ IsSecret(doc, p)
    <3>1. new \in Seq(Keys)
      BY <1>1, <2>2
    <3>2. Len(p) + 1 \in 1..Len(new) /\ new[Len(p) + 1] = key
      <4> HIDE DEF key
      <4> QED BY <2>1
    <3>3. key \in Keys
      <4> HIDE DEF key, new
      <4>1. new[Len(p) + 1] \in Keys
        BY <3>1, <3>2
      <4> QED BY <3>2, <4>1
    <3> QED BY <1>5, <3>3, BeneathWithin
  <2>3. CASE IsBeneathSecret(doc, p)
    <3>1. Left(p) = NoValue /\ Member(red, NoValue, segment) = NoValue
      BY <2>1, <2>3 DEF Left, Member
    <3>2. Left(to) = NoValue
      BY <1>3, <2>2, <2>3 DEF Left
    <3> QED BY <1>3, <3>1, <3>2
  <2>4. CASE ~ IsBeneathSecret(doc, p)
    <3>1. Left(p) = p /\ p \in DOMAIN red
      BY <1>2, <1>5, <2>4 DEF Left
    <3>2. CASE IsSecret(doc, p)
      <4>1. red[p] = "masked"
        BY <1>2, <3>1, <3>2
      <4>2. Member(red, p, segment) = NoValue
        BY <4>1 DEF Member
      <4>3. Left(to) = NoValue
        BY <1>3, <2>2, <3>2 DEF Left
      <4> QED BY <1>3, <3>1, <4>2, <4>3
    <3>3. CASE ~ IsSecret(doc, p)
      <4>1. red[p] = doc[p]
        BY <1>2, <3>1, <3>3
      <4>2. new \in DOMAIN red <=> new \in DOMAIN doc
        BY <1>2, <2>2, <2>4, <3>3
      <4>3. Member(red, p, segment) = to
        <5> HIDE DEF red
        <5> QED BY <4>1, <4>2 DEF Member
      <4>4. Left(to) = to
        BY <1>3, <2>2, <2>4, <3>3 DEF Left
      <4> QED BY <1>3, <3>1, <4>3, <4>4
    <3> QED BY <3>2, <3>3
  <2> QED BY <2>3, <2>4
<1> QED BY <1>4, <1>5

\* So do all of them.
LEMMA SameValue ==
  ASSUME DocInv, NEW segments \in Seq(Keys)
  PROVE  /\ resolveInputPath(doc, segments) \in DOMAIN doc \cup {NoValue}
         /\ resolveInputPath(redactValue(doc), segments)
              = Left(resolveInputPath(doc, segments))
<1> DEFINE at == PathWalk(doc, segments)
           red == PathWalk(redactValue(doc), segments)
           Right(n) == at[n] \in DOMAIN doc \cup {NoValue} /\ red[n] = Left(at[n])
           Wrong == {n \in 0..Len(segments) : ~ Right(n)}
<1>1. Len(segments) \in Nat
  OBVIOUS
<1>2. /\ at[0] = <<>> /\ red[0] = <<>>
      /\ \A i \in 1..Len(segments) :
           /\ at[i] = Member(doc, at[i - 1], segments[i])
           /\ red[i] = Member(redactValue(doc), red[i - 1], segments[i])
  BY <1>1, WalkingPath
<1> HIDE DEF at, red
<1>3. Wrong = {}
  <2> SUFFICES ASSUME Wrong # {} PROVE FALSE
    OBVIOUS
  <2>1. Wrong \in SUBSET Nat
    BY <1>1
  <2>2. PICK k \in Wrong : \A j \in Wrong : ~ (j < k)
    BY <2>1, LeastOf
  <2>3. Right(0)
    <3>1. <<>> \in DOMAIN doc
      BY DEF DocInv
    <3>2. ~ IsBeneathSecret(doc, <<>>)
      <4>1. 1..Len(<<>>) - 1 = {}
        OBVIOUS
      <4> QED BY <4>1 DEF IsBeneathSecret
    <3> QED BY <1>2, <3>1, <3>2 DEF Left
  <2>4. k # 0
    BY <2>2, <2>3
  <2>5. k \in 1..Len(segments) /\ k - 1 \in 0..Len(segments) /\ k - 1 < k
    BY <1>1, <2>2, <2>4
  <2>6. Right(k - 1)
    BY <2>2, <2>5
  <2>7. Right(k)
    <3>1. /\ at[k] = Member(doc, at[k - 1], segments[k])
          /\ red[k] = Member(redactValue(doc), Left(at[k - 1]), segments[k])
      BY <1>2, <2>5, <2>6
    <3> QED BY <2>6, <3>1, SameMember
  <2> QED BY <2>2, <2>7
<1>4. Right(Len(segments))
  <2>1. Len(segments) \in 0..Len(segments)
    BY <1>1
  <2> QED BY <1>3, <2>1
<1> QED BY <1>4 DEF resolveInputPath, at, red

\* Where no credential is on the way or within, a value is left whole.
LEMMA SameWhole ==
  ASSUME DocInv, NEW p \in DOMAIN doc,
         \A q \in DOMAIN doc : IsSecret(doc, q) => ~ IsPrefix(q, p) /\ ~ IsPrefix(p, q)
  PROVE  /\ Left(p) = p /\ redactValue(doc)[p] = doc[p]
         /\ ValueAt(redactValue(doc), p) = ValueAt(doc, p)
<1> DEFINE red == redactValue(doc)
<1>1. p \in Seq(Keys) /\ Len(p) \in Nat
  BY DEF DocInv
<1>2. /\ DOMAIN red = {q \in DOMAIN doc : ~ IsBeneathSecret(doc, q)}
      /\ \A q \in DOMAIN red : red[q] = IF IsSecret(doc, q) THEN "masked" ELSE doc[q]
  BY RedactedIs
<1> HIDE DEF red
<1>3. ASSUME NEW q \in DOMAIN doc, IsPrefix(p, q)
      PROVE  q \in DOMAIN red /\ red[q] = doc[q]
  <2>1. q \in Seq(Keys) /\ Len(q) \in Nat
    BY DEF DocInv
  <2>2. Len(p) <= Len(q) /\ SubSeq(q, 1, Len(p)) = p
    <3>1. SubSeq(p, 1, Len(p)) = SubSeq(q, 1, Len(p)) /\ Len(p) <= Len(q)
      BY <1>3 DEF IsPrefix
    <3> QED BY <1>1, <3>1, PrefixOf
  <2>3. ~ IsSecret(doc, q)
    BY <1>3
  <2>4. ASSUME NEW n \in 1..Len(q) - 1, IsSecret(doc, SubSeq(q, 1, n))
        PROVE  FALSE
    <3> DEFINE r == SubSeq(q, 1, n)
    <3>1. n \in 0..Len(q) /\ n \in Nat
      BY <2>1
    <3>2. /\ r \in DOMAIN doc /\ r \in Seq(Keys) /\ Len(r) = n
          /\ SubSeq(r, 1, n) = r
          /\ \A m \in 0..n : SubSeq(r, 1, m) = SubSeq(q, 1, m)
      <4>1. n \in 0..n
        BY <3>1
      <4> QED BY <2>1, <3>1, <4>1, PrefixIsThere, PrefixOf
    <3> HIDE DEF r
    <3>3. IsSecret(doc, r) /\ r = SubSeq(q, 1, n)
      BY <2>4 DEF r
    <3>4. CASE Len(p) <= n
      <4>1. SubSeq(r, 1, Len(p)) = p /\ SubSeq(p, 1, Len(p)) = p
        <5>1. Len(p) \in 0..n /\ Len(p) \in 0..Len(p)
          BY <1>1, <3>1, <3>4
        <5>2. SubSeq(r, 1, Len(p)) = SubSeq(q, 1, Len(p))
          BY <3>2, <5>1
        <5>3. SubSeq(p, 1, Len(p)) = p
          BY <1>1, <5>1, PrefixOf
        <5> QED BY <2>2, <5>2, <5>3
      <4>2. IsPrefix(p, r)
        BY <3>2, <3>4, <4>1 DEF IsPrefix
      <4> QED BY <3>2, <3>3, <4>2
    <3>5. CASE n <= Len(p)
      <4>1. Len(p) \in 0..Len(q) /\ n \in 0..Len(p)
        BY <1>1, <2>1, <2>2, <3>1, <3>5
      <4>2. SubSeq(SubSeq(q, 1, Len(p)), 1, n) = SubSeq(q, 1, n)
        BY <2>1, <4>1, PrefixOf
      <4>3. SubSeq(p, 1, n) = r
        BY <2>2, <3>3, <4>2
      <4>4. IsPrefix(r, p)
        BY <3>2, <3>5, <4>3 DEF IsPrefix
      <4> QED BY <3>2, <3>3, <4>4
    <3> QED BY <1>1, <3>1, <3>4, <3>5
  <2>5. ~ IsBeneathSecret(doc, q)
    BY <2>4 DEF IsBeneathSecret
  <2> QED BY <1>2, <2>3, <2>5
<1>4. IsPrefix(p, p)
  BY <1>1 DEF IsPrefix
<1>5. p \in DOMAIN red /\ red[p] = doc[p] /\ ~ IsBeneathSecret(doc, p)
  BY <1>2, <1>3, <1>4
<1>6. {r \in DOMAIN red : IsPrefix(p, r)} = {r \in DOMAIN doc : IsPrefix(p, r)}
  BY <1>2, <1>3
<1>7. ValueAt(red, p) = ValueAt(doc, p)
  <2> DEFINE R == {r \in DOMAIN doc : IsPrefix(p, r)}
  <2>1. \A q \in R : red[q] = doc[q]
    BY <1>3
  <2>2. ValueAt(red, p) = {<<q, red[q]>> : q \in R} /\ ValueAt(doc, p) = {<<q, doc[q]>> : q \in R}
    BY <1>6 DEF ValueAt
  <2> HIDE DEF R
  <2> QED BY <2>1, <2>2
<1> QED BY <1>5, <1>7 DEF red, Left

\* A text with one reference in front.
LEMMA TwoTexts ==
  ASSUME NEW a, NEW b
  PROVE  FlattenSeq(<<a, b>>) = a \o b
<1> DEFINE s == <<a, b>>
<1>1. Len(s) = 2 /\ s[1] = a /\ s[2] = b
  OBVIOUS
<1> HIDE DEF s
<1>2. Len(s) \in Nat /\ Len(s) # 0
  BY <1>1
<1>3. PICK f : /\ FlattenSeq(s) = f[Len(s)] /\ f[1] = s[1]
               /\ \A i \in 2..Len(s) : f[i] = f[i - 1] \o s[i]
  BY <1>2, Flattening
<1>4. FlattenSeq(s) = f[2] /\ f[1] = a /\ f[2] = f[2 - 1] \o s[2]
  BY <1>1, <1>3
<1>5. 2 - 1 = 1
  OBVIOUS
<1>6. f[2] = a \o b
  BY <1>1, <1>4, <1>5, Zenon
<1> QED BY <1>4, <1>6 DEF s

LEMMA SegmentsAre ==
  ASSUME DocInv, NEW segments \in References(doc)
  PROVE  segments \in Seq(Keys) /\ segments # NoValue
<1>1. PICK p \in DOMAIN doc : segments = PathText(p)
  BY DEF References
<1> QED BY <1>1, PathHas, FieldAssumption DEF DocInv

\* Where a reference leads to the same value in what is given as in what is
\* sent, and the value is left whole, the texts are the same.
LEMMA SameTexts ==
  ASSUME DocInv, NEW segments \in References(doc), NEW given, NEW sent \in DOMAIN doc,
         sent = resolveInputPath(doc, segments), sent = resolveInputPath(given, segments),
         given[sent] = doc[sent], ValueAt(given, sent) = ValueAt(doc, sent), sent # NoValue
  PROVE  LET texts == resolveTemplateSegments(<<segments, NoValue>>, given)
             run == interpolateValue(<<segments, NoValue>>, doc)
         IN  run.is = texts[1].is \o texts[2].is
<1>1. segments \in Seq(Keys) /\ segments # NoValue
  BY SegmentsAre
<1> DEFINE template == <<segments, NoValue>>
           texts == resolveTemplateSegments(template, given)
           run == interpolateValue(template, doc)
           value == stringifyInterpolatedValue(doc, sent)
<1>2. DOMAIN template = {1, 2} /\ Len(template) = 2 /\ template[1] = segments /\ template[2] = NoValue
  OBVIOUS
<1>3. stringifyInterpolatedValue(given, sent) = value
  BY DEF stringifyInterpolatedValue
<1>4. texts[1].is = value /\ texts[2].is = <<"text">>
  <2>1. texts[1] = [type |-> "ref", is |-> stringifyInterpolatedValue(given, sent)]
    <3> HIDE DEF template
    <3> QED BY <1>1, <1>2 DEF resolveTemplateSegments
  <2>2. texts[2] = [type |-> "text", is |-> <<"text">>]
    <3> HIDE DEF template
    <3> QED BY <1>2 DEF resolveTemplateSegments
  <2> HIDE DEF texts, value
  <2> QED BY <1>3, <2>1, <2>2
<1>5. run.is = FlattenSeq(<<value, <<"text">>>>)
  <2> DEFINE parts == [n \in DOMAIN template |->
               IF template[n] = NoValue THEN <<"text">>
               ELSE stringifyInterpolatedValue(doc, resolveInputPath(doc, template[n]))]
  <2>1. run.is = FlattenSeq(parts)
    <3> HIDE DEF template
    <3> QED BY <1>2 DEF interpolateValue
  <2>2. parts = <<value, <<"text">>>>
    <3> HIDE DEF template
    <3>1. \A n \in {1, 2} :
            (IF template[n] = NoValue THEN <<"text">>
             ELSE stringifyInterpolatedValue(doc, resolveInputPath(doc, template[n])))
              = IF n = 1 THEN value ELSE <<"text">>
      BY <1>1, <1>2
    <3> HIDE DEF value
    <3>2. parts = [n \in {1, 2} |-> IF n = 1 THEN value ELSE <<"text">>]
      BY <1>2, <3>1
    <3>3. {1, 2} = 1..2
      OBVIOUS
    <3>4. [n \in 1..2 |-> IF n = 1 THEN value ELSE <<"text">>] = <<value, <<"text">>>>
      OBVIOUS
    <3> HIDE DEF parts
    <3> QED BY <3>2, <3>3, <3>4
  <2> QED BY <2>1, <2>2
<1>6. FlattenSeq(<<value, <<"text">>>>) = value \o <<"text">>
  BY TwoTexts
<1> HIDE DEF value, run, texts
<1>7. run.is = texts[1].is \o texts[2].is
  BY <1>4, <1>5, <1>6
<1> QED BY <1>7 DEF run, texts

\* No segment leads anywhere in a text.
LEMMA NothingInCut ==
  ASSUME NEW segments, Len(segments) \in Nat
  PROVE  resolveInputPath(CutText, segments) = IF Len(segments) = 0 THEN <<>> ELSE NoValue
<1> DEFINE at == PathWalk(CutText, segments)
<1>1. /\ at[0] = <<>>
      /\ \A i \in 1..Len(segments) : at[i] = Member(CutText, at[i - 1], segments[i])
  BY WalkingPath
<1>2. resolveInputPath(CutText, segments) = at[Len(segments)]
  BY DEF resolveInputPath
<1> HIDE DEF at
<1>3. ASSUME NEW p, p = <<>> \/ p = NoValue, NEW s
      PROVE  Member(CutText, p, s) = NoValue
  <2>1. p # NoValue => CutText[p] = "leaf"
    BY <1>3 DEF CutText
  <2> QED BY <2>1 DEF Member
<1> DEFINE Wrong == {i \in 1..Len(segments) : at[i] # NoValue}
<1>4. Wrong = {}
  <2> SUFFICES ASSUME Wrong # {} PROVE FALSE
    OBVIOUS
  <2>1. Wrong \in SUBSET Nat
    OBVIOUS
  <2>2. PICK k \in Wrong : \A j \in Wrong : ~ (j < k)
    BY <2>1, LeastOf
  <2>3. k \in 1..Len(segments) /\ k - 1 < k /\ (k - 1 = 0 \/ k - 1 \in 1..Len(segments))
    BY <2>2
  <2>4. at[k - 1] = <<>> \/ at[k - 1] = NoValue
    BY <1>1, <2>2, <2>3
  <2> QED BY <1>1, <1>3, <2>2, <2>3, <2>4
<1> QED BY <1>1, <1>2, <1>4

LEMMA PreviewOfOne ==
  ASSUME DocInv, NEW origin \in Origins, NEW segments \in References(doc)
  PROVE  LET given == Given(origin, doc)
             sent == resolveInputPath(doc, segments)
             shown == resolveInputPath(given, segments)
             texts == resolveTemplateSegments(<<segments, NoValue>>, given)
             run == interpolateValue(<<segments, NoValue>>, doc)
         IN  /\ shown = (IF sent # NoValue /\ Hides(origin, sent, segments) THEN NoValue
                          ELSE sent)
             /\ origin \in {"log", "test"} /\ shown # NoValue /\ IsSecret(doc, shown)
                  => given[shown] = "masked"
             /\ sent # NoValue /\ ShowsWhole(origin, sent)
                  => run.is = texts[1].is \o texts[2].is
<1> DEFINE given == Given(origin, doc)
           sent == resolveInputPath(doc, segments)
           shown == resolveInputPath(given, segments)
           texts == resolveTemplateSegments(<<segments, NoValue>>, given)
           run == interpolateValue(<<segments, NoValue>>, doc)
<1>1. segments \in Seq(Keys) /\ segments # NoValue
  BY SegmentsAre
<1>2. /\ sent \in DOMAIN doc \cup {NoValue}
      /\ resolveInputPath(redactValue(doc), segments) = Left(sent)
  BY <1>1, SameValue
<1>3. CASE origin \in {"log", "test"}
  <2>1. given = redactValue(doc) /\ shown = Left(sent)
    BY <1>2, <1>3 DEF Given
  <2>2. shown = (IF sent # NoValue /\ Hides(origin, sent, segments) THEN NoValue ELSE sent)
    <3> HIDE DEF given, sent, shown
    <3> QED BY <1>3, <2>1 DEF Hides, Left
  <2>3. shown # NoValue /\ IsSecret(doc, shown) => given[shown] = "masked"
    <3> SUFFICES ASSUME shown # NoValue, IsSecret(doc, shown) PROVE given[shown] = "masked"
      OBVIOUS
    <3>1. shown = sent /\ shown \in DOMAIN doc /\ ~ IsBeneathSecret(doc, shown)
      <4> HIDE DEF sent, shown
      <4> QED BY <1>2, <2>1 DEF Left
    <3> HIDE DEF sent, shown, given
    <3> QED BY <2>1, <3>1, RedactedIs
  <2>4. sent # NoValue /\ ShowsWhole(origin, sent) => run.is = texts[1].is \o texts[2].is
    <3> SUFFICES ASSUME sent # NoValue, ShowsWhole(origin, sent)
                 PROVE  run.is = texts[1].is \o texts[2].is
      OBVIOUS
    <3>1. sent \in DOMAIN doc
      BY <1>2
    <3>2. \A q \in DOMAIN doc : IsSecret(doc, q) => ~ IsPrefix(q, sent) /\ ~ IsPrefix(sent, q)
      <4> HIDE DEF sent
      <4> QED BY <1>3 DEF ShowsWhole, IsOpen
    <3>3. /\ shown = sent /\ given[sent] = doc[sent]
          /\ ValueAt(given, sent) = ValueAt(doc, sent)
      <4> HIDE DEF sent, shown, given
      <4> QED BY <2>1, <3>1, <3>2, SameWhole
    <3> QED BY <3>1, <3>3, SameTexts
  <2> HIDE DEF given, sent, shown, texts, run
  <2> QED BY <2>2, <2>3, <2>4 DEF given, sent, shown, texts, run
<1>4. CASE origin \in {"query test", "trigger"}
  <2>1. given = doc /\ shown = sent
    BY <1>4 DEF Given
  <2>2. ~ Hides(origin, sent, segments) /\ origin \notin {"log", "test"}
    <3> HIDE DEF sent
    <3> QED BY <1>4 DEF Hides
  <2>3. sent # NoValue => run.is = texts[1].is \o texts[2].is
    <3> SUFFICES ASSUME sent # NoValue PROVE run.is = texts[1].is \o texts[2].is
      OBVIOUS
    <3>1. sent \in DOMAIN doc /\ given = doc
      BY <1>2, <2>1
    <3> QED BY <3>1, SameTexts
  <2> HIDE DEF given, sent, shown, texts, run
  <2> QED BY <2>1, <2>2, <2>3 DEF given, sent, shown, texts, run
<1>5. CASE origin = "large log"
  <2>1. given = CutText
    BY <1>5 DEF Given
  <2>2. shown = IF Len(segments) = 0 THEN <<>> ELSE NoValue
    BY <1>1, <2>1, NothingInCut
  <2>3. Len(segments) = 0 <=> segments = <<>>
    BY <1>1
  <2>4. segments = <<>> => sent = <<>>
    <3>1. PathWalk(doc, segments)[0] = <<>>
      BY <1>1, WalkingPath
    <3> QED BY <2>3, <3>1 DEF resolveInputPath
  <2>5. shown = (IF sent # NoValue /\ Hides(origin, sent, segments) THEN NoValue ELSE sent)
    <3> HIDE DEF sent, shown, given
    <3> QED BY <1>5, <2>2, <2>3, <2>4 DEF Hides
  <2>6. ~ ShowsWhole(origin, sent) /\ origin \notin {"log", "test"}
    <3> HIDE DEF sent
    <3> QED BY <1>5 DEF ShowsWhole
  <2> HIDE DEF given, sent, shown, texts, run
  <2> QED BY <2>5, <2>6 DEF given, sent, shown, texts, run
<1> QED BY <1>3, <1>4, <1>5 DEF Origins

LEMMA PreviewIs == ASSUME DocInv PROVE PreviewIsWhatIsSent
BY PreviewOfOne DEF PreviewIsWhatIsSent

\* For every set of keys and every document: what the editor previews of a
\* reference, from a log, a test or a trigger, is what the worker sends, or
\* nothing, where it is within a masked credential or the log was too large; in
\* logs and in tests of other steps than a query's a credential is a mask.
THEOREM PreviewAlwaysWhatIsSent == FieldSpec => []PreviewIsWhatIsSent
BY DocInvariance, PreviewIs, PTL

-----------------------------------------------------------------------------
(* Truncation: the bytes of prefixes.                                      *)

LEMMA UnitTyped ==
  ASSUME NEW s, NEW n
  PROVE  UnitBytes(s, n) \in Nat
BY DEF UnitBytes

IsCount(f, s, n) ==
  f = [i \in 0..n |-> IF i = 0 THEN 0 ELSE f[i - 1] + UnitBytes(s, i)]

LEMMA CountIsThere ==
  ASSUME NEW s, NEW n \in Nat
  PROVE  \E f : IsCount(f, s, n)
<1> DEFINE Missing == {k \in Nat : ~ \E f : IsCount(f, s, k)}
<1> SUFFICES ASSUME Missing # {} PROVE FALSE
  OBVIOUS
<1>1. PICK k \in Missing : \A j \in Missing : ~ (j < k)
  BY LeastOf
<1>2. k # 0
  <2> DEFINE f == [i \in 0..0 |-> 0]
  <2>1. IsCount(f, s, 0)
    BY DEF IsCount
  <2> QED BY <2>1
<1>3. PICK g : IsCount(g, s, k - 1)
  <2>1. k - 1 \in Nat /\ k - 1 < k
    BY <1>2
  <2> QED BY <1>1, <2>1
<1> DEFINE f == [i \in 0..k |-> IF i = k THEN g[k - 1] + UnitBytes(s, k) ELSE g[i]]
<1>4. \A i \in 0..(k - 1) : g[i] = IF i = 0 THEN 0 ELSE g[i - 1] + UnitBytes(s, i)
  BY <1>3 DEF IsCount
<1>5. \A i \in 0..k : f[i] = IF i = 0 THEN 0 ELSE f[i - 1] + UnitBytes(s, i)
  <2> SUFFICES ASSUME NEW i \in 0..k
      PROVE f[i] = IF i = 0 THEN 0 ELSE f[i - 1] + UnitBytes(s, i)
    OBVIOUS
  <2>1. CASE i = k
    <3>1. i - 1 = k - 1 /\ i - 1 \in 0..k /\ i - 1 # k
      BY <1>2, <2>1
    <3> QED BY <1>2, <2>1, <3>1
  <2>2. CASE i # k /\ i # 0
    <3>1. i - 1 \in 0..k /\ i - 1 # k /\ i \in 0..(k - 1)
      BY <2>2
    <3> QED BY <1>4, <2>2, <3>1
  <2>3. CASE i # k /\ i = 0
    <3>1. i \in 0..(k - 1)
      BY <1>2, <2>3
    <3> QED BY <1>4, <2>3, <3>1
  <2> QED BY <2>1, <2>2, <2>3
<1>6. IsCount(f, s, k)
  BY <1>5 DEF IsCount
<1> QED BY <1>6

LEMMA Counting ==
  ASSUME NEW s, Len(s) \in Nat
  PROVE  /\ BytesUpTo(s)[0] = 0
         /\ \A n \in 1..Len(s) : BytesUpTo(s)[n] = BytesUpTo(s)[n - 1] + UnitBytes(s, n)
         /\ \A n \in 0..Len(s) : BytesUpTo(s)[n] \in Nat
<1>1. \E f : IsCount(f, s, Len(s))
  BY CountIsThere
<1>2. IsCount(BytesUpTo(s), s, Len(s))
  BY <1>1 DEF BytesUpTo, IsCount
<1> DEFINE upTo == BytesUpTo(s)
<1>3. upTo = [i \in 0..Len(s) |-> IF i = 0 THEN 0 ELSE upTo[i - 1] + UnitBytes(s, i)]
  BY <1>2 DEF IsCount
<1> HIDE DEF upTo
<1>4. upTo[0] = 0 /\ \A n \in 1..Len(s) : upTo[n] = upTo[n - 1] + UnitBytes(s, n)
  <2>1. 0 \in 0..Len(s) /\ \A n \in 1..Len(s) : n \in 0..Len(s) /\ n # 0
    OBVIOUS
  <2> QED BY <1>3, <2>1
<1>5. \A n \in 0..Len(s) : upTo[n] \in Nat
  <2> DEFINE Wrong == {n \in 0..Len(s) : upTo[n] \notin Nat}
  <2> SUFFICES ASSUME Wrong # {} PROVE FALSE
    OBVIOUS
  <2>1. Wrong \in SUBSET Nat
    OBVIOUS
  <2>2. PICK k \in Wrong : \A j \in Wrong : ~ (j < k)
    BY <2>1, LeastOf
  <2>3. k # 0
    BY <1>4, <2>2
  <2>4. k \in 1..Len(s) /\ k - 1 \in 0..Len(s) /\ k - 1 < k
    BY <2>2, <2>3
  <2>5. upTo[k - 1] \in Nat
    BY <2>2, <2>4
  <2> QED BY <1>4, <2>2, <2>4, <2>5, UnitTyped
<1> QED BY <1>4, <1>5 DEF upTo

LEMMA Prefix ==
  ASSUME NEW s \in Seq(Units), NEW n \in 0..Len(s)
  PROVE  /\ slice(s, n) \in Seq(Units) /\ Len(slice(s, n)) = n
         /\ \A i \in 1..n : slice(s, n)[i] = s[i]
BY DEF slice

LEMMA WholePrefix ==
  ASSUME NEW s \in Seq(Units)
  PROVE  slice(s, Len(s)) = s
BY DEF slice

\* The last unit of a prefix, when it stands alone.
Alone(s, n) == UnitBytes(slice(s, n), n)

LEMMA AloneIsLess ==
  ASSUME NEW s \in Seq(Units), NEW n \in 1..Len(s)
  PROVE  Alone(s, n) \in Nat /\ Alone(s, n) <= UnitBytes(s, n)
<1> DEFINE t == slice(s, n)
<1>1. Len(t) = n /\ \A i \in 1..n : t[i] = s[i]
  BY Prefix
<1>2. Alone(s, n) = UnitBytes(t, n)
  BY DEF Alone
<1> HIDE DEF t
<1>3. t[n] = s[n] /\ n \in Nat /\ Len(s) \in Nat
  BY <1>1
<1>4. ~ Pairs(t, n)
  BY <1>1, <1>3 DEF Pairs
<1>5. n > 1 => (Pairs(t, n - 1) <=> Pairs(s, n - 1))
  <2> SUFFICES ASSUME n > 1 PROVE Pairs(t, n - 1) <=> Pairs(s, n - 1)
    OBVIOUS
  <2>1. n - 1 \in 1..n /\ (n - 1) + 1 = n /\ n - 1 < Len(s) /\ n - 1 < n
    BY <1>3
  <2> QED BY <1>1, <1>3, <2>1 DEF Pairs
<1> QED BY <1>2, <1>3, <1>4, <1>5 DEF UnitBytes

LEMMA PrefixBytes ==
  ASSUME NEW s \in Seq(Units), NEW n \in 1..Len(s)
  PROVE  byteLength(slice(s, n)) = BytesUpTo(s)[n - 1] + Alone(s, n)
<1> DEFINE t == slice(s, n)
           upTo == BytesUpTo(s)
           cut == BytesUpTo(t)
<1>1. Len(t) = n /\ (\A i \in 1..n : t[i] = s[i]) /\ Len(s) \in Nat /\ n \in Nat
  BY Prefix
<1>2. /\ cut[0] = 0
      /\ \A i \in 1..n : cut[i] = cut[i - 1] + UnitBytes(t, i)
  BY <1>1, Counting
<1>3. /\ upTo[0] = 0
      /\ \A i \in 1..n : upTo[i] = upTo[i - 1] + UnitBytes(s, i)
  BY <1>1, Counting
<1>4. byteLength(t) = cut[n] /\ Alone(s, n) = UnitBytes(t, n)
  BY <1>1 DEF byteLength, Alone
<1> HIDE DEF t, upTo, cut
<1>5. \A i \in 1..n - 1 : UnitBytes(t, i) = UnitBytes(s, i)
  <2> SUFFICES ASSUME NEW i \in 1..n - 1 PROVE UnitBytes(t, i) = UnitBytes(s, i)
    OBVIOUS
  <2>1. i \in 1..n /\ i + 1 \in 1..n /\ i < n /\ i < Len(s)
    BY <1>1
  <2>2. Pairs(t, i) <=> Pairs(s, i)
    BY <1>1, <2>1 DEF Pairs
  <2>3. i > 1 => (Pairs(t, i - 1) <=> Pairs(s, i - 1))
    <3> SUFFICES ASSUME i > 1 PROVE Pairs(t, i - 1) <=> Pairs(s, i - 1)
      OBVIOUS
    <3>1. i - 1 \in 1..n /\ (i - 1) + 1 = i /\ i - 1 < n /\ i - 1 < Len(s)
      BY <1>1
    <3> QED BY <1>1, <2>1, <3>1 DEF Pairs
  <2> QED BY <1>1, <2>1, <2>2, <2>3 DEF UnitBytes
<1>6. \A i \in 0..n - 1 : cut[i] = upTo[i]
  <2> DEFINE Wrong == {i \in 0..n - 1 : cut[i] # upTo[i]}
  <2> SUFFICES ASSUME Wrong # {} PROVE FALSE
    OBVIOUS
  <2>1. Wrong \in SUBSET Nat
    BY <1>1
  <2>2. PICK k \in Wrong : \A j \in Wrong : ~ (j < k)
    BY <2>1, LeastOf
  <2>3. k # 0
    BY <1>2, <1>3, <2>2
  <2>4. k \in 1..n /\ k \in 1..n - 1 /\ k - 1 \in 0..n - 1 /\ k - 1 < k
    BY <1>1, <2>2, <2>3
  <2>5. cut[k - 1] = upTo[k - 1]
    BY <2>2, <2>4
  <2> QED BY <1>2, <1>3, <1>5, <2>2, <2>4, <2>5
<1>7. n \in 1..n /\ n - 1 \in 0..n - 1
  BY <1>1
<1>8. cut[n] = upTo[n - 1] + UnitBytes(t, n)
  BY <1>2, <1>6, <1>7
<1> QED BY <1>4, <1>8 DEF t, upTo

LEMMA NoBytes ==
  ASSUME NEW s \in Seq(Units)
  PROVE  byteLength(slice(s, 0)) = 0
<1>1. Len(slice(s, 0)) = 0
  BY Prefix
<1> QED BY <1>1, Counting DEF byteLength

LEMMA LongerIsMore ==
  ASSUME NEW s \in Seq(Units), NEW n \in 0..Len(s) - 1
  PROVE  /\ byteLength(slice(s, n)) \in Nat /\ byteLength(slice(s, n + 1)) \in Nat
         /\ byteLength(slice(s, n)) <= byteLength(slice(s, n + 1))
<1> DEFINE upTo == BytesUpTo(s)
<1>1. /\ upTo[0] = 0 /\ Len(s) \in Nat
      /\ \A i \in 1..Len(s) : upTo[i] = upTo[i - 1] + UnitBytes(s, i)
      /\ \A i \in 0..Len(s) : upTo[i] \in Nat
  BY Counting
<1>2. \A i \in 1..Len(s) : byteLength(slice(s, i)) = upTo[i - 1] + Alone(s, i)
  BY PrefixBytes
<1> HIDE DEF upTo
<1>3. n + 1 \in 1..Len(s) /\ (n + 1) - 1 = n /\ n \in 0..Len(s) /\ n \in Nat
  BY <1>1
<1>4. byteLength(slice(s, n + 1)) = upTo[n] + Alone(s, n + 1)
  BY <1>2, <1>3
<1>5. upTo[n] \in Nat /\ Alone(s, n + 1) \in Nat
  BY <1>1, <1>3, AloneIsLess
<1>6. CASE n = 0
  BY <1>4, <1>5, <1>6, NoBytes
<1>7. CASE n # 0
  <2>1. n \in 1..Len(s) /\ n - 1 \in 0..Len(s)
    BY <1>3, <1>7
  <2>2. /\ byteLength(slice(s, n)) = upTo[n - 1] + Alone(s, n)
        /\ upTo[n] = upTo[n - 1] + UnitBytes(s, n)
        /\ upTo[n - 1] \in Nat
    BY <1>1, <1>2, <2>1
  <2>3. /\ Alone(s, n) \in Nat /\ Alone(s, n) <= UnitBytes(s, n)
        /\ UnitBytes(s, n) \in Nat
    BY <2>1, AloneIsLess, UnitTyped
  <2> QED BY <1>4, <1>5, <2>2, <2>3
<1> QED BY <1>6, <1>7

\* If a prefix fits, so does a shorter one.
LEMMA ShorterFits ==
  ASSUME NEW s \in Seq(Units), NEW n \in 0..Len(s), Fits(s, n), NEW m \in 0..n
  PROVE  Fits(s, m)
<1> SUFFICES ASSUME ~ Fits(s, m) PROVE FALSE
  OBVIOUS
<1> DEFINE K == {k \in m..n : Fits(s, k)}
<1>1. K \in SUBSET Nat /\ n \in K /\ Len(s) \in Nat
  OBVIOUS
<1>2. PICK k \in K : \A j \in K : ~ (j < k)
  BY <1>1, LeastOf
<1>3. k # m /\ k \in m..n
  BY <1>2
<1>4. k - 1 \in m..n /\ k - 1 \in 0..Len(s) - 1 /\ (k - 1) + 1 = k /\ k - 1 < k
  BY <1>1, <1>3
<1>5. ~ Fits(s, k - 1)
  BY <1>2, <1>4
<1>6. /\ byteLength(slice(s, k - 1)) \in Nat /\ byteLength(slice(s, k)) \in Nat
      /\ byteLength(slice(s, k - 1)) <= byteLength(slice(s, k))
  BY <1>4, LongerIsMore
<1>7. MaxBytes \in Nat /\ Fits(s, k)
  BY <1>2, BytesAssumption
<1> QED BY <1>5, <1>6, <1>7 DEF Fits

-----------------------------------------------------------------------------
(* Truncation: the search by halves.                                       *)

\* m is the longest prefix between l and h that fits, l being taken to.
IsMost(s, l, h, m) ==
  /\ m \in l..h
  /\ m = l \/ Fits(s, m)
  /\ \A k \in l..h : Fits(s, k) => k <= m

LEMMA MostIsThere ==
  ASSUME NEW s, NEW l \in Nat, NEW h \in Nat, l <= h
  PROVE  \E m : IsMost(s, l, h, m)
<1> DEFINE K == {k \in 0..h - l : h - k = l \/ Fits(s, h - k)}
<1>1. K \in SUBSET Nat /\ h - l \in K
  OBVIOUS
<1>2. PICK k \in K : \A j \in K : ~ (j < k)
  BY <1>1, LeastOf
<1>3. ASSUME NEW j \in l..h, Fits(s, j) PROVE j <= h - k
  <2>1. h - j \in 0..h - l /\ h - (h - j) = j
    OBVIOUS
  <2>2. h - j \in K
    BY <1>3, <2>1
  <2> QED BY <1>2, <2>1, <2>2
<1>4. h - k \in l..h
  BY <1>2
<1> QED BY <1>2, <1>3, <1>4 DEF IsMost

LEMMA MostIsOne ==
  ASSUME NEW s, NEW l \in Nat, NEW h \in Nat, NEW m, NEW n,
         IsMost(s, l, h, m), IsMost(s, l, h, n)
  PROVE  m = n
BY DEF IsMost

\* One step of the search leaves what it looks for where it looks on.
LEMMA Halved ==
  ASSUME NEW s \in Seq(Units), NEW l \in 0..Len(s), NEW h \in 0..Len(s), l < h,
         NEW mid, mid = (l + h + 1) \div 2, NEW m
  PROVE  /\ mid \in l + 1..h
         /\ Fits(s, mid) => (IsMost(s, mid, h, m) => IsMost(s, l, h, m))
         /\ ~ Fits(s, mid) => (IsMost(s, l, mid - 1, m) => IsMost(s, l, h, m))
<1>1. mid \in l + 1..h /\ Len(s) \in Nat
  OBVIOUS
<1>2. ASSUME Fits(s, mid), IsMost(s, mid, h, m) PROVE IsMost(s, l, h, m)
  <2>1. m \in mid..h /\ (m = mid \/ Fits(s, m)) /\ \A k \in mid..h : Fits(s, k) => k <= m
    BY <1>2 DEF IsMost
  <2>2. m \in l..h /\ Fits(s, m)
    BY <1>1, <1>2, <2>1
  <2>3. \A k \in l..h : Fits(s, k) => k <= m
    BY <1>1, <2>1
  <2> QED BY <2>2, <2>3 DEF IsMost
<1>3. ASSUME ~ Fits(s, mid), IsMost(s, l, mid - 1, m) PROVE IsMost(s, l, h, m)
  <2>1. /\ m \in l..mid - 1 /\ (m = l \/ Fits(s, m))
        /\ \A k \in l..mid - 1 : Fits(s, k) => k <= m
    BY <1>3 DEF IsMost
  <2>2. ASSUME NEW k \in l..h, Fits(s, k) PROVE k \in l..mid - 1
    <3>1. k \in 0..Len(s)
      BY <1>1
    <3>2. ~ (mid <= k)
      <4> SUFFICES ASSUME mid <= k PROVE FALSE
        OBVIOUS
      <4>1. mid \in 0..k
        BY <1>1
      <4> QED BY <1>3, <2>2, <3>1, <4>1, ShorterFits
    <3> QED BY <1>1, <3>2
  <2>3. m \in l..h
    BY <1>1, <2>1
  <2> QED BY <2>1, <2>2, <2>3 DEF IsMost
<1> QED BY <1>1, <1>2, <1>3

\* low at the end of a search, by the search that is left.
Halving(s, f, l, h) ==
  LET mid == (l + h + 1) \div 2
  IN  IF l >= h THEN l
      ELSE IF Fits(s, mid) THEN f[<<mid, h>>] ELSE f[<<l, mid - 1>>]

IsSearch(s, f) ==
  f = [w \in (0..Len(s)) \X (0..Len(s)) |-> Halving(s, f, w[1], w[2])]

LEMMA SearchIsThere ==
  ASSUME NEW s \in Seq(Units)
  PROVE  \E f : IsSearch(s, f)
<1> DEFINE D == 0..Len(s)
           most(l, h) == IF l >= h THEN l ELSE CHOOSE m : IsMost(s, l, h, m)
           g == [w \in D \X D |-> most(w[1], w[2])]
<1>1. ASSUME NEW l \in D, NEW h \in D, l <= h
      PROVE  IsMost(s, l, h, most(l, h))
  <2>1. CASE l = h
    <3>1. most(l, h) = l
      BY <2>1
    <3>2. IsMost(s, l, h, l)
      BY <2>1 DEF IsMost
    <3> QED BY <3>1, <3>2
  <2>2. CASE l # h
    <3>1. ~ (l >= h) /\ l \in Nat /\ h \in Nat
      BY <1>1, <2>2
    <3>2. \E m : IsMost(s, l, h, m)
      BY <1>1, <3>1, MostIsThere
    <3>3. IsMost(s, l, h, CHOOSE m : IsMost(s, l, h, m))
      BY <3>2
    <3> QED BY <3>1, <3>3
  <2> QED BY <2>1, <2>2
<1>1a. \A l, h \in D : g[<<l, h>>] = most(l, h)
  <2> HIDE DEF most, D
  <2> QED OBVIOUS
<1>2. ASSUME NEW l \in D, NEW h \in D
      PROVE  g[<<l, h>>] = Halving(s, g, l, h)
  <2> HIDE DEF g
  <2>1. g[<<l, h>>] = most(l, h)
    BY <1>1a
  <2>2. CASE l >= h
    BY <2>1, <2>2 DEF Halving
  <2>3. CASE ~ (l >= h)
    <3> DEFINE mid == (l + h + 1) \div 2
    <3>1. l < h /\ l <= h /\ l \in Nat /\ h \in Nat
      BY <2>3
    <3>2. mid \in l + 1..h
      BY <3>1
    <3>3. mid \in D /\ mid - 1 \in D /\ mid <= h /\ l <= mid - 1
      BY <3>2
    <3>4. IsMost(s, l, h, most(l, h))
      BY <1>1, <3>1
    <3>5. CASE Fits(s, mid)
      <4>1. IsMost(s, mid, h, most(mid, h))
        BY <1>1, <3>3
      <4>2. IsMost(s, l, h, most(mid, h))
        BY <3>1, <3>5, <4>1, Halved
      <4>3. most(l, h) = most(mid, h)
        BY <3>1, <3>4, <4>2, MostIsOne
      <4>4. g[<<mid, h>>] = most(mid, h)
        BY <1>1a, <3>3
      <4>5. Halving(s, g, l, h) = g[<<mid, h>>]
        BY <2>3, <3>5 DEF Halving
      <4> QED BY <2>1, <4>3, <4>4, <4>5
    <3>6. CASE ~ Fits(s, mid)
      <4>1. IsMost(s, l, mid - 1, most(l, mid - 1))
        BY <1>1, <3>3
      <4>2. IsMost(s, l, h, most(l, mid - 1))
        BY <3>1, <3>6, <4>1, Halved
      <4>3. most(l, h) = most(l, mid - 1)
        BY <3>1, <3>4, <4>2, MostIsOne
      <4>4. g[<<l, mid - 1>>] = most(l, mid - 1)
        BY <1>1a, <3>3
      <4>5. Halving(s, g, l, h) = g[<<l, mid - 1>>]
        BY <2>3, <3>6 DEF Halving
      <4> QED BY <2>1, <4>3, <4>4, <4>5
    <3> QED BY <3>5, <3>6
  <2> QED BY <2>2, <2>3
<1> HIDE DEF most
<1>3. g = [w \in D \X D |-> Halving(s, g, w[1], w[2])]
  <2> DEFINE k == [w \in D \X D |-> Halving(s, g, w[1], w[2])]
  <2>1. DOMAIN g = D \X D /\ DOMAIN k = D \X D
    OBVIOUS
  <2>2. ASSUME NEW p \in D \X D PROVE g[p] = k[p]
    <3>1. PICK l \in D, h \in D : p = <<l, h>>
      OBVIOUS
    <3>2. g[<<l, h>>] = k[<<l, h>>]
      BY <1>2
    <3> QED BY <3>1, <3>2
  <2> QED BY <2>1, <2>2
<1> QED BY <1>3 DEF IsSearch

LEMMA SearchFinds ==
  ASSUME NEW s \in Seq(Units)
  PROVE  IsMost(s, 0, Len(s), Searched(s)[<<0, Len(s)>>])
<1> DEFINE low == Searched(s)
           D == 0..Len(s)
<1>1. IsSearch(s, low)
  BY SearchIsThere DEF Searched, IsSearch, Halving
<1>2. \A l, h \in D : low[<<l, h>>] = Halving(s, low, l, h)
  BY <1>1 DEF IsSearch
<1> HIDE DEF low
<1> DEFINE Wrong == {n \in Nat : \E l, h \in D : /\ l <= h /\ n = h - l
                                                /\ ~ IsMost(s, l, h, low[<<l, h>>])}
<1>3. Wrong = {}
  <2> SUFFICES ASSUME Wrong # {} PROVE FALSE
    OBVIOUS
  <2>1. PICK n \in Wrong : \A j \in Wrong : ~ (j < n)
    BY LeastOf
  <2>2. PICK l \in D, h \in D : l <= h /\ n = h - l /\ ~ IsMost(s, l, h, low[<<l, h>>])
    BY <2>1
  <2>3. ASSUME NEW a \in D, NEW b \in D, a <= b, b - a < n
        PROVE  IsMost(s, a, b, low[<<a, b>>])
    <3>1. b - a \in Nat
      BY <2>3
    <3> QED BY <2>1, <2>3, <3>1
  <2>4. l # h
    <3> SUFFICES ASSUME l = h PROVE FALSE
      OBVIOUS
    <3>1. low[<<l, h>>] = Halving(s, low, l, h) /\ l >= h
      BY <1>2
    <3>2. low[<<l, h>>] = l
      BY <3>1 DEF Halving
    <3> QED BY <2>2, <3>2 DEF IsMost
  <2>5. l < h /\ ~ (l >= h)
    BY <2>2, <2>4
  <2> DEFINE mid == (l + h + 1) \div 2
  <2>6. mid \in l + 1..h
    BY <2>5
  <2>7. mid \in D /\ mid - 1 \in D /\ mid <= h /\ l <= mid - 1
        /\ h - mid < n /\ (mid - 1) - l < n
    BY <2>2, <2>6
  <2>8. CASE Fits(s, mid)
    <3>1. low[<<l, h>>] = low[<<mid, h>>]
      BY <1>2, <2>5, <2>8 DEF Halving
    <3>2. IsMost(s, mid, h, low[<<mid, h>>])
      BY <2>3, <2>7
    <3> QED BY <2>2, <2>5, <2>8, <3>1, <3>2, Halved
  <2>9. CASE ~ Fits(s, mid)
    <3>1. low[<<l, h>>] = low[<<l, mid - 1>>]
      BY <1>2, <2>5, <2>9 DEF Halving
    <3>2. IsMost(s, l, mid - 1, low[<<l, mid - 1>>])
      BY <2>3, <2>7
    <3> QED BY <2>2, <2>5, <2>9, <3>1, <3>2, Halved
  <2> QED BY <2>8, <2>9
<1>4. 0 \in D /\ Len(s) \in D /\ 0 <= Len(s) /\ Len(s) - 0 \in Nat
  OBVIOUS
<1>5. IsMost(s, 0, Len(s), low[<<0, Len(s)>>])
  BY <1>3, <1>4
<1> QED BY <1>5 DEF low

LEMMA CutIs ==
  ASSUME NEW s \in Seq(Units)
  PROVE  LET cut == truncatePayload(s) IN
           /\ IsPrefix(cut, s)
           /\ byteLength(cut) <= MaxBytes
           /\ cut = s \/ byteLength(slice(s, Len(cut) + 1)) > MaxBytes
<1>1. CASE byteLength(s) <= MaxBytes
  <2>1. truncatePayload(s) = s
    BY <1>1 DEF truncatePayload
  <2>2. IsPrefix(s, s)
    BY DEF IsPrefix
  <2> QED BY <1>1, <2>1, <2>2
<1>2. CASE ~ (byteLength(s) <= MaxBytes)
  <2> DEFINE m == Searched(s)[<<0, Len(s)>>]
  <2>1. IsMost(s, 0, Len(s), m)
    BY SearchFinds
  <2>2. truncatePayload(s) = slice(s, m)
    BY <1>2 DEF truncatePayload, truncateStringToBytes
  <2> HIDE DEF m
  <2>3. m \in 0..Len(s) /\ Len(s) \in Nat
    BY <2>1 DEF IsMost
  <2>4. Fits(s, m)
    <3>1. Fits(s, 0)
      BY NoBytes, BytesAssumption DEF Fits
    <3> QED BY <2>1, <3>1 DEF IsMost
  <2>5. m # Len(s)
    BY <1>2, <2>4, WholePrefix DEF Fits
  <2>6. m + 1 \in 0..Len(s) /\ ~ (m + 1 <= m) /\ m \in 0..Len(s) - 1
    BY <2>3, <2>5
  <2>7. ~ Fits(s, m + 1)
    BY <2>1, <2>6 DEF IsMost
  <2>8. byteLength(slice(s, m + 1)) > MaxBytes
    <3>1. byteLength(slice(s, m + 1)) \in Nat /\ MaxBytes \in Nat
      BY <2>6, LongerIsMore, BytesAssumption
    <3> QED BY <2>7, <3>1 DEF Fits
  <2>9. Len(slice(s, m)) = m /\ IsPrefix(slice(s, m), s)
    BY <2>3, Prefix DEF IsPrefix, slice
  <2> QED BY <2>2, <2>4, <2>8, <2>9 DEF Fits
<1> QED BY <1>1, <1>2

\* For every size in bytes and every string: what is stored of a payload is its
\* longest beginning that fits.
THEOREM CutIsAlwaysLongest == PayloadSpec => []CutIsLongestPrefix
<1> DEFINE Typed == payload \in Seq(Units)
<1>1. PayloadInit => Typed
  BY DEF PayloadInit
<1>2. Typed /\ [PayloadNext]_payloadVars => Typed'
  BY DEF PayloadNext, AddUnit, payloadVars
<1>3. Typed => CutIsLongestPrefix
  BY CutIs DEF CutIsLongestPrefix
<1> HIDE DEF Typed
<1> QED BY <1>1, <1>2, <1>3, PTL DEF PayloadSpec

-----------------------------------------------------------------------------
(* TemplatedInput: texts and nodes, node by node.                          *)

IsResult(f, nodes, n) ==
  f = [i \in 0..n |-> IF i = 0 THEN <<>> ELSE Joined(f[i - 1], nodes[i])]

LEMMA ResultIsThere ==
  ASSUME NEW nodes, NEW n \in Nat
  PROVE  \E f : IsResult(f, nodes, n)
<1> DEFINE Missing == {k \in Nat : ~ \E f : IsResult(f, nodes, k)}
<1> SUFFICES ASSUME Missing # {} PROVE FALSE
  OBVIOUS
<1>1. PICK k \in Missing : \A j \in Missing : ~ (j < k)
  BY LeastOf
<1>2. k # 0
  <2> DEFINE f == [i \in 0..0 |-> <<>>]
  <2>1. IsResult(f, nodes, 0)
    BY DEF IsResult
  <2> QED BY <2>1
<1>3. PICK g : IsResult(g, nodes, k - 1)
  <2>1. k - 1 \in Nat /\ k - 1 < k
    BY <1>2
  <2> QED BY <1>1, <2>1
<1> DEFINE f == [i \in 0..k |-> IF i = k THEN Joined(g[k - 1], nodes[k]) ELSE g[i]]
<1>4. \A i \in 0..(k - 1) : g[i] = IF i = 0 THEN <<>> ELSE Joined(g[i - 1], nodes[i])
  BY <1>3 DEF IsResult
<1>5. \A i \in 0..k : f[i] = IF i = 0 THEN <<>> ELSE Joined(f[i - 1], nodes[i])
  <2> SUFFICES ASSUME NEW i \in 0..k
      PROVE f[i] = IF i = 0 THEN <<>> ELSE Joined(f[i - 1], nodes[i])
    OBVIOUS
  <2>1. CASE i = k
    <3>1. i - 1 = k - 1 /\ i - 1 \in 0..k /\ i - 1 # k
      BY <1>2, <2>1
    <3> QED BY <1>2, <2>1, <3>1
  <2>2. CASE i # k /\ i # 0
    <3>1. i - 1 \in 0..k /\ i - 1 # k /\ i \in 0..(k - 1)
      BY <2>2
    <3> QED BY <1>4, <2>2, <3>1
  <2>3. CASE i # k /\ i = 0
    <3>1. i \in 0..(k - 1)
      BY <1>2, <2>3
    <3> QED BY <1>4, <2>3, <3>1
  <2> QED BY <2>1, <2>2, <2>3
<1>6. IsResult(f, nodes, k)
  BY <1>5 DEF IsResult
<1> QED BY <1>6

\* What serializeFromDom does, step by step.
LEMMA Resulting ==
  ASSUME NEW nodes, Len(nodes) \in Nat
  PROVE  \E f : /\ ResultAfter(nodes) = f
                /\ f[0] = <<>>
                /\ \A i \in 1..Len(nodes) : f[i] = Joined(f[i - 1], nodes[i])
<1> DEFINE n == Len(nodes)
           f == CHOOSE h : IsResult(h, nodes, n)
<1>1. \E h : IsResult(h, nodes, n)
  BY ResultIsThere
<1>2. IsResult(f, nodes, n)
  BY <1>1
<1>3. ResultAfter(nodes) = f
  BY DEF ResultAfter, IsResult
<1> HIDE DEF f
<1>4. f[0] = <<>> /\ \A i \in 1..n : f[i] = Joined(f[i - 1], nodes[i])
  <2>1. 0 \in 0..n /\ \A i \in 1..n : i \in 0..n /\ i # 0
    OBVIOUS
  <2> QED BY <1>2, <2>1 DEF IsResult
<1> QED BY <1>3, <1>4

IsUnwrapped(f, nodes, multiline, n) ==
  f = [i \in 0..n |-> IF i = 0 THEN <<>> ELSE Unwrap(f[i - 1], nodes[i], multiline)]

LEMMA UnwrappedIsThere ==
  ASSUME NEW nodes, NEW multiline, NEW n \in Nat
  PROVE  \E f : IsUnwrapped(f, nodes, multiline, n)
<1> DEFINE Missing == {k \in Nat : ~ \E f : IsUnwrapped(f, nodes, multiline, k)}
<1> SUFFICES ASSUME Missing # {} PROVE FALSE
  OBVIOUS
<1>1. PICK k \in Missing : \A j \in Missing : ~ (j < k)
  BY LeastOf
<1>2. k # 0
  <2> DEFINE f == [i \in 0..0 |-> <<>>]
  <2>1. IsUnwrapped(f, nodes, multiline, 0)
    BY DEF IsUnwrapped
  <2> QED BY <2>1
<1>3. PICK g : IsUnwrapped(g, nodes, multiline, k - 1)
  <2>1. k - 1 \in Nat /\ k - 1 < k
    BY <1>2
  <2> QED BY <1>1, <2>1
<1> DEFINE f == [i \in 0..k |-> IF i = k THEN Unwrap(g[k - 1], nodes[k], multiline) ELSE g[i]]
<1>4. \A i \in 0..(k - 1) : g[i] = IF i = 0 THEN <<>> ELSE Unwrap(g[i - 1], nodes[i], multiline)
  BY <1>3 DEF IsUnwrapped
<1>5. \A i \in 0..k : f[i] = IF i = 0 THEN <<>> ELSE Unwrap(f[i - 1], nodes[i], multiline)
  <2> SUFFICES ASSUME NEW i \in 0..k
      PROVE f[i] = IF i = 0 THEN <<>> ELSE Unwrap(f[i - 1], nodes[i], multiline)
    OBVIOUS
  <2>1. CASE i = k
    <3>1. i - 1 = k - 1 /\ i - 1 \in 0..k /\ i - 1 # k
      BY <1>2, <2>1
    <3> QED BY <1>2, <2>1, <3>1
  <2>2. CASE i # k /\ i # 0
    <3>1. i - 1 \in 0..k /\ i - 1 # k /\ i \in 0..(k - 1)
      BY <2>2
    <3> QED BY <1>4, <2>2, <3>1
  <2>3. CASE i # k /\ i = 0
    <3>1. i \in 0..(k - 1)
      BY <1>2, <2>3
    <3> QED BY <1>4, <2>3, <3>1
  <2> QED BY <2>1, <2>2, <2>3
<1>6. IsUnwrapped(f, nodes, multiline, k)
  BY <1>5 DEF IsUnwrapped
<1> QED BY <1>6

\* What normalizeDom does, step by step.
LEMMA Unwrapping ==
  ASSUME NEW nodes, NEW multiline, Len(nodes) \in Nat
  PROVE  \E f : /\ UnwrappedAfter(nodes, multiline) = f
                /\ f[0] = <<>>
                /\ \A i \in 1..Len(nodes) : f[i] = Unwrap(f[i - 1], nodes[i], multiline)
<1> DEFINE n == Len(nodes)
           f == CHOOSE h : IsUnwrapped(h, nodes, multiline, n)
<1>1. \E h : IsUnwrapped(h, nodes, multiline, n)
  BY UnwrappedIsThere
<1>2. IsUnwrapped(f, nodes, multiline, n)
  BY <1>1
<1>3. UnwrappedAfter(nodes, multiline) = f
  BY DEF UnwrappedAfter, IsUnwrapped
<1> HIDE DEF f
<1>4. f[0] = <<>> /\ \A i \in 1..n : f[i] = Unwrap(f[i - 1], nodes[i], multiline)
  <2>1. 0 \in 0..n /\ \A i \in 1..n : i \in 0..n /\ i # 0
    OBVIOUS
  <2> QED BY <1>2, <2>1 DEF IsUnwrapped
<1> QED BY <1>3, <1>4

IsKept(f, s, e, n) ==
  f = [i \in 0..n |-> IF i = 0 THEN <<>> ELSE (IF s[i] = e THEN f[i - 1] ELSE Append(f[i - 1], s[i]))]

LEMMA KeptIsThere ==
  ASSUME NEW s, NEW e, NEW n \in Nat
  PROVE  \E f : IsKept(f, s, e, n)
<1> DEFINE Missing == {k \in Nat : ~ \E f : IsKept(f, s, e, k)}
<1> SUFFICES ASSUME Missing # {} PROVE FALSE
  OBVIOUS
<1>1. PICK k \in Missing : \A j \in Missing : ~ (j < k)
  BY LeastOf
<1>2. k # 0
  <2> DEFINE f == [i \in 0..0 |-> <<>>]
  <2>1. IsKept(f, s, e, 0)
    BY DEF IsKept
  <2> QED BY <2>1
<1>3. PICK g : IsKept(g, s, e, k - 1)
  <2>1. k - 1 \in Nat /\ k - 1 < k
    BY <1>2
  <2> QED BY <1>1, <2>1
<1> DEFINE f == [i \in 0..k |-> IF i = k THEN (IF s[k] = e THEN g[k - 1] ELSE Append(g[k - 1], s[k])) ELSE g[i]]
<1>4. \A i \in 0..(k - 1) : g[i] = IF i = 0 THEN <<>> ELSE (IF s[i] = e THEN g[i - 1] ELSE Append(g[i - 1], s[i]))
  BY <1>3 DEF IsKept
<1>5. \A i \in 0..k : f[i] = IF i = 0 THEN <<>> ELSE (IF s[i] = e THEN f[i - 1] ELSE Append(f[i - 1], s[i]))
  <2> SUFFICES ASSUME NEW i \in 0..k
      PROVE f[i] = IF i = 0 THEN <<>> ELSE (IF s[i] = e THEN f[i - 1] ELSE Append(f[i - 1], s[i]))
    OBVIOUS
  <2>1. CASE i = k
    <3>1. i - 1 = k - 1 /\ i - 1 \in 0..k /\ i - 1 # k
      BY <1>2, <2>1
    <3> QED BY <1>2, <2>1, <3>1
  <2>2. CASE i # k /\ i # 0
    <3>1. i - 1 \in 0..k /\ i - 1 # k /\ i \in 0..(k - 1)
      BY <2>2
    <3> QED BY <1>4, <2>2, <3>1
  <2>3. CASE i # k /\ i = 0
    <3>1. i \in 0..(k - 1)
      BY <1>2, <2>3
    <3> QED BY <1>4, <2>3, <3>1
  <2> QED BY <2>1, <2>2, <2>3
<1>6. IsKept(f, s, e, k)
  BY <1>5 DEF IsKept
<1> QED BY <1>6

\* What Without does, step by step.
LEMMA Leaving ==
  ASSUME NEW s, NEW e, Len(s) \in Nat
  PROVE  \E f : /\ Without(s, e) = f[Len(s)]
                /\ f[0] = <<>>
                /\ \A i \in 1..Len(s) : f[i] = (IF s[i] = e THEN f[i - 1] ELSE Append(f[i - 1], s[i]))
<1> DEFINE n == Len(s)
           f == CHOOSE h : IsKept(h, s, e, n)
<1>1. \E h : IsKept(h, s, e, n)
  BY KeptIsThere
<1>2. IsKept(f, s, e, n)
  BY <1>1
<1>3. Without(s, e) = f[Len(s)]
  BY DEF Without, IsKept
<1> HIDE DEF f
<1>4. f[0] = <<>> /\ \A i \in 1..n : f[i] = (IF s[i] = e THEN f[i - 1] ELSE Append(f[i - 1], s[i]))
  <2>1. 0 \in 0..n /\ \A i \in 1..n : i \in 0..n /\ i # 0
    OBVIOUS
  <2> QED BY <1>2, <2>1 DEF IsKept
<1> QED BY <1>3, <1>4

-----------------------------------------------------------------------------
(* TemplatedInput: sequences without an element.                           *)

LEMMA NextPrefix ==
  ASSUME NEW S, NEW p \in Seq(S), NEW n \in 1..Len(p)
  PROVE  /\ SubSeq(p, 1, n) = Append(SubSeq(p, 1, n - 1), p[n])
         /\ SubSeq(p, 1, n - 1) \in Seq(S) /\ p[n] \in S
OBVIOUS

LEMMA JoinedIs ==
  ASSUME NEW S, NEW s \in Seq(S), NEW t \in Seq(S)
  PROVE  /\ s \o t \in Seq(S) /\ Len(s \o t) = Len(s) + Len(t)
         /\ \A n \in 1..Len(s) : (s \o t)[n] = s[n]
         /\ \A n \in 1..Len(t) : (s \o t)[Len(s) + n] = t[n]
OBVIOUS

LEMMA AppendJoined ==
  ASSUME NEW S, NEW s \in Seq(S), NEW t \in Seq(S), NEW x \in S
  PROVE  /\ s \o Append(t, x) = Append(s \o t, x) /\ s \o t \in Seq(S)
         /\ s \o <<x>> = Append(s, x)
OBVIOUS

LEMMA WithoutNothing == ASSUME NEW e PROVE Without(<<>>, e) = <<>>
<1>1. Len(<<>>) = 0
  OBVIOUS
<1>2. PICK f : Without(<<>>, e) = f[0] /\ f[0] = <<>>
  BY <1>1, Leaving
<1> QED BY <1>2

LEMMA WithoutAppend ==
  ASSUME NEW S, NEW s \in Seq(S), NEW x \in S, NEW e
  PROVE  /\ x = e => Without(Append(s, x), e) = Without(s, e)
         /\ x # e => Without(Append(s, x), e) = Append(Without(s, e), x)
<1> DEFINE t == Append(s, x)
           n == Len(s)
<1>1. /\ n \in Nat /\ Len(t) = n + 1 /\ t[n + 1] = x
      /\ \A i \in 1..n : t[i] = s[i]
  OBVIOUS
<1> HIDE DEF t
<1>2. Len(t) \in Nat
  BY <1>1
<1>3. PICK f : /\ Without(s, e) = f[n] /\ f[0] = <<>>
               /\ \A i \in 1..n : f[i] = (IF s[i] = e THEN f[i - 1] ELSE Append(f[i - 1], s[i]))
  BY <1>1, Leaving
<1> HIDE DEF n
<1>4. PICK g : /\ Without(t, e) = g[Len(t)] /\ g[0] = <<>>
               /\ \A i \in 1..Len(t) : g[i] = (IF t[i] = e THEN g[i - 1] ELSE Append(g[i - 1], t[i]))
  BY <1>2, Leaving
<1> DEFINE Wrong == {i \in 0..n : g[i] # f[i]}
<1>5. Wrong = {}
  <2> SUFFICES ASSUME Wrong # {} PROVE FALSE
    OBVIOUS
  <2>1. Wrong \in SUBSET Nat
    BY <1>1
  <2>2. PICK k \in Wrong : \A j \in Wrong : ~ (j < k)
    BY <2>1, LeastOf
  <2>3. k # 0
    BY <1>3, <1>4, <2>2
  <2>4. k \in 1..n /\ k \in 1..Len(t) /\ k - 1 \in 0..n /\ k - 1 < k
    BY <1>1, <2>2, <2>3
  <2>5. g[k - 1] = f[k - 1] /\ t[k] = s[k]
    BY <1>1, <2>2, <2>4
  <2> QED BY <1>3, <1>4, <2>2, <2>4, <2>5
<1>6. g[n] = f[n]
  <2>1. n \in 0..n
    BY <1>1
  <2> QED BY <1>5, <2>1
<1> DEFINE m == n + 1
<1>7. m \in 1..Len(t) /\ m - 1 = n /\ Len(t) = m /\ t[m] = x
  BY <1>1
<1> HIDE DEF m
<1>8. g[m] = (IF t[m] = e THEN g[m - 1] ELSE Append(g[m - 1], t[m]))
  BY <1>4, <1>7, Zenon
<1>9. Without(t, e) = IF x = e THEN Without(s, e) ELSE Append(Without(s, e), x)
  BY <1>3, <1>4, <1>6, <1>7, <1>8, Zenon
<1> QED BY <1>9 DEF t

LEMMA WithoutTyped ==
  ASSUME NEW S, NEW s \in Seq(S), NEW e
  PROVE  Without(s, e) \in Seq(S)
<1> DEFINE Wrong == {n \in 0..Len(s) : Without(SubSeq(s, 1, n), e) \notin Seq(S)}
<1>1. Len(s) \in Nat
  OBVIOUS
<1>2. Wrong = {}
  <2> SUFFICES ASSUME Wrong # {} PROVE FALSE
    OBVIOUS
  <2>1. Wrong \in SUBSET Nat
    BY <1>1
  <2>2. PICK k \in Wrong : \A j \in Wrong : ~ (j < k)
    BY <2>1, LeastOf
  <2>3. k # 0
    <3>1. SubSeq(s, 1, 0) = <<>> /\ <<>> \in Seq(S)
      BY <1>1, PrefixOf
    <3> QED BY <2>2, <3>1, WithoutNothing
  <2>4. k \in 1..Len(s) /\ k - 1 \in 0..Len(s) /\ k - 1 < k
    BY <1>1, <2>2, <2>3
  <2>5. Without(SubSeq(s, 1, k - 1), e) \in Seq(S)
    BY <2>2, <2>4
  <2>6. /\ SubSeq(s, 1, k) = Append(SubSeq(s, 1, k - 1), s[k])
        /\ SubSeq(s, 1, k - 1) \in Seq(S) /\ s[k] \in S
    BY <2>4, NextPrefix
  <2>7. Without(SubSeq(s, 1, k), e) \in Seq(S)
    <3>1. Append(Without(SubSeq(s, 1, k - 1), e), s[k]) \in Seq(S)
      BY <2>5, <2>6
    <3>2. \/ Without(SubSeq(s, 1, k), e) = Without(SubSeq(s, 1, k - 1), e)
          \/ Without(SubSeq(s, 1, k), e) = Append(Without(SubSeq(s, 1, k - 1), e), s[k])
      <4> DEFINE u == SubSeq(s, 1, k - 1)
                 x == s[k]
      <4>1. SubSeq(s, 1, k) = Append(u, x) /\ u \in Seq(S) /\ x \in S
        BY <2>6
      <4> HIDE DEF u, x
      <4>2. \/ Without(Append(u, x), e) = Without(u, e)
            \/ Without(Append(u, x), e) = Append(Without(u, e), x)
        BY <4>1, WithoutAppend
      <4> QED BY <4>1, <4>2 DEF u, x
    <3> QED BY <2>5, <3>1, <3>2
  <2> QED BY <2>2, <2>7
<1>3. Len(s) \in 0..Len(s) /\ SubSeq(s, 1, Len(s)) = s
  BY <1>1, PrefixOf
<1> QED BY <1>2, <1>3

LEMMA WithoutJoined ==
  ASSUME NEW S, NEW s \in Seq(S), NEW t \in Seq(S), NEW e
  PROVE  Without(s \o t, e) = Without(s, e) \o Without(t, e)
<1> DEFINE Right(n) == Without(s \o SubSeq(t, 1, n), e)
                         = Without(s, e) \o Without(SubSeq(t, 1, n), e)
           Wrong == {n \in 0..Len(t) : ~ Right(n)}
<1>1. Len(t) \in Nat
  OBVIOUS
<1>2. Wrong = {}
  <2> SUFFICES ASSUME Wrong # {} PROVE FALSE
    OBVIOUS
  <2>1. Wrong \in SUBSET Nat
    BY <1>1
  <2>2. PICK k \in Wrong : \A j \in Wrong : ~ (j < k)
    BY <2>1, LeastOf
  <2>3. k # 0
    <3>1. SubSeq(t, 1, 0) = <<>> /\ s \o <<>> = s
      BY <1>1, PrefixOf
    <3>2. Without(s, e) \o <<>> = Without(s, e)
      BY WithoutTyped
    <3>3. Right(0)
      BY <3>1, <3>2, WithoutNothing
    <3> QED BY <2>2, <3>3
  <2>4. k \in 1..Len(t) /\ k - 1 \in 0..Len(t) /\ k - 1 < k
    BY <1>1, <2>2, <2>3
  <2> DEFINE u == SubSeq(t, 1, k - 1)
             x == t[k]
  <2>5. Without(s \o u, e) = Without(s, e) \o Without(u, e)
    BY <2>2, <2>4
  <2>6. SubSeq(t, 1, k) = Append(u, x) /\ u \in Seq(S) /\ x \in S
    BY <2>4, NextPrefix
  <2> HIDE DEF u, x
  <2>7. s \o Append(u, x) = Append(s \o u, x) /\ s \o u \in Seq(S)
    BY <2>6
  <2>8. /\ Without(s, e) \in Seq(S) /\ Without(u, e) \in Seq(S)
    BY <2>6, WithoutTyped
  <2> DEFINE v == s \o u
             a == Without(s, e)
             b == Without(u, e)
  <2>9. /\ x = e => Without(Append(v, x), e) = Without(v, e)
        /\ x # e => Without(Append(v, x), e) = Append(Without(v, e), x)
    <3>1. v \in Seq(S)
      BY <2>7
    <3> HIDE DEF v
    <3> QED BY <2>6, <3>1, WithoutAppend
  <2>10. /\ x = e => Without(Append(u, x), e) = Without(u, e)
         /\ x # e => Without(Append(u, x), e) = Append(Without(u, e), x)
    BY <2>6, WithoutAppend
  <2>11. a \o Append(b, x) = Append(a \o b, x)
    <3>1. a \in Seq(S) /\ b \in Seq(S)
      BY <2>8
    <3> HIDE DEF a, b
    <3> QED BY <2>6, <3>1
  <2>12. Right(k)
    BY <2>5, <2>6, <2>7, <2>9, <2>10, <2>11
  <2> QED BY <2>2, <2>12
<1>3. Right(Len(t))
  <2>1. Len(t) \in 0..Len(t)
    BY <1>1
  <2> QED BY <1>2, <2>1
<1>4. SubSeq(t, 1, Len(t)) = t
  OBVIOUS
<1> QED BY <1>3, <1>4

-----------------------------------------------------------------------------
(* TemplatedInput: nodes and what they stand for.                          *)

\* What a text is made of, and the nodes that are not blocks.
Pieces == {"text", "chip", "newline"}
Plain == Leaves \cup {Node(piece, <<>>) : piece \in Pieces}
Blocks == {Node("block", kids) : kids \in Seq(Leaves)}

InputInv == element \in Seq(Leaves \cup Blocks)

LEMMA PlainIs ==
  /\ Leaves \subseteq Plain
  /\ \A node \in Plain :
       /\ ~ IsBlock(node) /\ Text(node) \in Pieces
       /\ node = Br => Text(node) = "newline"
  /\ \A node \in Leaves : node = Br <=> Text(node) = "newline"
  /\ \A node \in Leaves : node = Br <=> node.tag = "br"
  /\ Br \in Leaves /\ Text(Br) = "newline"
BY DEF Leaves, Plain, Pieces, Node, IsBlock, Text, Br

LEMMA BlockIs ==
  ASSUME NEW node \in Blocks
  PROVE  IsBlock(node) /\ node.kids \in Seq(Leaves)
BY DEF Blocks, Node, IsBlock

LEMMA LineIs ==
  ASSUME NEW nodes \in Seq(Plain)
  PROVE  /\ LineText(nodes) \in Seq(Pieces) /\ Len(LineText(nodes)) = Len(nodes)
         /\ \A n \in 1..Len(nodes) : LineText(nodes)[n] = Text(nodes[n])
<1>1. DOMAIN nodes = 1..Len(nodes) /\ \A n \in 1..Len(nodes) : Text(nodes[n]) \in Pieces
  BY PlainIs
<1>2. LineText(nodes) = [n \in 1..Len(nodes) |-> Text(nodes[n])]
  BY <1>1 DEF LineText
<1> QED BY <1>1, <1>2

LEMMA LineAppend ==
  ASSUME NEW nodes \in Seq(Plain), NEW node \in Plain
  PROVE  LineText(Append(nodes, node)) = Append(LineText(nodes), Text(node))
<1> DEFINE a == LineText(Append(nodes, node))
           b == Append(LineText(nodes), Text(node))
<1>1. Text(node) \in Pieces
  BY PlainIs
<1>2. Append(nodes, node) \in Seq(Plain) /\ Len(Append(nodes, node)) = Len(nodes) + 1
  OBVIOUS
<1>3. /\ a \in Seq(Pieces) /\ Len(a) = Len(nodes) + 1
      /\ \A n \in 1..Len(nodes) + 1 : a[n] = Text(Append(nodes, node)[n])
  BY <1>2, LineIs
<1>4. /\ LineText(nodes) \in Seq(Pieces) /\ Len(LineText(nodes)) = Len(nodes)
      /\ \A n \in 1..Len(nodes) : LineText(nodes)[n] = Text(nodes[n])
  BY LineIs
<1>5. b \in Seq(Pieces) /\ Len(b) = Len(nodes) + 1
  BY <1>1, <1>4
<1>6. ASSUME NEW n \in 1..Len(nodes) + 1 PROVE a[n] = b[n]
  <2>1. CASE n = Len(nodes) + 1
    <3>1. Append(nodes, node)[n] = node /\ b[n] = Text(node)
      BY <1>1, <1>4, <2>1
    <3> QED BY <1>3, <3>1
  <2>2. CASE n # Len(nodes) + 1
    <3>1. n \in 1..Len(nodes)
      BY <2>2
    <3>2. Append(nodes, node)[n] = nodes[n] /\ b[n] = LineText(nodes)[n]
      BY <1>1, <1>4, <3>1
    <3> QED BY <1>3, <1>4, <3>1, <3>2
  <2> QED BY <2>1, <2>2
<1> HIDE DEF a, b
<1>7. a = b
  BY <1>3, <1>5, <1>6
<1> QED BY <1>7 DEF a, b

LEMMA LineJoined ==
  ASSUME NEW s \in Seq(Plain), NEW t \in Seq(Plain)
  PROVE  LineText(s \o t) = LineText(s) \o LineText(t)
<1> DEFINE a == LineText(s \o t)
           b == LineText(s) \o LineText(t)
           c == LineText(s)
           d == LineText(t)
<1>1. s \o t \in Seq(Plain) /\ Len(s \o t) = Len(s) + Len(t)
  OBVIOUS
<1>2. /\ a \in Seq(Pieces) /\ Len(a) = Len(s) + Len(t)
      /\ \A n \in 1..Len(s) + Len(t) : a[n] = Text((s \o t)[n])
  BY <1>1, LineIs
<1>3. /\ c \in Seq(Pieces) /\ Len(c) = Len(s) /\ \A n \in 1..Len(s) : c[n] = Text(s[n])
      /\ d \in Seq(Pieces) /\ Len(d) = Len(t) /\ \A n \in 1..Len(t) : d[n] = Text(t[n])
  BY LineIs
<1>4. Len(s) \in Nat /\ Len(t) \in Nat
  OBVIOUS
<1> HIDE DEF a, c, d
<1>5. /\ b \in Seq(Pieces) /\ Len(b) = Len(s) + Len(t)
      /\ \A n \in 1..Len(s) : b[n] = c[n]
      /\ \A n \in 1..Len(t) : b[Len(s) + n] = d[n]
  <2>1. c \in Seq(Pieces) /\ d \in Seq(Pieces)
    BY <1>3
  <2>2. /\ c \o d \in Seq(Pieces) /\ Len(c \o d) = Len(c) + Len(d)
        /\ \A n \in 1..Len(c) : (c \o d)[n] = c[n]
        /\ \A n \in 1..Len(d) : (c \o d)[Len(c) + n] = d[n]
    BY <2>1, JoinedIs
  <2>3. b = c \o d
    BY DEF c, d
  <2> HIDE DEF b
  <2> QED BY <1>3, <2>2, <2>3
<1> HIDE DEF b
<1>6. ASSUME NEW n \in 1..Len(s) + Len(t) PROVE a[n] = b[n]
  <2>1. CASE n \in 1..Len(s)
    BY <1>2, <1>3, <1>5, <2>1, JoinedIs
  <2>2. CASE n \notin 1..Len(s)
    <3>1. PICK m \in 1..Len(t) : n = Len(s) + m
      <4>1. n - Len(s) \in 1..Len(t) /\ n = Len(s) + (n - Len(s))
        BY <1>4, <2>2
      <4> QED BY <4>1
    <3>2. (s \o t)[n] = t[m] /\ b[n] = d[m] /\ d[m] = Text(t[m])
      BY <1>3, <1>5, <3>1, JoinedIs
    <3> QED BY <1>2, <3>2
  <2> QED BY <2>1, <2>2
<1>7. a = b
  BY <1>2, <1>5, <1>6
<1> QED BY <1>7 DEF a, b, c, d

\* Where no node is a block, the text is the nodes', one by one.
LEMMA FlatText ==
  ASSUME NEW nodes \in Seq(Plain)
  PROVE  serializeFromDom(nodes) = LineText(nodes)
<1>1. Len(nodes) \in Nat
  OBVIOUS
<1>2. PICK f : /\ ResultAfter(nodes) = f
               /\ f[0] = <<>>
               /\ \A i \in 1..Len(nodes) : f[i] = Joined(f[i - 1], nodes[i])
  BY <1>1, Resulting
<1> DEFINE Wrong == {n \in 0..Len(nodes) : f[n] # LineText(SubSeq(nodes, 1, n))}
<1>3. Wrong = {}
  <2> SUFFICES ASSUME Wrong # {} PROVE FALSE
    OBVIOUS
  <2>1. Wrong \in SUBSET Nat
    BY <1>1
  <2>2. PICK k \in Wrong : \A j \in Wrong : ~ (j < k)
    BY <2>1, LeastOf
  <2>3. k # 0
    <3>1. SubSeq(nodes, 1, 0) = <<>>
      BY <1>1, PrefixOf
    <3>2. LineText(<<>>) = <<>>
      BY DEF LineText
    <3> QED BY <1>2, <2>2, <3>1, <3>2
  <2>4. k \in 1..Len(nodes) /\ k - 1 \in 0..Len(nodes) /\ k - 1 < k
    BY <1>1, <2>2, <2>3
  <2>5. f[k - 1] = LineText(SubSeq(nodes, 1, k - 1))
    BY <2>2, <2>4
  <2>6. /\ SubSeq(nodes, 1, k) = Append(SubSeq(nodes, 1, k - 1), nodes[k])
        /\ SubSeq(nodes, 1, k - 1) \in Seq(Plain) /\ nodes[k] \in Plain
    BY <2>4, NextPrefix
  <2>7. f[k] = Append(f[k - 1], Text(nodes[k]))
    BY <1>2, <2>4, <2>6, PlainIs DEF Joined
  <2>8. LineText(SubSeq(nodes, 1, k)) = Append(LineText(SubSeq(nodes, 1, k - 1)), Text(nodes[k]))
    BY <2>6, LineAppend
  <2> QED BY <2>2, <2>5, <2>7, <2>8
<1>4. f[Len(nodes)] = LineText(nodes)
  <2>1. Len(nodes) \in 0..Len(nodes) /\ SubSeq(nodes, 1, Len(nodes)) = nodes
    BY <1>1, PrefixOf
  <2> QED BY <1>3, <2>1
<1> QED BY <1>2, <1>4 DEF serializeFromDom

-----------------------------------------------------------------------------
(* TemplatedInput: what normalizing does to one node.                      *)

LEMMA LeavesArePlain == \A nodes \in Seq(Leaves) : nodes \in Seq(Plain)
BY PlainIs

LEMMA EndOfLine ==
  ASSUME NEW nodes \in Seq(Leaves)
  PROVE  /\ nodes = <<>> <=> LineText(nodes) = <<>>
         /\ nodes # <<>> => (Last(nodes).tag = "br" <=> Last(LineText(nodes)) = "newline")
<1>1. /\ LineText(nodes) \in Seq(Pieces) /\ Len(LineText(nodes)) = Len(nodes)
      /\ \A n \in 1..Len(nodes) : LineText(nodes)[n] = Text(nodes[n])
  BY LeavesArePlain, LineIs
<1>2. nodes = <<>> <=> LineText(nodes) = <<>>
  BY <1>1
<1>3. ASSUME nodes # <<>>
      PROVE  Last(nodes).tag = "br" <=> Last(LineText(nodes)) = "newline"
  <2>1. Len(nodes) \in 1..Len(nodes) /\ nodes[Len(nodes)] \in Leaves
    BY <1>3
  <2>2. Last(nodes) = nodes[Len(nodes)] /\ Last(LineText(nodes)) = Text(nodes[Len(nodes)])
    BY <1>1, <2>1 DEF Last
  <2> QED BY <2>1, <2>2, PlainIs
<1> QED BY <1>2, <1>3

\* In a long field a block begins a line of its nodes when it begins one of the
\* text.
LEMMA UnwrapLong ==
  ASSUME NEW done \in Seq(Leaves), NEW node \in Leaves \cup Blocks
  PROVE  /\ Unwrap(done, node, TRUE) \in Seq(Leaves)
         /\ LineText(Unwrap(done, node, TRUE)) = Joined(LineText(done), node)
<1>1. done \in Seq(Plain)
  BY LeavesArePlain
<1>2. CASE node \in Leaves
  <2>1. ~ IsBlock(node) /\ node \in Plain
    BY <1>2, PlainIs
  <2>2. Unwrap(done, node, TRUE) = Append(done, node) /\ Append(done, node) \in Seq(Leaves)
    BY <1>2, <2>1 DEF Unwrap
  <2>3. Joined(LineText(done), node) = Append(LineText(done), Text(node))
    BY <2>1 DEF Joined
  <2> QED BY <1>1, <2>1, <2>2, <2>3, LineAppend
<1>3. CASE node \in Blocks
  <2> DEFINE kids == node.kids
             text == LineText(done)
             line == IF done # <<>> /\ Last(done).tag # "br" THEN Append(done, Br) ELSE done
             begun == IF text # <<>> /\ Last(text) # "newline" THEN Append(text, "newline") ELSE text
  <2>1. IsBlock(node) /\ kids \in Seq(Leaves) /\ kids \in Seq(Plain)
    BY <1>3, BlockIs, LeavesArePlain
  <2>2. line \in Seq(Leaves) /\ line \in Seq(Plain)
    BY PlainIs, LeavesArePlain
  <2>3. LineText(Append(done, Br)) = Append(text, "newline")
    BY <1>1, PlainIs, LineAppend
  <2>4. LineText(line) = begun
    BY <2>3, EndOfLine
  <2>5. Unwrap(done, node, TRUE) = line \o kids
    BY <2>1 DEF Unwrap
  <2>6. Joined(text, node) = begun \o LineText(kids)
    BY <2>1 DEF Joined
  <2> HIDE DEF line, kids, begun
  <2>7. line \o kids \in Seq(Leaves)
    BY <2>1, <2>2
  <2>8. LineText(line \o kids) = LineText(line) \o LineText(kids)
    BY <2>1, <2>2, LineJoined
  <2> QED BY <2>4, <2>5, <2>6, <2>7, <2>8
<1> QED BY <1>2, <1>3

\* In a short field the text loses the line's end that a block begins with.
LEMMA UnwrapShort ==
  ASSUME NEW done \in Seq(Leaves), NEW node \in Leaves \cup Blocks, NEW text \in Seq(Pieces),
         Without(LineText(done), "newline") = Without(text, "newline")
  PROVE  /\ Unwrap(done, node, FALSE) \in Seq(Leaves) /\ Joined(text, node) \in Seq(Pieces)
         /\ Without(LineText(Unwrap(done, node, FALSE)), "newline")
              = Without(Joined(text, node), "newline")
<1> DEFINE line == LineText(done)
<1>1. done \in Seq(Plain) /\ line \in Seq(Pieces)
  BY LeavesArePlain, LineIs
<1>2. "newline" \in Pieces
  BY DEF Pieces
<1> HIDE DEF line
<1>3. CASE node \in Leaves
  <2> DEFINE x == Text(node)
  <2>1. ~ IsBlock(node) /\ node \in Plain /\ x \in Pieces
    BY <1>3, PlainIs
  <2>2. Unwrap(done, node, FALSE) = Append(done, node) /\ Append(done, node) \in Seq(Leaves)
    BY <1>3, <2>1 DEF Unwrap
  <2>3. Joined(text, node) = Append(text, x)
    BY <2>1 DEF Joined
  <2>4. LineText(Append(done, node)) = Append(line, x)
    BY <1>1, <2>1, LineAppend DEF line
  <2> HIDE DEF x
  <2>5. Append(text, x) \in Seq(Pieces)
    BY <2>1
  <2>6. /\ x = "newline" => Without(Append(text, x), "newline") = Without(text, "newline")
        /\ x # "newline" => Without(Append(text, x), "newline") = Append(Without(text, "newline"), x)
    BY <2>1, WithoutAppend
  <2>7. /\ x = "newline" => Without(Append(line, x), "newline") = Without(line, "newline")
        /\ x # "newline" => Without(Append(line, x), "newline") = Append(Without(line, "newline"), x)
    BY <1>1, <2>1, WithoutAppend
  <2> QED BY <2>2, <2>3, <2>4, <2>5, <2>6, <2>7 DEF line
<1>4. CASE node \in Blocks
  <2> DEFINE kids == node.kids
             own == LineText(kids)
             begun == IF text # <<>> /\ Last(text) # "newline" THEN Append(text, "newline") ELSE text
  <2>1. IsBlock(node) /\ kids \in Seq(Leaves) /\ kids \in Seq(Plain)
    BY <1>4, BlockIs, LeavesArePlain
  <2>2. own \in Seq(Pieces)
    BY <2>1, LineIs
  <2>3. Unwrap(done, node, FALSE) = done \o kids
    BY <2>1 DEF Unwrap
  <2>4. Joined(text, node) = begun \o own
    BY <2>1 DEF Joined
  <2>5. done \o kids \in Seq(Leaves)
    BY <2>1
  <2>6. LineText(done \o kids) = line \o own
    BY <1>1, <2>1, LineJoined DEF line
  <2>7. begun \in Seq(Pieces) /\ Without(begun, "newline") = Without(text, "newline")
    <3>1. Append(text, "newline") \in Seq(Pieces)
      BY <1>2
    <3>2. Without(Append(text, "newline"), "newline") = Without(text, "newline")
      BY <1>2, WithoutAppend
    <3> QED BY <3>1, <3>2
  <2> HIDE DEF kids, own, begun
  <2>8. begun \o own \in Seq(Pieces)
    BY <2>2, <2>7
  <2>9. Without(begun \o own, "newline") = Without(begun, "newline") \o Without(own, "newline")
    <3>1. begun \in Seq(Pieces) /\ own \in Seq(Pieces)
      BY <2>2, <2>7
    <3> QED BY <3>1, WithoutJoined
  <2>10. Without(line \o own, "newline") = Without(line, "newline") \o Without(own, "newline")
    BY <1>1, <2>2, WithoutJoined
  <2>11. Without(line \o own, "newline") = Without(begun \o own, "newline")
    BY <2>7, <2>9, <2>10 DEF line
  <2> QED BY <2>3, <2>4, <2>5, <2>6, <2>8, <2>11
<1> QED BY <1>3, <1>4

LEMMA ShortLine ==
  ASSUME NEW nodes \in Seq(Leaves)
  PROVE  LineText(Without(nodes, Br)) = Without(LineText(nodes), "newline")
<1> DEFINE Right(n) == LineText(Without(SubSeq(nodes, 1, n), Br))
                         = Without(LineText(SubSeq(nodes, 1, n)), "newline")
           Wrong == {n \in 0..Len(nodes) : ~ Right(n)}
<1>1. Len(nodes) \in Nat
  OBVIOUS
<1>2. Wrong = {}
  <2> SUFFICES ASSUME Wrong # {} PROVE FALSE
    OBVIOUS
  <2>1. Wrong \in SUBSET Nat
    BY <1>1
  <2>2. PICK k \in Wrong : \A j \in Wrong : ~ (j < k)
    BY <2>1, LeastOf
  <2>3. Right(0)
    <3>1. SubSeq(nodes, 1, 0) = <<>>
      BY <1>1, PrefixOf
    <3>2. LineText(<<>>) = <<>>
      BY DEF LineText
    <3> QED BY <3>1, <3>2, WithoutNothing
  <2>4. k \in 1..Len(nodes) /\ k - 1 \in 0..Len(nodes) /\ k - 1 < k
    BY <1>1, <2>2, <2>3
  <2> DEFINE u == SubSeq(nodes, 1, k - 1)
             x == nodes[k]
             t == LineText(u)
             p == Text(x)
  <2>5. LineText(Without(u, Br)) = Without(t, "newline")
    BY <2>2, <2>4
  <2>6. SubSeq(nodes, 1, k) = Append(u, x) /\ u \in Seq(Leaves) /\ x \in Leaves
    BY <2>4, NextPrefix
  <2> HIDE DEF u, x
  <2>7. u \in Seq(Plain) /\ x \in Plain /\ p \in Pieces /\ (x = Br <=> p = "newline")
    BY <2>6, LeavesArePlain, PlainIs
  <2>8. t \in Seq(Pieces)
    BY <2>7, LineIs
  <2>9. LineText(Append(u, x)) = Append(t, p)
    BY <2>7, LineAppend
  <2> HIDE DEF t, p
  <2>10. /\ x = Br => Without(Append(u, x), Br) = Without(u, Br)
         /\ x # Br => Without(Append(u, x), Br) = Append(Without(u, Br), x)
    BY <2>6, WithoutAppend
  <2>11. /\ p = "newline" => Without(Append(t, p), "newline") = Without(t, "newline")
         /\ p # "newline" => Without(Append(t, p), "newline") = Append(Without(t, "newline"), p)
    BY <2>7, <2>8, WithoutAppend
  <2> DEFINE w == Without(u, Br)
  <2>12. LineText(Append(w, x)) = Append(LineText(w), p)
    <3>1. w \in Seq(Plain)
      BY <2>7, WithoutTyped
    <3> HIDE DEF w
    <3> QED BY <2>7, <3>1, LineAppend DEF p
  <2>13. Right(k)
    BY <2>5, <2>6, <2>7, <2>9, <2>10, <2>11, <2>12
  <2> QED BY <2>2, <2>13
<1>3. Right(Len(nodes))
  <2>1. Len(nodes) \in 0..Len(nodes)
    BY <1>1
  <2> QED BY <1>2, <2>1
<1>4. SubSeq(nodes, 1, Len(nodes)) = nodes
  OBVIOUS
<1> QED BY <1>3, <1>4

-----------------------------------------------------------------------------
(* TemplatedInput: what normalizing does to all of them.                   *)

LEMMA LongKeeps ==
  ASSUME NEW nodes \in Seq(Leaves \cup Blocks)
  PROVE  /\ normalizeDom(nodes, TRUE) \in Seq(Leaves)
         /\ LineText(normalizeDom(nodes, TRUE)) = serializeFromDom(nodes)
<1>1. Len(nodes) \in Nat /\ \A n \in 1..Len(nodes) : nodes[n] \in Leaves \cup Blocks
  OBVIOUS
<1>2. PICK f : /\ ResultAfter(nodes) = f /\ f[0] = <<>>
               /\ \A i \in 1..Len(nodes) : f[i] = Joined(f[i - 1], nodes[i])
  BY <1>1, Resulting
<1>3. PICK g : /\ UnwrappedAfter(nodes, TRUE) = g /\ g[0] = <<>>
               /\ \A i \in 1..Len(nodes) : g[i] = Unwrap(g[i - 1], nodes[i], TRUE)
  BY <1>1, Unwrapping
<1> DEFINE Right(n) == g[n] \in Seq(Leaves) /\ LineText(g[n]) = f[n]
           Wrong == {n \in 0..Len(nodes) : ~ Right(n)}
<1>4. Wrong = {}
  <2> SUFFICES ASSUME Wrong # {} PROVE FALSE
    OBVIOUS
  <2>1. Wrong \in SUBSET Nat
    BY <1>1
  <2>2. PICK k \in Wrong : \A j \in Wrong : ~ (j < k)
    BY <2>1, LeastOf
  <2>3. Right(0)
    <3>1. LineText(<<>>) = <<>> /\ <<>> \in Seq(Leaves)
      BY DEF LineText
    <3> QED BY <1>2, <1>3, <3>1
  <2>4. k \in 1..Len(nodes) /\ k - 1 \in 0..Len(nodes) /\ k - 1 < k
    BY <1>1, <2>2, <2>3
  <2>5. Right(k - 1)
    BY <2>2, <2>4
  <2>6. /\ f[k] = Joined(f[k - 1], nodes[k]) /\ g[k] = Unwrap(g[k - 1], nodes[k], TRUE)
        /\ nodes[k] \in Leaves \cup Blocks
    BY <1>1, <1>2, <1>3, <2>4
  <2>7. Right(k)
    BY <2>5, <2>6, UnwrapLong
  <2> QED BY <2>2, <2>7
<1>5. Right(Len(nodes))
  <2>1. Len(nodes) \in 0..Len(nodes)
    BY <1>1
  <2> QED BY <1>4, <2>1
<1>6. normalizeDom(nodes, TRUE) = g[Len(nodes)] /\ serializeFromDom(nodes) = f[Len(nodes)]
  BY <1>2, <1>3 DEF normalizeDom, serializeFromDom
<1> QED BY <1>5, <1>6

LEMMA ShortLosesLineEnds ==
  ASSUME NEW nodes \in Seq(Leaves \cup Blocks)
  PROVE  /\ normalizeDom(nodes, FALSE) \in Seq(Leaves)
         /\ LineText(normalizeDom(nodes, FALSE)) = Without(serializeFromDom(nodes), "newline")
         /\ serializeFromDom(nodes) \in Seq(Pieces)
<1>1. Len(nodes) \in Nat /\ \A n \in 1..Len(nodes) : nodes[n] \in Leaves \cup Blocks
  OBVIOUS
<1>2. PICK f : /\ ResultAfter(nodes) = f /\ f[0] = <<>>
               /\ \A i \in 1..Len(nodes) : f[i] = Joined(f[i - 1], nodes[i])
  BY <1>1, Resulting
<1>3. PICK g : /\ UnwrappedAfter(nodes, FALSE) = g /\ g[0] = <<>>
               /\ \A i \in 1..Len(nodes) : g[i] = Unwrap(g[i - 1], nodes[i], FALSE)
  BY <1>1, Unwrapping
<1> DEFINE Right(n) == /\ g[n] \in Seq(Leaves) /\ f[n] \in Seq(Pieces)
                       /\ Without(LineText(g[n]), "newline") = Without(f[n], "newline")
           Wrong == {n \in 0..Len(nodes) : ~ Right(n)}
<1>4. Wrong = {}
  <2> SUFFICES ASSUME Wrong # {} PROVE FALSE
    OBVIOUS
  <2>1. Wrong \in SUBSET Nat
    BY <1>1
  <2>2. PICK k \in Wrong : \A j \in Wrong : ~ (j < k)
    BY <2>1, LeastOf
  <2>3. Right(0)
    <3>1. LineText(<<>>) = <<>> /\ <<>> \in Seq(Leaves) /\ <<>> \in Seq(Pieces)
      BY DEF LineText
    <3> QED BY <1>2, <1>3, <3>1
  <2>4. k \in 1..Len(nodes) /\ k - 1 \in 0..Len(nodes) /\ k - 1 < k
    BY <1>1, <2>2, <2>3
  <2>5. Right(k - 1)
    BY <2>2, <2>4
  <2>6. /\ f[k] = Joined(f[k - 1], nodes[k]) /\ g[k] = Unwrap(g[k - 1], nodes[k], FALSE)
        /\ nodes[k] \in Leaves \cup Blocks
    BY <1>1, <1>2, <1>3, <2>4
  <2> DEFINE done == g[k - 1]
             text == f[k - 1]
             node == nodes[k]
  <2>7. /\ done \in Seq(Leaves) /\ text \in Seq(Pieces) /\ node \in Leaves \cup Blocks
        /\ Without(LineText(done), "newline") = Without(text, "newline")
        /\ f[k] = Joined(text, node) /\ g[k] = Unwrap(done, node, FALSE)
    BY <2>5, <2>6
  <2> HIDE DEF done, text, node
  <2>8. /\ Unwrap(done, node, FALSE) \in Seq(Leaves) /\ Joined(text, node) \in Seq(Pieces)
        /\ Without(LineText(Unwrap(done, node, FALSE)), "newline")
             = Without(Joined(text, node), "newline")
    BY <2>7, UnwrapShort
  <2>9. Right(k)
    BY <2>7, <2>8
  <2> QED BY <2>2, <2>9
<1>5. Right(Len(nodes))
  <2>1. Len(nodes) \in 0..Len(nodes)
    BY <1>1
  <2> QED BY <1>4, <2>1
<1> DEFINE flat == g[Len(nodes)]
<1>6. normalizeDom(nodes, FALSE) = Without(flat, Br) /\ serializeFromDom(nodes) = f[Len(nodes)]
  BY <1>2, <1>3 DEF normalizeDom, serializeFromDom
<1>7. flat \in Seq(Leaves)
  BY <1>5
<1>8. Without(flat, Br) \in Seq(Leaves) /\ LineText(Without(flat, Br)) = Without(LineText(flat), "newline")
  <2> HIDE DEF flat
  <2> QED BY <1>7, WithoutTyped, ShortLine
<1> QED BY <1>5, <1>6, <1>8

\* Nothing is to be done where there are only leaves.
LEMMA FlatStays ==
  ASSUME NEW nodes \in Seq(Leaves)
  PROVE  normalizeDom(nodes, TRUE) = nodes
<1>1. Len(nodes) \in Nat
  OBVIOUS
<1>2. PICK g : /\ UnwrappedAfter(nodes, TRUE) = g /\ g[0] = <<>>
               /\ \A i \in 1..Len(nodes) : g[i] = Unwrap(g[i - 1], nodes[i], TRUE)
  BY <1>1, Unwrapping
<1> DEFINE Wrong == {n \in 0..Len(nodes) : g[n] # SubSeq(nodes, 1, n)}
<1>3. Wrong = {}
  <2> SUFFICES ASSUME Wrong # {} PROVE FALSE
    OBVIOUS
  <2>1. Wrong \in SUBSET Nat
    BY <1>1
  <2>2. PICK k \in Wrong : \A j \in Wrong : ~ (j < k)
    BY <2>1, LeastOf
  <2>3. k # 0
    <3>1. SubSeq(nodes, 1, 0) = <<>>
      BY <1>1, PrefixOf
    <3> QED BY <1>2, <2>2, <3>1
  <2>4. k \in 1..Len(nodes) /\ k - 1 \in 0..Len(nodes) /\ k - 1 < k
    BY <1>1, <2>2, <2>3
  <2>5. g[k - 1] = SubSeq(nodes, 1, k - 1)
    BY <2>2, <2>4
  <2>6. SubSeq(nodes, 1, k) = Append(SubSeq(nodes, 1, k - 1), nodes[k]) /\ nodes[k] \in Leaves
    BY <2>4, NextPrefix
  <2>7. g[k] = Append(g[k - 1], nodes[k])
    BY <1>2, <2>4, <2>6, PlainIs DEF Unwrap
  <2> QED BY <2>2, <2>5, <2>6, <2>7
<1>4. g[Len(nodes)] = nodes
  <2>1. Len(nodes) \in 0..Len(nodes) /\ SubSeq(nodes, 1, Len(nodes)) = nodes
    BY <1>1, PrefixOf
  <2> QED BY <1>3, <2>1
<1> QED BY <1>2, <1>4 DEF normalizeDom

\* What is rendered reads back.
LEMMA RenderedReadsBack ==
  ASSUME NEW text \in Seq(Pieces), NEW multiline \in BOOLEAN
  PROVE  /\ renderSegmentsToDom(text, multiline) \in Seq(Plain)
         /\ LineText(renderSegmentsToDom(text, multiline)) = text
         /\ multiline => renderSegmentsToDom(text, multiline) \in Seq(Leaves)
<1> DEFINE NodeOf(n) == IF text[n] = "newline" /\ multiline THEN Br ELSE Node(text[n], <<>>)
           nodes == [n \in 1..Len(text) |-> NodeOf(n)]
<1>1. Len(text) \in Nat /\ DOMAIN text = 1..Len(text) /\ \A n \in 1..Len(text) : text[n] \in Pieces
  OBVIOUS
<1>2. renderSegmentsToDom(text, multiline) = nodes
  BY <1>1 DEF renderSegmentsToDom
<1>3. ASSUME NEW n \in 1..Len(text)
      PROVE  /\ NodeOf(n) \in Plain /\ Text(NodeOf(n)) = text[n]
             /\ multiline => NodeOf(n) \in Leaves
  <2>1. Node(text[n], <<>>) \in Plain /\ Text(Node(text[n], <<>>)) = text[n]
    BY <1>1 DEF Plain, Node, Text, Pieces
  <2>2. text[n] # "newline" => Node(text[n], <<>>) \in Leaves
    BY <1>1 DEF Leaves, Pieces
  <2> QED BY <2>1, <2>2, PlainIs
<1> HIDE DEF NodeOf
<1>4. nodes \in [1..Len(text) -> Plain] /\ (multiline => nodes \in [1..Len(text) -> Leaves])
  BY <1>3
<1>5. /\ nodes \in Seq(Plain) /\ Len(nodes) = Len(text)
      /\ multiline => nodes \in Seq(Leaves)
  BY <1>1, <1>4
<1>6. \A n \in 1..Len(text) : nodes[n] = NodeOf(n)
  OBVIOUS
<1> HIDE DEF nodes
<1> DEFINE line == LineText(nodes)
<1>7. /\ line \in Seq(Pieces) /\ Len(line) = Len(text)
      /\ \A n \in 1..Len(text) : line[n] = text[n]
  BY <1>3, <1>5, <1>6, LineIs
<1> HIDE DEF line
<1>8. line = text
  BY <1>1, <1>7
<1> QED BY <1>2, <1>5, <1>8 DEF line

LEMMA Cut ==
  ASSUME NEW S, NEW s \in Seq(S), NEW at \in 0..Len(s)
  PROVE  /\ SubSeq(s, 1, at) \in Seq(S) /\ SubSeq(s, at + 1, Len(s)) \in Seq(S)
         /\ Len(SubSeq(s, 1, at)) = at /\ Len(SubSeq(s, at + 1, Len(s))) = Len(s) - at
         /\ \A n \in 1..at : SubSeq(s, 1, at)[n] = s[n]
         /\ \A n \in 1..Len(s) - at : SubSeq(s, at + 1, Len(s))[n] = s[at + n]
OBVIOUS

LEMMA LineCut ==
  ASSUME NEW nodes \in Seq(Plain), NEW at \in 0..Len(nodes)
  PROVE  /\ LineText(SubSeq(nodes, 1, at)) = SubSeq(LineText(nodes), 1, at)
         /\ LineText(SubSeq(nodes, at + 1, Len(nodes)))
              = SubSeq(LineText(nodes), at + 1, Len(LineText(nodes)))
<1> DEFINE t == LineText(nodes)
           a == SubSeq(nodes, 1, at)
           b == SubSeq(nodes, at + 1, Len(nodes))
           c == SubSeq(t, 1, at)
           d == SubSeq(t, at + 1, Len(t))
<1>1. /\ t \in Seq(Pieces) /\ Len(t) = Len(nodes)
      /\ \A n \in 1..Len(nodes) : t[n] = Text(nodes[n])
  BY LineIs
<1>2. /\ a \in Seq(Plain) /\ b \in Seq(Plain) /\ Len(a) = at /\ Len(b) = Len(nodes) - at
      /\ \A n \in 1..at : a[n] = nodes[n]
      /\ \A n \in 1..Len(nodes) - at : b[n] = nodes[at + n]
  BY Cut
<1> HIDE DEF t
<1>3. at \in 0..Len(t)
  BY <1>1
<1>4. /\ c \in Seq(Pieces) /\ d \in Seq(Pieces) /\ Len(c) = at /\ Len(d) = Len(t) - at
      /\ \A n \in 1..at : c[n] = t[n]
      /\ \A n \in 1..Len(t) - at : d[n] = t[at + n]
  BY <1>1, <1>3, Cut
<1> HIDE DEF a, b, c, d
<1>5. \A n \in 1..at : n \in 1..Len(nodes)
  OBVIOUS
<1>6. \A n \in 1..Len(nodes) - at : at + n \in 1..Len(nodes)
  OBVIOUS
<1>7. LineText(a) = c
  <2> DEFINE l == LineText(a)
  <2>1. l \in Seq(Pieces) /\ Len(l) = at /\ \A n \in 1..at : l[n] = Text(a[n])
    BY <1>2, LineIs
  <2>2. \A n \in 1..at : l[n] = c[n]
    BY <1>1, <1>2, <1>4, <1>5, <2>1
  <2> HIDE DEF l
  <2>3. /\ l \in Seq(Pieces) /\ c \in Seq(Pieces)
        /\ at \in Nat /\ Len(l) = at /\ Len(c) = at
    BY <1>4, <2>1
  <2>4. l = c
    BY <2>2, <2>3, SMTT(30)
  <2> QED BY <2>4 DEF l
<1>8. LineText(b) = d
  <2> DEFINE l == LineText(b)
             m == Len(nodes) - at
  <2>1. l \in Seq(Pieces) /\ Len(l) = m /\ \A n \in 1..m : l[n] = Text(b[n])
    BY <1>2, LineIs
  <2>2. \A n \in 1..m : l[n] = d[n]
    BY <1>1, <1>2, <1>4, <1>6, <2>1
  <2>3. m \in Nat /\ Len(d) = m
    BY <1>1, <1>4
  <2> HIDE DEF l, m
  <2>4. l = d
    BY <1>4, <2>1, <2>2, <2>3
  <2> QED BY <2>4 DEF l
<1> QED BY <1>7, <1>8 DEF a, b, c, d, t

\* What is pasted is inserted where it is pasted.
LEMMA Pasted ==
  ASSUME NEW nodes \in Seq(Leaves), NEW at \in 0..Len(nodes), NEW new \in Seq(Pieces)
  PROVE  LET text == serializeFromDom(nodes) IN
           serializeFromDom(handlePaste(nodes, at, new, TRUE))
             = SubSeq(text, 1, at) \o new \o SubSeq(text, at + 1, Len(text))
<1> DEFINE a == SubSeq(nodes, 1, at)
           b == SubSeq(nodes, at + 1, Len(nodes))
           r == renderSegmentsToDom(new, TRUE)
           t == LineText(nodes)
<1>1. nodes \in Seq(Plain)
  BY LeavesArePlain
<1>2. a \in Seq(Leaves) /\ b \in Seq(Leaves)
  BY Cut
<1>3. r \in Seq(Leaves) /\ LineText(r) = new
  BY RenderedReadsBack
<1>4. LineText(a) = SubSeq(t, 1, at) /\ LineText(b) = SubSeq(t, at + 1, Len(t))
  BY <1>1, LineCut
<1>5. serializeFromDom(nodes) = t
  BY <1>1, FlatText
<1>6. handlePaste(nodes, at, new, TRUE) = normalizeDom(a \o r \o b, TRUE)
  BY DEF handlePaste, PasteText
<1> HIDE DEF a, b, r, t
<1>7. a \o r \in Seq(Leaves) /\ a \o r \o b \in Seq(Leaves)
  BY <1>2, <1>3
<1>8. /\ a \in Seq(Plain) /\ b \in Seq(Plain) /\ r \in Seq(Plain)
      /\ a \o r \in Seq(Plain) /\ a \o r \o b \in Seq(Plain)
  BY <1>2, <1>3, <1>7, LeavesArePlain
<1>9. LineText(a \o r) = LineText(a) \o LineText(r)
  BY <1>8, LineJoined
<1>10. LineText(a \o r \o b) = LineText(a \o r) \o LineText(b)
  <2> DEFINE c == a \o r
  <2>1. c \in Seq(Plain)
    BY <1>8
  <2> HIDE DEF c
  <2>2. LineText(c \o b) = LineText(c) \o LineText(b)
    BY <1>8, <2>1, LineJoined
  <2> QED BY <2>2 DEF c
<1> DEFINE all == a \o r \o b
<1>11. serializeFromDom(normalizeDom(all, TRUE)) = LineText(all)
  <2>1. all \in Seq(Leaves) /\ all \in Seq(Plain)
    BY <1>7, <1>8
  <2> HIDE DEF all
  <2> QED BY <2>1, FlatStays, FlatText
<1> QED BY <1>3, <1>4, <1>5, <1>6, <1>9, <1>10, <1>11

LEMMA NormalizingKeeps == ASSUME InputInv PROVE NormalizingKeepsText
<1> DEFINE text == serializeFromDom(element)
           long == normalizeDom(element, TRUE)
           short == normalizeDom(element, FALSE)
<1>1. element \in Seq(Leaves \cup Blocks)
  BY DEF InputInv
<1>2. long \in Seq(Leaves) /\ LineText(long) = text
  BY <1>1, LongKeeps
<1>3. /\ short \in Seq(Leaves) /\ LineText(short) = Without(text, "newline")
      /\ text \in Seq(Pieces)
  BY <1>1, ShortLosesLineEnds
<1> HIDE DEF text
<1>4. serializeFromDom(long) = text
  <2> HIDE DEF long
  <2> QED BY <1>2, LeavesArePlain, FlatText
<1>5. serializeFromDom(short) = Without(text, "newline")
  <2> HIDE DEF short
  <2> QED BY <1>3, LeavesArePlain, FlatText
<1>6. ASSUME NEW multiline \in BOOLEAN
      PROVE  serializeFromDom(renderSegmentsToDom(text, multiline)) = text
  BY <1>3, RenderedReadsBack, FlatText
<1>7. ASSUME \A n \in DOMAIN element : ~ IsBlock(element[n])
      PROVE  element \in Seq(Leaves)
  <2>1. Len(element) \in Nat /\ DOMAIN element = 1..Len(element)
    BY <1>1
  <2>2. \A n \in 1..Len(element) : element[n] \in Leaves
    BY <1>1, <1>7, <2>1, BlockIs
  <2> QED BY <1>1, <2>1, <2>2
<1>8. ASSUME element \in Seq(Leaves), NEW at \in 0..Len(element), NEW new \in Seq(Pieces)
      PROVE  serializeFromDom(handlePaste(element, at, new, TRUE))
               = SubSeq(text, 1, at) \o new \o SubSeq(text, at + 1, Len(text))
  BY <1>8, Pasted DEF text
<1>9. \A n \in 0..Len(text) : SubSeq(text, 1, n) \in Seq(Pieces)
  BY <1>3, PrefixOf
<1>10. <<"chip">> \in Seq(Pieces)
  BY DEF Pieces
<1>11. ASSUME element \in Seq(Leaves), NEW at \in 0..Len(element)
       PROVE  serializeFromDom(insertChipAtCaret(element, at, TRUE))
                = SubSeq(text, 1, at) \o <<"chip">> \o SubSeq(text, at + 1, Len(text))
  BY <1>8, <1>10, <1>11 DEF insertChipAtCaret
<1> QED BY <1>4, <1>5, <1>6, <1>7, <1>8, <1>9, <1>11 DEF NormalizingKeepsText, text

LEMMA InputInvariance == InputSpec => []InputInv
<1>1. InputInit => InputInv
  BY DEF InputInit, InputInv
<1>2. InputInv /\ [InputNext]_inputVars => InputInv'
  <2> SUFFICES ASSUME InputInv, [InputNext]_inputVars PROVE InputInv'
    OBVIOUS
  <2> DEFINE Kinded == Leaves \cup Blocks
  <2>1. ASSUME NEW node \in Leaves \cup {Node("block", <<>>)}, Mutated(node)
        PROVE  InputInv'
    <3>1. element \in Seq(Kinded) /\ node \in Kinded
      <4>1. <<>> \in Seq(Leaves)
        OBVIOUS
      <4>2. Node("block", <<>>) \in Blocks
        BY <4>1 DEF Blocks
      <4> QED BY <4>2 DEF InputInv
    <3>2. CASE element' = Append(element, node)
      <4>1. Append(element, node) \in Seq(Kinded)
        <5> HIDE DEF Kinded
        <5> QED BY <3>1
      <4> QED BY <3>2, <4>1 DEF InputInv
    <3>3. CASE /\ element # <<>> /\ IsBlock(Last(element)) /\ ~ IsBlock(node)
               /\ element' = Append(Front(element), Node("block", Append(Last(element).kids, node)))
      <4> DEFINE last == Last(element)
                 more == Node("block", Append(last.kids, node))
      <4>1. last \in Kinded /\ Front(element) \in Seq(Kinded)
        <5> HIDE DEF Kinded
        <5> QED BY <3>1, <3>3 DEF Last, Front
      <4>2. last \in Blocks
        BY <3>3, <4>1, PlainIs
      <4>3. node \in Leaves
        <5>1. IsBlock(Node("block", <<>>))
          BY DEF IsBlock, Node
        <5> QED BY <2>1, <3>3, <5>1
      <4>4. more \in Blocks
        <5>1. last.kids \in Seq(Leaves)
          BY <4>2, BlockIs
        <5>2. Append(last.kids, node) \in Seq(Leaves)
          BY <4>3, <5>1
        <5> QED BY <5>2 DEF Blocks
      <4> HIDE DEF last, more
      <4>5. Append(Front(element), more) \in Seq(Kinded)
        <5>1. more \in Kinded
          BY <4>4
        <5> HIDE DEF Kinded
        <5> QED BY <4>1, <5>1
      <4> QED BY <3>3, <4>5 DEF InputInv, last, more
    <3> QED BY <2>1, <3>2, <3>3 DEF Mutated, Grown
  <2>2. CASE UNCHANGED inputVars
    BY <2>2 DEF inputVars, InputInv
  <2> QED BY <2>1, <2>2 DEF InputNext
<1> QED BY <1>1, <1>2, PTL DEF InputSpec

\* For elements of any length, with blocks of any length: what normalizing does
\* to the nodes under the user's hands does not change the text of a long field
\* and takes the line ends from a short one's, what is rendered reads back, and
\* what is pasted is inserted at its place and nothing else.
THEOREM NormalizingAlwaysKeepsText == InputSpec => []NormalizingKeepsText
BY InputInvariance, NormalizingKeeps, PTL
=============================================================================
