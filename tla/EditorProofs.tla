---------------------------- MODULE EditorProofs ----------------------------
(***************************************************************************)
(* Proofs about WorkflowEditor, for any drawing, any number of workflows,  *)
(* versions, edits and requests in flight: what the editor says of its     *)
(* draft is true, results that stay after an edit fit as they did, and     *)
(* edits vanish in the listed ways only.  Last the web application, of     *)
(* which the editor is one page.                                           *)
(***************************************************************************)
EXTENDS MCWeb, FiniteSetTheorems, SequenceTheorems, WellFoundedInduction, TLAPS

-----------------------------------------------------------------------------
(* Walks.                                                                  *)

LEMMA LeastOf ==
  ASSUME NEW K \in SUBSET Nat, K # {}
  PROVE  \E k \in K : \A j \in K : ~ (j < k)
<1>1. IsWellFoundedOn(OpToRel(<, Nat), Nat)
  BY NatLessThanWellFounded
<1>2. PICK k \in K : \A j \in K : <<j, k>> \notin OpToRel(<, Nat)
  BY <1>1, WFMin
<1> QED BY <1>2 DEF OpToRel

IsWalk(f, d, a, n) ==
  f = [i \in 0..n |-> IF i = 0 THEN a ELSE After(d, f[i - 1])]

LEMMA WalkIsThere ==
  ASSUME NEW d, NEW a, NEW n \in Nat
  PROVE  \E f : IsWalk(f, d, a, n)
<1> DEFINE Missing == {k \in Nat : ~ \E f : IsWalk(f, d, a, k)}
<1> SUFFICES ASSUME Missing # {} PROVE FALSE
  OBVIOUS
<1>1. PICK k \in Missing : \A j \in Missing : ~ (j < k)
  BY LeastOf
<1>2. k # 0
  <2> DEFINE f == [i \in 0..0 |-> a]
  <2>1. IsWalk(f, d, a, 0)
    BY DEF IsWalk
  <2> QED BY <2>1
<1>3. PICK g : IsWalk(g, d, a, k - 1)
  <2>1. k - 1 \in Nat /\ k - 1 < k
    BY <1>2
  <2> QED BY <1>1, <2>1
<1> DEFINE f == [i \in 0..k |-> IF i = k THEN After(d, g[k - 1]) ELSE g[i]]
<1>4. \A i \in 0..(k - 1) : g[i] = IF i = 0 THEN a ELSE After(d, g[i - 1])
  BY <1>3 DEF IsWalk
<1>5. \A i \in 0..k : f[i] = IF i = 0 THEN a ELSE After(d, f[i - 1])
  <2> SUFFICES ASSUME NEW i \in 0..k
      PROVE f[i] = IF i = 0 THEN a ELSE After(d, f[i - 1])
    OBVIOUS
  <2>1. CASE i = k
    <3>1. i - 1 = k - 1 /\ i - 1 \in 0..k /\ i - 1 # k
      BY <1>2, <2>1
    <3> QED BY <1>2, <2>1, <3>1
  <2>2. CASE i # k /\ i # 0
    <3>1. i - 1 \in 0..k /\ i - 1 # k /\ i \in 0..(k - 1)
      BY <2>2
    <3> QED BY <1>4, <2>2, <3>1
  <2>3. CASE i # k /\ i = 0
    <3>1. i \in 0..(k - 1)
      BY <1>2, <2>3
    <3> QED BY <1>4, <2>3, <3>1
  <2> QED BY <2>1, <2>2, <2>3
<1>6. IsWalk(f, d, a, k)
  BY <1>5 DEF IsWalk
<1> QED BY <1>6

LEMMA SlotsCounted == Cardinality(Slots) \in Nat /\ Cardinality(Slots) # 0
<1>1. IsFiniteSet(Slots) /\ Trigger \in Slots
  BY EditorAssumption
<1> QED BY <1>1, FS_CardinalityType, FS_EmptySet

LEMMA Walking ==
  ASSUME NEW d, NEW a
  PROVE  /\ Walk(d, a)[0] = a
         /\ DOMAIN Walk(d, a) = 0..Cardinality(Slots)
         /\ \A i \in 1..Cardinality(Slots) : Walk(d, a)[i] = After(d, Walk(d, a)[i - 1])
<1> DEFINE n == Cardinality(Slots)
<1>1. n \in Nat
  BY SlotsCounted
<1>2. \E f : IsWalk(f, d, a, n)
  BY <1>1, WalkIsThere
<1>3. IsWalk(Walk(d, a), d, a, n)
  BY <1>2 DEF Walk, IsWalk
<1> DEFINE at == Walk(d, a)
<1>4. at = [i \in 0..n |-> IF i = 0 THEN a ELSE After(d, at[i - 1])]
  BY <1>3 DEF IsWalk
<1> HIDE DEF n, at
<1>5. DOMAIN at = 0..n /\ at[0] = a
  BY <1>1, <1>4
<1>6. \A i \in 1..n : at[i] = After(d, at[i - 1])
  <2> SUFFICES ASSUME NEW i \in 1..n PROVE at[i] = After(d, at[i - 1])
    OBVIOUS
  <2>1. i \in 0..n /\ i # 0
    BY <1>1
  <2> QED BY <1>4, <2>1
<1> QED BY <1>5, <1>6 DEF n, at

-----------------------------------------------------------------------------
(* Drawings.                                                               *)

Drawings ==
  [node : [Slots -> Nodes \cup {None}], edge : SUBSET (Slots \X Slots), name : {0, 1}]

\* Every node has one way in and one way out at most, and an edge has nodes at
\* both its ends.
Linear(d) ==
  /\ d \in Drawings
  /\ \A e \in d.edge : d.node[e[1]] # None /\ d.node[e[2]] # None
  /\ \A e, f \in d.edge : (e[1] = f[1] \/ e[2] = f[2]) => e = f
  /\ \A s \in Slots : d.node[s] # None => d.node[s].id[1] = s

LEMMA AfterIsNext ==
  ASSUME NEW d, NEW a, NEW b
  PROVE  /\ After(d, a) \in Slots \cup {None}
         /\ After(d, a) # None => <<a, After(d, a)>> \in d.edge
         /\ Linear(d) /\ <<a, b>> \in d.edge => After(d, a) = b /\ b # None
<1>1. CASE ~ \E c \in Slots : <<a, c>> \in d.edge
  <2>1. After(d, a) = None
    BY <1>1 DEF After
  <2>2. ~ (Linear(d) /\ <<a, b>> \in d.edge)
    BY <1>1 DEF Linear, Drawings
  <2> QED BY <2>1, <2>2
<1>2. CASE \E c \in Slots : <<a, c>> \in d.edge
  <2>1. After(d, a) \in Slots /\ <<a, After(d, a)>> \in d.edge
    BY <1>2 DEF After
  <2>2. ASSUME Linear(d), <<a, b>> \in d.edge PROVE After(d, a) = b /\ b # None
    <3>1. <<a, After(d, a)>> = <<a, b>>
      BY <2>1, <2>2 DEF Linear
    <3>2. None \notin Slots
      BY EditorAssumption
    <3> QED BY <2>1, <3>1, <3>2
  <2> QED BY <2>1, <2>2
<1> QED BY <1>1, <1>2

\* b stands i steps behind the trigger.
At(d, i, b) ==
  /\ d.node[Trigger] # None /\ i \in 1..Cardinality(Slots)
  /\ b # None /\ Walk(d, Trigger)[i] = b

\* The step before s is the one whose edge leads to s, if the walk from the
\* trigger comes by.
LEMMA PreviousIsBefore ==
  ASSUME NEW d, d.edge \subseteq Slots \X Slots, NEW s
  PROVE  LET p == Previous(d, s) IN
         /\ p # None =>
              /\ p \in Slots /\ s \in Slots /\ <<p, s>> \in d.edge
              /\ \E i \in Nat : At(d, i, s) /\ Walk(d, Trigger)[i - 1] = p
         /\ (\E i \in Nat : At(d, i, s)) => p # None
<1> DEFINE at == Walk(d, Trigger)  n == Cardinality(Slots)
           chain == computeChainOrder(d)
           behind == {i \in DOMAIN chain \ {0} : chain[i] = s}
           p == Previous(d, s)
<1>1. /\ at[0] = Trigger /\ DOMAIN at = 0..n /\ n \in Nat
      /\ \A i \in 1..n : at[i] = After(d, at[i - 1])
  BY Walking, SlotsCounted
<1>2. /\ DOMAIN chain = {i \in 0..n : d.node[Trigger] # None /\ at[i] # None}
      /\ \A i \in DOMAIN chain : chain[i] = at[i]
  BY <1>1 DEF computeChainOrder
<1>3. p = IF behind # {} THEN chain[(CHOOSE i \in behind : TRUE) - 1] ELSE None
  BY DEF Previous
<1>4. \A i \in Nat : i \in behind <=> At(d, i, s)
  BY <1>1, <1>2 DEF At
<1>5. behind \subseteq 1..n
  BY <1>1, <1>2
<1>6. None \notin Slots /\ Trigger \in Slots
  BY EditorAssumption
<1>7. CASE behind = {}
  BY <1>1, <1>3, <1>4, <1>7
<1>8. CASE behind # {}
  <2> DEFINE i == CHOOSE j \in behind : TRUE
  <2>1. i \in behind /\ i \in 1..n /\ p = chain[i - 1]
    BY <1>3, <1>5, <1>8
  <2> HIDE DEF i, behind, p, chain
  <2>2. At(d, i, s) /\ at[i] = s /\ s # None
    BY <1>1, <1>4, <2>1 DEF At
  <2>3. s = After(d, at[i - 1]) /\ <<at[i - 1], s>> \in d.edge
    BY <1>1, <2>1, <2>2, AfterIsNext
  <2>4. at[i - 1] \in Slots /\ s \in Slots
    BY <2>3
  <2>5. i - 1 \in DOMAIN chain
    BY <1>1, <1>2, <1>6, <2>1, <2>2, <2>4 DEF At
  <2>6. p = at[i - 1]
    BY <1>2, <2>1, <2>5
  <2> QED BY <1>1, <1>6, <2>1, <2>2, <2>3, <2>4, <2>6 DEF p
<1> QED BY <1>7, <1>8

\* Two drawings with the same edges where a walk comes by have the same walk.
LEMMA WalksAgree ==
  ASSUME NEW d, NEW e, NEW a, NEW n \in 0..Cardinality(Slots),
         \A i \in 0..(n - 1) : After(e, Walk(d, a)[i]) = After(d, Walk(d, a)[i])
  PROVE  \A i \in 0..n : Walk(e, a)[i] = Walk(d, a)[i]
<1> DEFINE f == Walk(d, a)  g == Walk(e, a)  m == Cardinality(Slots)
           Differ == {i \in 0..n : g[i] # f[i]}
<1>1. /\ f[0] = a /\ g[0] = a /\ m \in Nat /\ n \in 0..m
      /\ \A i \in 1..m : f[i] = After(d, f[i - 1]) /\ g[i] = After(e, g[i - 1])
  BY Walking, SlotsCounted
<1>2. \A i \in 0..(n - 1) : After(e, f[i]) = After(d, f[i])
  OBVIOUS
<1> HIDE DEF f, g, m
<1> SUFFICES ASSUME Differ # {} PROVE FALSE
  BY DEF f, g
<1>3. PICK k \in Differ : \A j \in Differ : ~ (j < k)
  <2>1. Differ \in SUBSET Nat
    BY <1>1
  <2> HIDE DEF Differ
  <2> QED BY <2>1, LeastOf
<1>4. k \in 1..m /\ k - 1 \in 0..(n - 1) /\ k - 1 \in 0..n /\ k - 1 < k
  BY <1>1, <1>3
<1>5. g[k - 1] = f[k - 1]
  BY <1>3, <1>4
<1>6. g[k] = f[k]
  BY <1>1, <1>2, <1>4, <1>5
<1> QED BY <1>3, <1>6

\* A walk that starts on another's way goes the same way.
LEMMA WalkGoesOn ==
  ASSUME NEW d, NEW a, NEW j \in 0..Cardinality(Slots)
  PROVE  \A k \in 0..(Cardinality(Slots) - j) :
           Walk(d, Walk(d, a)[j])[k] = Walk(d, a)[j + k]
<1> DEFINE f == Walk(d, a)  g == Walk(d, Walk(d, a)[j])  m == Cardinality(Slots)
           Differ == {k \in 0..(m - j) : g[k] # f[j + k]}
<1>1. /\ g[0] = f[j] /\ m \in Nat /\ j \in 0..m
      /\ \A i \in 1..m : f[i] = After(d, f[i - 1]) /\ g[i] = After(d, g[i - 1])
  BY Walking, SlotsCounted
<1> HIDE DEF f, g, m
<1> SUFFICES ASSUME Differ # {} PROVE FALSE
  BY DEF f, g, m
<1>2. PICK k \in Differ : \A i \in Differ : ~ (i < k)
  <2>1. Differ \in SUBSET Nat
    BY <1>1
  <2> HIDE DEF Differ
  <2> QED BY <2>1, LeastOf
<1>3. k # 0 /\ k \in 0..(m - j)
  <2>1. j + 0 = j
    BY <1>1
  <2> QED BY <1>1, <1>2, <2>1
<1>4. /\ k \in 1..m /\ j + k \in 1..m /\ (j + k) - 1 = j + (k - 1)
      /\ k - 1 \in 0..(m - j) /\ k - 1 < k
  BY <1>1, <1>3
<1>5. g[k - 1] = f[j + (k - 1)]
  BY <1>2, <1>4
<1>6. g[k] = f[j + k]
  <2>1. f[j + k] = After(d, f[j + (k - 1)])
    BY <1>1, <1>4
  <2> QED BY <1>1, <1>4, <1>5, <2>1
<1> QED BY <1>2, <1>6

LEMMA SamePrevious ==
  ASSUME NEW d, NEW e, e.edge = d.edge,
         e.node[Trigger] = None <=> d.node[Trigger] = None
  PROVE  \A s : Previous(e, s) = Previous(d, s)
<1> DEFINE m == Cardinality(Slots)  f == Walk(d, Trigger)  g == Walk(e, Trigger)
<1>1. \A a : After(e, a) = After(d, a)
  BY DEF After
<1>2. m \in Nat /\ DOMAIN f = 0..m /\ DOMAIN g = 0..m
  BY Walking, SlotsCounted
<1>3. \A i \in 0..m : g[i] = f[i]
  <2>1. m \in 0..m
    BY <1>2
  <2> QED BY <1>1, <2>1, WalksAgree
<1> HIDE DEF m
<1>4. {j \in DOMAIN g : e.node[Trigger] # None /\ g[j] # None}
      = {j \in DOMAIN f : d.node[Trigger] # None /\ f[j] # None}
  BY <1>2, <1>3
<1>5. computeChainOrder(e) = computeChainOrder(d)
  <2> DEFINE K == {j \in DOMAIN f : d.node[Trigger] # None /\ f[j] # None}
  <2>1. \A i \in K : g[i] = f[i]
    BY <1>2, <1>3
  <2>2. computeChainOrder(e) = [i \in K |-> g[i]]
    BY <1>4 DEF computeChainOrder
  <2>3. computeChainOrder(d) = [i \in K |-> f[i]]
    BY DEF computeChainOrder
  <2> HIDE DEF K, f, g
  <2> QED BY <2>1, <2>2, <2>3
<1> QED BY <1>5 DEF Previous

\* Without s, the steps that do not stand behind it stand where they stood.
LEMMA PreviousWithout ==
  ASSUME NEW d, NEW e, NEW s \in Slots, NEW t, Linear(d), Linear(e),
         e.edge = {x \in d.edge : x[1] # s /\ x[2] # s},
         \A b \in Slots \ {s} : e.node[b] = d.node[b],
         t \notin Downstream(d, s), Previous(d, t) # None
  PROVE  Previous(e, t) = Previous(d, t)
<1> DEFINE m == Cardinality(Slots)  f == Walk(d, Trigger)  g == Walk(e, Trigger)
           p == Previous(d, t)
<1>1. /\ m \in Nat /\ DOMAIN f = 0..m /\ f[0] = Trigger
      /\ \A i \in 1..m : f[i] = After(d, f[i - 1])
  BY Walking, SlotsCounted
<1>2. d.edge \subseteq Slots \X Slots /\ e.edge \subseteq Slots \X Slots
  BY DEF Linear, Drawings
<1>3. PICK i \in Nat : At(d, i, t) /\ f[i - 1] = p /\ p \in Slots
                      /\ <<p, t>> \in d.edge /\ t \in Slots
  BY <1>2, PreviousIsBefore
<1>4. i \in 1..m /\ f[i] = t /\ t # None /\ d.node[Trigger] # None
  BY <1>3 DEF At
<1>5. \A j \in 0..i : f[j] # s
  <2> SUFFICES ASSUME NEW j \in 0..i, f[j] = s PROVE FALSE
    OBVIOUS
  <2>1. j \in 0..m /\ i - j \in 0..(m - j) /\ j + (i - j) = i
    BY <1>1, <1>4
  <2>2. Walk(d, s)[i - j] = t
    <3>1. Walk(d, f[j])[i - j] = f[j + (i - j)]
      BY <2>1, WalkGoesOn
    <3> QED BY <1>4, <2>1, <3>1
  <2>3. i - j \in DOMAIN Walk(d, s)
    BY <1>1, <2>1, Walking
  <2> QED BY <1>4, <2>2, <2>3 DEF Downstream
<1>6. \A j \in 0..(i - 1) : After(e, f[j]) = After(d, f[j])
  <2> SUFFICES ASSUME NEW j \in 0..(i - 1) PROVE After(e, f[j]) = After(d, f[j])
    OBVIOUS
  <2>1. /\ j + 1 \in 1..m /\ j + 1 \in 0..i /\ j \in 0..i /\ (j + 1) - 1 = j
    BY <1>1, <1>4
  <2>2. f[j + 1] = After(d, f[j]) /\ f[j + 1] # s /\ f[j] # s
    BY <1>1, <1>5, <2>1
  <2>3. CASE After(d, f[j]) = None
    <3>1. After(e, f[j]) # None => <<f[j], After(e, f[j])>> \in d.edge
      BY AfterIsNext
    <3> QED BY <2>3, <3>1, AfterIsNext
  <2>4. CASE After(d, f[j]) # None
    <3>1. <<f[j], f[j + 1]>> \in d.edge
      BY <2>2, <2>4, AfterIsNext
    <3>2. <<f[j], f[j + 1]>> \in e.edge
      BY <2>2, <3>1
    <3> QED BY <2>2, <3>2, AfterIsNext
  <2> QED BY <2>3, <2>4
<1>7. \A j \in 0..i : g[j] = f[j]
  <2>1. i \in 0..m
    BY <1>1, <1>4
  <2> QED BY <1>6, <2>1, WalksAgree
<1>8. g[i] = t /\ s # Trigger
  <2>1. i \in 0..i /\ 0 \in 0..i
    BY <1>4
  <2> QED BY <1>1, <1>4, <1>5, <1>7, <2>1
<1>9. At(e, i, t)
  <2>1. Trigger \in Slots
    BY EditorAssumption
  <2> QED BY <1>4, <1>8, <2>1 DEF At
<1>10. Previous(e, t) # None /\ <<Previous(e, t), t>> \in e.edge
  BY <1>2, <1>9, PreviousIsBefore
<1>11. <<Previous(e, t), t>> = <<p, t>>
  <2>1. <<Previous(e, t), t>> \in d.edge
    BY <1>10
  <2> HIDE DEF p
  <2> QED BY <1>3, <2>1 DEF Linear
<1> QED BY <1>11

-----------------------------------------------------------------------------
(* The inductive invariant.                                                *)

\* Ids that a save of w gave, or the client before the edit numbered n.
Known(i, w, n) == i[2] \in {w, None} /\ (i[2] = None => i[3] < n)

OfWorkflow(d, w, n) == \A s \in Present(d) : Known(d.node[s].id, w, n)

\* Version v of w has the ids that its save gave.
ServerInv(sv) ==
  /\ sv \in [Workflows -> Seq(Drawings)]
  /\ \A w \in Workflows : \A v \in DOMAIN sv[w] :
       /\ Linear(sv[w][v])
       /\ \A s \in Present(sv[w][v]) : sv[w][v].node[s].id = <<s, w, v>>

IsVersion(dto, sv) ==
  /\ dto.id \in Workflows /\ dto.version \in DOMAIN sv[dto.id]
  /\ ReadAs(dto.draft, dto.stray, sv[dto.id], dto.version)

Ran(d, sv) == \E w \in Workflows : \E v \in DOMAIN sv[w] : d = sv[w][v]

IsNodeId(i, n) == i \in NodeIds /\ (i[2] = None => i[3] < n)

IsStore(st) ==
  st = [id |-> st.id, version |-> st.version, status |-> st.status,
        draft |-> st.draft, stray |-> st.stray, saved |-> st.saved,
        savedPrint |-> st.savedPrint, selected |-> st.selected, results |-> st.results]

\* What is saved was read as a version, what is drawn was drawn on top of it, and
\* what is selected is there.
StoreInv(st, sv, n) ==
  /\ IsStore(st)
  /\ st.id \in Workflows \cup {None}
  /\ Linear(st.draft) /\ OfWorkflow(st.draft, st.id, n)
  /\ st.id # None =>
       /\ st.version \in DOMAIN sv[st.id]
       /\ ReadAs(st.saved, st.stray, sv[st.id], st.version)
       /\ st.savedPrint = computeStructuralFingerprint(st.saved)
  /\ st.selected \in Present(st.draft) \cup {None}
  /\ \A r \in st.results : IsNodeId(r.node, n)

IsCall(c) ==
  c = [kind |-> c.kind, wf |-> c.wf, mount |-> c.mount, body |-> c.body,
       answer |-> c.answer]

\* A load is for the address; a save for the workflow it was drawn on; an answer
\* has a version of the server's.
AskInv(c, sv, u, n) ==
  /\ IsCall(c)
  /\ c.kind \in {"load", "toggle", "preview"} => c.wf \in Workflows
  /\ c.kind \in {"load", "toggle"} => sv[c.wf] # <<>>
  /\ c.kind = "load" =>
       c.wf = u /\ (c.body # None => c.body.version \in DOMAIN sv[c.wf])
  /\ c.kind = "save" =>
       /\ c.wf \in Workflows \cup {None}
       /\ Linear(c.body) /\ OfWorkflow(c.body, c.wf, n)
  /\ c.kind = "test" => IsNodeId(c.body.node, n)
  /\ c.kind \in {"load", "toggle", "save"} /\ c.answer # None => IsVersion(c.answer.of, sv)
  /\ c.kind = "preview" /\ c.answer # None /\ c.answer.of # None => Ran(c.answer.of.ran, sv)

\* A preview is asked for a step that has another before it.
PreviewAskInv(c, st) ==
  c.kind = "preview" => st.id # None /\ Previous(st.draft, st.selected) # None

PreviewInv(pv, st, sv) ==
  pv.show = "execution" =>
    LET p == Previous(st.draft, st.selected) IN
      /\ st.id # None /\ p # None
      /\ computeStructuralFingerprint(st.draft) = st.savedPrint
      /\ pv.version = st.version
      /\ p # Trigger =>
           \E k \in DOMAIN sv[st.id] : /\ <<p, st.id, k>> \in st.savedPrint.ids
                                      /\ pv.step = sv[st.id][k].node[p]

AddressInv(u, sv) == u \notin {NewPage, Elsewhere} => u \in Workflows /\ sv[u] # <<>>

LastRunInv(lr, sv) ==
  /\ lr = [w \in Workflows |-> lr[w]]
  /\ \A w \in Workflows : lr[w] # None => Ran(lr[w].ran, sv)

EditorInv ==
  /\ ServerInv(server) /\ LastRunInv(lastRun, server) /\ AddressInv(url, server)
  /\ edits \in Nat
  /\ StoreInv(store, server, edits)
  /\ \A c \in calls : AskInv(c, server, url, edits) /\ PreviewAskInv(c, store)
  /\ PreviewInv(preview, store, server)

-----------------------------------------------------------------------------
(* Time passes: more versions, more edits.                                 *)

More(sv, tv) ==
  /\ ServerInv(sv) /\ ServerInv(tv)
  /\ \A w \in Workflows : \A v \in DOMAIN sv[w] : v \in DOMAIN tv[w] /\ tv[w][v] = sv[w][v]

LEMMA ReadStill ==
  ASSUME NEW sv, NEW tv, More(sv, tv), NEW w \in Workflows, NEW v \in DOMAIN sv[w],
         NEW d, NEW n, ReadAs(d, n, sv[w], v)
  PROVE  ReadAs(d, n, tv[w], v)
<1>1. /\ sv[w] \in Seq(Drawings) /\ tv[w] \in Seq(Drawings)
      /\ \A k \in DOMAIN sv[w] : k \in DOMAIN tv[w] /\ tv[w][k] = sv[w][k]
  BY DEF More, ServerInv
<1> DEFINE q == sv[w]  r == tv[w]
<1>2. /\ Len(q) \in Nat /\ Len(r) \in Nat /\ DOMAIN q = 1..Len(q) /\ DOMAIN r = 1..Len(r)
      /\ v \in DOMAIN q /\ \A k \in DOMAIN q : k \in DOMAIN r /\ r[k] = q[k]
  BY <1>1
<1>3. PICK k \in v..Len(q), l \in v..Len(q) :
        k <= l /\ n = Stray(k, l) /\ d = Drawn(q, v, k, l)
  BY DEF ReadAs
<1> HIDE DEF q, r
<1>4. k \in DOMAIN q /\ l \in DOMAIN q
  BY <1>2, <1>3
<1>5. r[k] = q[k] /\ r[v] = q[v] /\ k \in v..Len(r) /\ l \in v..Len(r)
  BY <1>2, <1>3, <1>4
<1>6. Drawn(r, v, k, l) = Drawn(q, v, k, l)
  BY <1>5 DEF Drawn
<1>7. ReadAs(d, n, r, v)
  BY <1>3, <1>5, <1>6 DEF ReadAs
<1> QED BY <1>7 DEF r

\* d has the nodes of one of w's versions q.
HasNodesOf(d, w, q) ==
  \E k \in DOMAIN q : /\ d.node = q[k].node
                     /\ \A s \in Present(d) : d.node[s].id = <<s, w, k>>

\* What was read has the nodes of one version, and is drawn as well as that was.
LEMMA ReadIs ==
  ASSUME NEW sv, ServerInv(sv), NEW w \in Workflows, NEW q, q = sv[w],
         NEW v \in DOMAIN q, NEW d, NEW n, ReadAs(d, n, q, v)
  PROVE  Linear(d) /\ HasNodesOf(d, w, q)
<1>1. /\ q \in Seq(Drawings) /\ v \in DOMAIN q
      /\ \A k \in DOMAIN q : /\ Linear(q[k])
                            /\ \A s \in Present(q[k]) : q[k].node[s].id = <<s, w, k>>
  BY DEF ServerInv
<1>2. PICK k \in v..Len(q), l \in v..Len(q) : d = Drawn(q, v, k, l)
  BY DEF ReadAs
<1>3. Len(q) \in Nat /\ DOMAIN q = 1..Len(q)
  BY <1>1
<1>4. k \in DOMAIN q
  BY <1>1, <1>2, <1>3
<1> DEFINE e == IF k = l THEN q[k].edge ELSE {}
<1>5. /\ q[k] \in Drawings /\ q[v] \in Drawings /\ Linear(q[k]) /\ e \subseteq q[k].edge
      /\ \A s \in Present(q[k]) : q[k].node[s].id = <<s, w, k>>
  BY <1>1, <1>4 DEF Linear
<1>6. d = [q[k] EXCEPT !.name = q[v].name, !.edge = e]
  BY <1>2 DEF Drawn
<1> HIDE DEF e
<1>7. d \in Drawings /\ d.node = q[k].node /\ d.edge = e
  BY <1>5, <1>6 DEF Drawings
<1>8. Linear(d)
  BY <1>5, <1>7 DEF Linear
<1>9. \A s \in Present(d) : d.node[s].id = <<s, w, k>>
  BY <1>5, <1>7 DEF Present
<1> QED BY <1>4, <1>7, <1>8, <1>9 DEF HasNodesOf

\* The version that was there when all was read is itself.
LEMMA ReadAtOnce ==
  ASSUME NEW q, q \in Seq(Drawings), NEW v \in DOMAIN q
  PROVE  ReadAs(q[v], 0, q, v) /\ Drawn(q, v, v, v) = q[v] /\ Stray(v, v) = 0
<1>1. v \in v..Len(q) /\ v <= v /\ q[v] \in Drawings
  OBVIOUS
<1>2. Drawn(q, v, v, v) = q[v] /\ Stray(v, v) = 0
  BY <1>1 DEF Drawn, Stray, Drawings
<1> QED BY <1>1, <1>2 DEF ReadAs

LEMMA MoreIsThere ==
  ASSUME NEW sv, NEW tv, More(sv, tv)
  PROVE  /\ \A w \in Workflows : sv[w] # <<>> => tv[w] # <<>>
         /\ \A dto : IsVersion(dto, sv) => IsVersion(dto, tv)
         /\ \A d : Ran(d, sv) => Ran(d, tv)
<1>1. \A w \in Workflows : sv[w] # <<>> => tv[w] # <<>>
  <2> SUFFICES ASSUME NEW w \in Workflows, sv[w] # <<>> PROVE tv[w] # <<>>
    OBVIOUS
  <2>1. sv[w] \in Seq(Drawings) /\ tv[w] \in Seq(Drawings)
    BY DEF More, ServerInv
  <2>2. 1 \in DOMAIN sv[w]
    BY <2>1
  <2> QED BY <2>1, <2>2 DEF More
<1>2. \A dto : IsVersion(dto, sv) => IsVersion(dto, tv)
  <2> SUFFICES ASSUME NEW dto, IsVersion(dto, sv) PROVE IsVersion(dto, tv)
    OBVIOUS
  <2>1. /\ dto.id \in Workflows /\ dto.version \in DOMAIN sv[dto.id]
        /\ ReadAs(dto.draft, dto.stray, sv[dto.id], dto.version)
    BY DEF IsVersion
  <2>2. ReadAs(dto.draft, dto.stray, tv[dto.id], dto.version)
    BY <2>1, ReadStill
  <2> QED BY <2>1, <2>2 DEF More, IsVersion
<1>3. \A d : Ran(d, sv) => Ran(d, tv)
  BY DEF More, Ran
<1> QED BY <1>1, <1>2, <1>3

LEMMA LaterKnown ==
  ASSUME NEW n \in Nat, NEW k \in Nat, n <= k
  PROVE  /\ \A i : IsNodeId(i, n) => IsNodeId(i, k)
         /\ \A w : \A i \in NodeIds : Known(i, w, n) => Known(i, w, k)
         /\ \A d, w : d \in Drawings /\ OfWorkflow(d, w, n) => OfWorkflow(d, w, k)
<1>1. \A i \in NodeIds : i[3] \in Nat
  BY DEF NodeIds
<1>2. \A i \in NodeIds : i[3] < n => i[3] < k
  BY <1>1
<1>3. \A w : \A i \in NodeIds : Known(i, w, n) => Known(i, w, k)
  BY <1>2 DEF Known
<1>4. \A i : IsNodeId(i, n) => IsNodeId(i, k)
  BY <1>2 DEF IsNodeId
<1>5. \A d, w : d \in Drawings /\ OfWorkflow(d, w, n) => OfWorkflow(d, w, k)
  <2> SUFFICES ASSUME NEW d \in Drawings, NEW w, OfWorkflow(d, w, n)
      PROVE OfWorkflow(d, w, k)
    OBVIOUS
  <2>1. \A s \in Present(d) : d.node[s].id \in NodeIds
    BY DEF Present, Drawings, Nodes
  <2> QED BY <1>3, <2>1 DEF OfWorkflow
<1> QED BY <1>3, <1>4, <1>5

LEMMA AskedStill ==
  ASSUME NEW c, NEW sv, NEW tv, NEW u, NEW n \in Nat, NEW k \in Nat, n <= k,
         sv = tv \/ More(sv, tv), AskInv(c, sv, u, n)
  PROVE  AskInv(c, tv, u, k)
<1>1. c.kind \in {"load", "toggle"} => tv[c.wf] # <<>>
  BY MoreIsThere DEF AskInv
<1>2. c.kind = "save" => OfWorkflow(c.body, c.wf, k)
  BY LaterKnown DEF AskInv, Linear
<1>3. c.kind = "test" => IsNodeId(c.body.node, k)
  BY LaterKnown DEF AskInv
<1>4. c.kind \in {"load", "toggle", "save"} /\ c.answer # None => IsVersion(c.answer.of, tv)
  BY MoreIsThere DEF AskInv
<1>5. c.kind = "preview" /\ c.answer # None /\ c.answer.of # None => Ran(c.answer.of.ran, tv)
  BY MoreIsThere DEF AskInv
<1>6. c.kind = "load" =>
        c.wf = u /\ (c.body # None => c.body.version \in DOMAIN tv[c.wf])
  BY DEF AskInv, More
<1> QED BY <1>1, <1>2, <1>3, <1>4, <1>5, <1>6 DEF AskInv

LEMMA StoreStill ==
  ASSUME NEW st, NEW sv, NEW tv, NEW n \in Nat, NEW k \in Nat, n <= k,
         sv = tv \/ More(sv, tv), StoreInv(st, sv, n)
  PROVE  StoreInv(st, tv, k)
<1>1. OfWorkflow(st.draft, st.id, k)
  BY LaterKnown DEF StoreInv, Linear
<1>2. \A r \in st.results : IsNodeId(r.node, k)
  BY LaterKnown DEF StoreInv
<1>3. ASSUME st.id # None
      PROVE  /\ st.version \in DOMAIN tv[st.id]
             /\ ReadAs(st.saved, st.stray, tv[st.id], st.version)
             /\ st.savedPrint = computeStructuralFingerprint(st.saved)
  <2>1. /\ st.id \in Workflows /\ st.version \in DOMAIN sv[st.id]
        /\ ReadAs(st.saved, st.stray, sv[st.id], st.version)
        /\ st.savedPrint = computeStructuralFingerprint(st.saved)
    BY <1>3 DEF StoreInv
  <2>2. CASE sv = tv
    BY <2>1, <2>2
  <2>3. CASE More(sv, tv)
    BY <2>1, <2>3, ReadStill DEF More
  <2> QED BY <2>1, <2>2, <2>3
<1> QED BY <1>1, <1>2, <1>3 DEF StoreInv

LEMMA PreviewStill ==
  ASSUME NEW pv, NEW st, NEW sv, NEW tv, NEW n, More(sv, tv), StoreInv(st, sv, n),
         PreviewInv(pv, st, sv)
  PROVE  PreviewInv(pv, st, tv)
<1>1. st.id # None =>
        \A k \in DOMAIN sv[st.id] : k \in DOMAIN tv[st.id] /\ tv[st.id][k] = sv[st.id][k]
  BY DEF StoreInv, More
<1> QED BY <1>1 DEF PreviewInv

-----------------------------------------------------------------------------
(* What an action does to the store, and the page after it.                *)

LEMMA Effected ==
  ASSUME EditorInv, NEW st, NEW cs, Effects(st, cs), UNCHANGED api,
         edits' \in Nat, edits <= edits', StoreInv(st, server, edits'),
         AddressInv(url', server),
         \A c \in cs : AskInv(c, server, url', edits') /\ PreviewAskInv(c, store)
  PROVE  EditorInv'
<1> DEFINE same == previewContextKey(st) = previewContextKey(store) /\ mount' = mount
<1>1. server' = server /\ lastRun' = lastRun /\ store' = st
  BY DEF api, Effects
<1>2. same => /\ st.id = store.id /\ st.version = store.version
              /\ st.savedPrint = store.savedPrint
              /\ Previous(st.draft, st.selected) = Previous(store.draft, store.selected)
              /\ computeStructuralFingerprint(st.draft)
                   = computeStructuralFingerprint(store.draft)
  BY DEF previewContextKey
<1>3. \A c \in calls' : c \in cs /\ (c.kind = "preview" => same)
  BY DEF Effects
<1>4. preview'.show = "execution" => same /\ preview' = preview
  BY DEF Effects, Shows
<1> HIDE DEF same
<1>5. \A c \in calls' : PreviewAskInv(c, st)
  BY <1>2, <1>3 DEF PreviewAskInv
<1>6. PreviewInv(preview', st, server)
  BY <1>2, <1>4 DEF PreviewInv, EditorInv
<1>7. /\ ServerInv(server)' /\ LastRunInv(lastRun, server)' /\ AddressInv(url, server)'
      /\ (edits \in Nat)' /\ StoreInv(store, server, edits)'
  BY <1>1 DEF EditorInv
<1>8. \A c \in calls' : AskInv(c, server', url', edits') /\ PreviewAskInv(c, store')
  BY <1>1, <1>3, <1>5
<1>9. PreviewInv(preview', store', server')
  BY <1>1, <1>6
<1> QED BY <1>7, <1>8, <1>9 DEF EditorInv

LEMMA EffectedHere ==
  ASSUME EditorInv, NEW st, NEW cs \in SUBSET calls, Effects(st, cs),
         UNCHANGED <<page, edits, api>>, StoreInv(st, server, edits)
  PROVE  EditorInv'
<1>1. edits' = edits /\ url' = url /\ UNCHANGED api /\ edits \in Nat /\ edits <= edits
  BY DEF page, EditorInv
<1>2. AddressInv(url', server)
  BY <1>1 DEF EditorInv
<1>3. \A c \in cs : AskInv(c, server, url', edits') /\ PreviewAskInv(c, store)
  BY <1>1 DEF EditorInv
<1> QED BY <1>1, <1>2, <1>3, Effected

\* The store with another drawing, other results and another selection.
With(st, d, r, x) ==
  [id |-> st.id, version |-> st.version, status |-> st.status, draft |-> d,
   stray |-> st.stray, saved |-> st.saved, savedPrint |-> st.savedPrint,
   selected |-> x, results |-> r]

LEMMA WithDraft ==
  ASSUME NEW st, IsStore(st), NEW d
  PROVE  [st EXCEPT !.draft = d] = With(st, d, st.results, st.selected)
BY DEF IsStore, With

LEMMA WithResults ==
  ASSUME NEW st, IsStore(st), NEW r
  PROVE  [st EXCEPT !.results = r] = With(st, st.draft, r, st.selected)
BY DEF IsStore, With

LEMMA WithSelected ==
  ASSUME NEW st, IsStore(st), NEW x
  PROVE  [st EXCEPT !.selected = x] = With(st, st.draft, st.results, x)
BY DEF IsStore, With

LEMMA WithDraftSelected ==
  ASSUME NEW st, IsStore(st), NEW d, NEW x
  PROVE  [st EXCEPT !.draft = d, !.selected = x] = With(st, d, st.results, x)
<1>1. [st EXCEPT !.draft = d, !.selected = x] = [[st EXCEPT !.draft = d] EXCEPT !.selected = x]
  OBVIOUS
<1>2. [With(st, d, st.results, st.selected) EXCEPT !.selected = x] = With(st, d, st.results, x)
  BY DEF With
<1> QED BY <1>1, <1>2, WithDraft, Zenon

LEMMA WithDraftResults ==
  ASSUME NEW st, IsStore(st), NEW d, NEW r
  PROVE  [st EXCEPT !.draft = d, !.results = r] = With(st, d, r, st.selected)
<1>1. [st EXCEPT !.draft = d, !.results = r] = [[st EXCEPT !.draft = d] EXCEPT !.results = r]
  OBVIOUS
<1>2. [With(st, d, st.results, st.selected) EXCEPT !.results = r] = With(st, d, r, st.selected)
  BY DEF With
<1> QED BY <1>1, <1>2, WithDraft, Zenon

LEMMA WithAll ==
  ASSUME NEW st, IsStore(st), NEW d, NEW r, NEW x
  PROVE  [st EXCEPT !.draft = d, !.results = r, !.selected = x] = With(st, d, r, x)
<1>1. [st EXCEPT !.draft = d, !.results = r, !.selected = x]
      = [[st EXCEPT !.draft = d, !.results = r] EXCEPT !.selected = x]
  OBVIOUS
<1>2. [With(st, d, r, st.selected) EXCEPT !.selected = x] = With(st, d, r, x)
  BY DEF With
<1> QED BY <1>1, <1>2, WithDraftResults, Zenon

LEMMA StoreWith ==
  ASSUME NEW st, NEW sv, NEW n \in Nat, NEW k \in Nat, n <= k, StoreInv(st, sv, n),
         NEW d, NEW r, NEW x, Linear(d), OfWorkflow(d, st.id, k),
         \A y \in r : y \in st.results \/ IsNodeId(y.node, k),
         x \in Present(d) \cup {None}
  PROVE  StoreInv(With(st, d, r, x), sv, k)
<1>1. \A y \in r : IsNodeId(y.node, k)
  BY LaterKnown DEF StoreInv
<1> DEFINE w == With(st, d, r, x)
<1>2. /\ w.id = st.id /\ w.version = st.version /\ w.saved = st.saved
      /\ w.stray = st.stray
      /\ w.savedPrint = st.savedPrint /\ w.draft = d /\ w.results = r
      /\ w.selected = x /\ IsStore(w)
  BY DEF With, IsStore
<1> HIDE DEF w
<1>3. StoreInv(w, sv, k)
  BY <1>1, <1>2 DEF StoreInv
<1> QED BY <1>3 DEF w

LEMMA Edited ==
  ASSUME EditorInv, NEW d, NEW r \in SUBSET store.results, NEW x,
         Edit(With(store, d, r, x)), Linear(d), OfWorkflow(d, store.id, edits + 1),
         x \in Present(d) \cup {None}
  PROVE  EditorInv'
<1> DEFINE w == With(store, d, r, x)
<1>1. /\ Effects(w, calls) /\ UNCHANGED api /\ url' = url /\ edits' = edits + 1
      /\ edits \in Nat /\ edits' \in Nat /\ edits <= edits'
  BY DEF Edit, page, EditorInv
<1>2. StoreInv(w, server, edits')
  <2>1. StoreInv(store, server, edits)
    BY DEF EditorInv
  <2> QED BY <1>1, <2>1, StoreWith
<1>3. AddressInv(url', server)
  BY <1>1 DEF EditorInv
<1>4. \A c \in calls : AskInv(c, server, url', edits') /\ PreviewAskInv(c, store)
  <2> SUFFICES ASSUME NEW c \in calls
      PROVE AskInv(c, server, url', edits') /\ PreviewAskInv(c, store)
    OBVIOUS
  <2>1. AskInv(c, server, url, edits) /\ PreviewAskInv(c, store)
    BY DEF EditorInv
  <2> QED BY <1>1, <2>1, AskedStill
<1> HIDE DEF w
<1> QED BY <1>1, <1>2, <1>3, <1>4, Effected

-----------------------------------------------------------------------------
(* The edits.                                                              *)

WithNode(d, s, x) == [d EXCEPT !.node = [d.node EXCEPT ![s] = x]]
WithEdges(d, cs) == [d EXCEPT !.edge = cs]
Renamed(d) == [d EXCEPT !.name = 1 - d.name]

LEMMA DrawnIs ==
  ASSUME NEW d \in Drawings, NEW s \in Slots, NEW x \in Nodes \cup {None}
  PROVE  /\ WithNode(d, s, x) \in Drawings /\ WithNode(d, s, x).edge = d.edge
         /\ WithNode(d, s, x).node[s] = x
         /\ \A b \in Slots \ {s} : WithNode(d, s, x).node[b] = d.node[b]
BY DEF Drawings, WithNode

LEMMA EdgesAre ==
  ASSUME NEW d \in Drawings, NEW cs \in SUBSET (Slots \X Slots)
  PROVE  /\ WithEdges(d, cs) \in Drawings /\ WithEdges(d, cs).edge = cs
         /\ WithEdges(d, cs).node = d.node
BY DEF Drawings, WithEdges

LEMMA NameIs ==
  ASSUME NEW d \in Drawings
  PROVE  /\ Renamed(d) \in Drawings /\ Renamed(d).edge = d.edge
         /\ Renamed(d).node = d.node
BY DEF Drawings, Renamed

\* Another config of s, another id of s that is its own.
LEMMA ConfigIs ==
  ASSUME NEW x \in Nodes
  PROVE  LET y == [x EXCEPT !.config = 1 - x.config] IN y \in Nodes /\ y.id = x.id
BY DEF Nodes

LEMMA NewNodeIs ==
  ASSUME NEW s \in Slots, NEW w \in Workflows \cup {None}, NEW v \in Nat, NEW b \in {0, 1}
  PROVE  /\ NewNode(s, w, v, b) \in Nodes /\ NewNode(s, w, v, b).id = <<s, w, v>>
         /\ NewNode(s, w, v, b).id[1] = s /\ NewNode(s, w, v, b).id[2] = w
         /\ NewNode(s, w, v, b).id[3] = v
         /\ NewNode(s, w, v, b) # None
<1>1. NewNode(s, w, v, b) \in Nodes
  BY DEF NewNode, Nodes, NodeIds
<1>2. None \notin Nodes
  BY EditorAssumption
<1> QED BY <1>1, <1>2 DEF NewNode

LEMMA NodeChanged ==
  ASSUME NEW d, Linear(d), NEW w, NEW n, OfWorkflow(d, w, n), NEW s \in Slots,
         NEW x \in Nodes, x.id[1] = s, Known(x.id, w, n)
  PROVE  LET e == WithNode(d, s, x) IN
         Linear(e) /\ OfWorkflow(e, w, n) /\ Present(e) = Present(d) \cup {s}
<1> DEFINE e == WithNode(d, s, x)
<1>1. d \in Drawings /\ x # None /\ d.edge \in SUBSET (Slots \X Slots)
  BY EditorAssumption DEF Linear, Drawings
<1>2. /\ e \in Drawings /\ e.edge = d.edge /\ e.node[s] = x
      /\ \A b \in Slots \ {s} : e.node[b] = d.node[b]
  BY <1>1, DrawnIs
<1> HIDE DEF e
<1>3. Present(e) = Present(d) \cup {s}
  BY <1>1, <1>2 DEF Present
<1>4. Linear(e)
  <2>1. \A c \in e.edge : c[1] \in Slots /\ c[2] \in Slots
    BY <1>2 DEF Drawings
  <2>2. \A c \in e.edge : e.node[c[1]] # None /\ e.node[c[2]] # None
    BY <1>1, <1>2, <2>1 DEF Linear
  <2>3. \A b \in Slots : e.node[b] # None => e.node[b].id[1] = b
    BY <1>1, <1>2 DEF Linear
  <2> QED BY <1>2, <2>2, <2>3 DEF Linear
<1>5. OfWorkflow(e, w, n)
  <2> SUFFICES ASSUME NEW b \in Present(e) PROVE Known(e.node[b].id, w, n)
    BY DEF OfWorkflow
  <2>1. CASE b = s
    BY <1>2, <2>1
  <2>2. CASE b # s
    <3>1. b \in Present(d) /\ e.node[b] = d.node[b]
      BY <1>2, <1>3, <2>2 DEF Present
    <3> QED BY <3>1 DEF OfWorkflow
  <2> QED BY <2>1, <2>2
<1> QED BY <1>3, <1>4, <1>5 DEF e

\* Some edges go, or a node with its edges.
LEMMA PartsRemoved ==
  ASSUME NEW d, Linear(d), NEW w, NEW n, OfWorkflow(d, w, n), NEW e \in Drawings,
         e.edge \subseteq d.edge,
         \A b \in Slots : e.node[b] = d.node[b] \/ e.node[b] = None,
         \A c \in e.edge : e.node[c[1]] # None /\ e.node[c[2]] # None
  PROVE  Linear(e) /\ OfWorkflow(e, w, n) /\ Present(e) \subseteq Present(d)
<1>1. \A b \in Present(e) : b \in Present(d) /\ e.node[b] = d.node[b]
  BY DEF Present
<1>2. OfWorkflow(e, w, n)
  BY <1>1 DEF OfWorkflow
<1>3. Linear(e)
  BY DEF Linear
<1> QED BY <1>1, <1>2, <1>3

LEMMA EdgeDrawn ==
  ASSUME NEW d, Linear(d), NEW w, NEW n, OfWorkflow(d, w, n), NEW a, NEW b,
         MayConnect(d, a, b)
  PROVE  LET e == WithEdges(d, d.edge \cup {<<a, b>>}) IN
         Linear(e) /\ OfWorkflow(e, w, n) /\ Present(e) = Present(d)
<1> DEFINE e == WithEdges(d, d.edge \cup {<<a, b>>})
<1>0. /\ d \in Drawings /\ a \in Slots /\ b \in Slots
      /\ d.node[a] # None /\ d.node[b] # None
  BY DEF Linear, MayConnect, Present
<1>1. d.edge \cup {<<a, b>>} \in SUBSET (Slots \X Slots)
  BY <1>0 DEF Drawings
<1>2. e \in Drawings /\ e.edge = d.edge \cup {<<a, b>>} /\ e.node = d.node
  BY <1>0, <1>1, EdgesAre
<1> HIDE DEF e
<1>3. \A c \in e.edge : e.node[c[1]] # None /\ e.node[c[2]] # None
  BY <1>0, <1>2 DEF Linear
<1>4. \A c, f \in e.edge : (c[1] = f[1] \/ c[2] = f[2]) => c = f
  BY <1>2 DEF Linear, MayConnect
<1>5. Linear(e)
  BY <1>2, <1>3, <1>4 DEF Linear
<1> QED BY <1>2, <1>5 DEF Present, OfWorkflow, e

LEMMA FitsStill ==
  ASSUME NEW d, NEW e, NEW r, Fits(r, d),
         \A t \in Present(e) : e.node[t].id = r.node =>
           /\ t \in Present(d) /\ e.node[t] = d.node[t]
           /\ Previous(d, t) # None =>
                /\ Previous(e, t) = Previous(d, t)
                /\ e.node[Previous(d, t)] = d.node[Previous(d, t)]
  PROVE  Fits(r, e)
BY DEF Fits

\* An edit leaves a drawing, drops results or leaves them, and those it leaves
\* fit as they did.
EditedTo(d, r, x) ==
  /\ Edit(With(store, d, r, x))
  /\ Linear(d) /\ OfWorkflow(d, store.id, edits + 1)
  /\ r \subseteq store.results
  /\ x \in Present(d) \cup {None}
  /\ \A y \in r : Fits(y, store.draft) => Fits(y, d)

SoundEdit == \E d, r, x : EditedTo(d, r, x)

LEMMA BeforeEdit ==
  ASSUME EditorInv
  PROVE  /\ IsStore(store) /\ Linear(store.draft) /\ store.draft \in Drawings
         /\ OfWorkflow(store.draft, store.id, edits + 1)
         /\ store.id \in Workflows \cup {None}
         /\ store.selected \in Present(store.draft) \cup {None}
         /\ edits \in Nat /\ store.draft.edge \in SUBSET (Slots \X Slots)
         /\ \A r \in store.results : IsNodeId(r.node, edits)
<1>1. StoreInv(store, server, edits) /\ edits \in Nat
  BY DEF EditorInv
<1>2. store.draft \in Drawings
  BY <1>1 DEF StoreInv, Linear
<1>3. edits + 1 \in Nat /\ edits <= edits + 1
  BY <1>1
<1>4. OfWorkflow(store.draft, store.id, edits + 1)
  BY <1>1, <1>2, <1>3, LaterKnown DEF StoreInv
<1> QED BY <1>1, <1>2, <1>4 DEF StoreInv, Linear, Drawings

LEMMA NameEdited == ASSUME EditorInv, setWorkflowName PROVE SoundEdit
<1> DEFINE d == Renamed(store.draft)
<1>1. [store EXCEPT !.draft.name = 1 - @] = [store EXCEPT !.draft = d]
  BY DEF Renamed
<1>2. Edit(With(store, d, store.results, store.selected))
  <2>1. [store EXCEPT !.draft = d] = With(store, d, store.results, store.selected)
    BY BeforeEdit, WithDraft, Zenon
  <2> QED BY <1>1, <2>1 DEF setWorkflowName
<1>3. d \in Drawings /\ d.edge = store.draft.edge /\ d.node = store.draft.node
  BY BeforeEdit, NameIs
<1> HIDE DEF d
<1>4. Linear(d) /\ OfWorkflow(d, store.id, edits + 1) /\ Present(d) = Present(store.draft)
  BY <1>3, BeforeEdit DEF Linear, OfWorkflow, Present
<1>5. \A y \in store.results : Fits(y, store.draft) => Fits(y, d)
  BY <1>3, <1>4, SamePrevious, FitsStill DEF Present
<1>6. EditedTo(d, store.results, store.selected)
  BY <1>2, <1>4, <1>5, BeforeEdit DEF EditedTo
<1> QED BY <1>6 DEF SoundEdit

LEMMA EdgeHasEnds ==
  ASSUME NEW d, Linear(d), NEW s, NEW t, <<s, t>> \in d.edge
  PROVE  s \in Present(d) /\ t \in Present(d) /\ d.node[s] # None
<1>1. s \in Slots /\ t \in Slots
  BY DEF Linear, Drawings
<1> QED BY <1>1 DEF Linear, Present

LEMMA PreviousIsPresent ==
  ASSUME NEW d, Linear(d), NEW t, Previous(d, t) # None
  PROVE  /\ Previous(d, t) \in Slots /\ t \in Slots /\ <<Previous(d, t), t>> \in d.edge
         /\ Previous(d, t) \in Present(d) /\ t \in Present(d)
         /\ d.node[Trigger] # None
<1>1. d.edge \subseteq Slots \X Slots
  BY DEF Linear, Drawings
<1>2. /\ Previous(d, t) \in Slots /\ t \in Slots /\ <<Previous(d, t), t>> \in d.edge
      /\ \E i \in Nat : At(d, i, t)
  BY <1>1, PreviousIsBefore
<1> QED BY <1>2, EdgeHasEnds DEF At

LEMMA NodeAdded ==
  ASSUME EditorInv, NEW s \in Slots, addNode(s)
  PROVE  SoundEdit
<1> DEFINE x == NewNode(s, None, edits, 0)  dr == store.draft  d == WithNode(dr, s, x)
<1>1. [store EXCEPT !.draft.node[s] = x, !.selected = s]
      = [store EXCEPT !.draft = d, !.selected = s]
  <2>1. [store EXCEPT !.draft.node[s] = x] = [store EXCEPT !.draft = d]
    BY DEF WithNode
  <2>2. [store EXCEPT !.draft.node[s] = x, !.selected = s]
        = [[store EXCEPT !.draft.node[s] = x] EXCEPT !.selected = s]
    OBVIOUS
  <2>3. [store EXCEPT !.draft = d, !.selected = s]
        = [[store EXCEPT !.draft = d] EXCEPT !.selected = s]
    OBVIOUS
  <2> QED BY <2>1, <2>2, <2>3
<1>2. Edit(With(store, d, store.results, s)) /\ s \notin Present(dr)
  <2>1. /\ Edit([store EXCEPT !.draft.node[s] = x, !.selected = s])
        /\ s \notin Present(dr)
    BY DEF addNode
  <2> HIDE DEF d
  <2>2. IsStore(store)
    BY BeforeEdit
  <2>3. [store EXCEPT !.draft = d, !.selected = s] = With(store, d, store.results, s)
    BY <2>2, WithDraftSelected, Zenon
  <2> QED BY <1>1, <2>1, <2>3
<1>3. /\ x \in Nodes /\ x.id = <<s, None, edits>> /\ x.id[1] = s /\ x # None
      /\ Known(x.id, store.id, edits + 1)
  <2>1. 0 \in {0, 1} /\ None \in Workflows \cup {None} /\ edits \in Nat
    BY BeforeEdit
  <2>2. /\ x \in Nodes /\ x.id = <<s, None, edits>> /\ x.id[1] = s /\ x # None
        /\ x.id[2] = None /\ x.id[3] = edits
    BY <2>1, NewNodeIs
  <2> HIDE DEF x
  <2> QED BY <2>1, <2>2 DEF Known
<1>4. /\ dr.node[s] = None /\ dr \in Drawings /\ Linear(dr)
      /\ dr.edge \in SUBSET (Slots \X Slots) /\ x \in Nodes \cup {None}
  BY <1>2, <1>3, BeforeEdit DEF Present
<1>5. Linear(d) /\ OfWorkflow(d, store.id, edits + 1) /\ Present(d) = Present(dr) \cup {s}
  BY <1>3, BeforeEdit, NodeChanged
<1> HIDE DEF dr, x
<1>6. d.edge = dr.edge /\ d.node[s] = x /\ \A b \in Slots \ {s} : d.node[b] = dr.node[b]
  BY <1>4, DrawnIs
<1> HIDE DEF d
<1>7. ASSUME NEW y \in store.results, Fits(y, dr) PROVE Fits(y, d)
  <2> SUFFICES ASSUME NEW t \in Present(d), d.node[t].id = y.node
      PROVE  /\ t \in Present(dr) /\ d.node[t] = dr.node[t]
             /\ Previous(dr, t) # None =>
                  /\ Previous(d, t) = Previous(dr, t)
                  /\ d.node[Previous(dr, t)] = dr.node[Previous(dr, t)]
    BY <1>7, FitsStill
  <2>1. t # s
    <3>1. IsNodeId(y.node, edits)
      BY BeforeEdit
    <3>2. y.node # <<s, None, edits>>
      BY <3>1, BeforeEdit DEF IsNodeId
    <3> QED BY <1>3, <1>6, <3>2
  <2>2. t \in Present(dr) /\ t \in Slots
    BY <1>5, <2>1 DEF Present
  <2>3. ASSUME Previous(dr, t) # None
        PROVE Previous(d, t) = Previous(dr, t)
              /\ d.node[Previous(dr, t)] = dr.node[Previous(dr, t)]
    <3>1. /\ Previous(dr, t) \in Present(dr) /\ Previous(dr, t) \in Slots
          /\ dr.node[Trigger] # None
      BY <1>4, <2>3, PreviousIsPresent
    <3>2. Previous(dr, t) # s /\ Trigger # s
      BY <1>4, <3>1 DEF Present
    <3>3. d.node[Trigger] # None
      BY <1>6, <3>1, <3>2, EditorAssumption
    <3> QED BY <1>6, <3>1, <3>2, <3>3, SamePrevious
  <2> QED BY <1>6, <2>1, <2>2, <2>3
<1>8. EditedTo(d, store.results, s)
  BY <1>2, <1>5, <1>7 DEF EditedTo, dr
<1> QED BY <1>8 DEF SoundEdit

LEMMA DownstreamHas ==
  ASSUME NEW d, NEW s, s # None
  PROVE  /\ s \in Downstream(d, s)
         /\ Linear(d) => \A t : <<s, t>> \in d.edge => t \in Downstream(d, s)
<1>1. Cardinality(Slots) \in Nat /\ Cardinality(Slots) # 0
  BY SlotsCounted
<1>2. /\ Walk(d, s)[0] = s /\ DOMAIN Walk(d, s) = 0..Cardinality(Slots)
      /\ \A i \in 1..Cardinality(Slots) : Walk(d, s)[i] = After(d, Walk(d, s)[i - 1])
  BY Walking
<1>3. 0 \in DOMAIN Walk(d, s) /\ 1 \in DOMAIN Walk(d, s) /\ 1 - 1 = 0
  BY <1>1, <1>2
<1>4. Walk(d, s)[1] = After(d, s)
  BY <1>1, <1>2
<1>5. Walk(d, s)[0] \in {Walk(d, s)[i] : i \in DOMAIN Walk(d, s)}
      /\ Walk(d, s)[1] \in {Walk(d, s)[i] : i \in DOMAIN Walk(d, s)}
  BY <1>3
<1>6. s \in Downstream(d, s)
  BY <1>2, <1>5 DEF Downstream
<1>7. ASSUME Linear(d), NEW t, <<s, t>> \in d.edge PROVE t \in Downstream(d, s)
  <2>1. After(d, s) = t /\ t # None
    BY <1>7, AfterIsNext
  <2> QED BY <1>4, <1>5, <2>1 DEF Downstream
<1> QED BY <1>6, <1>7

LEMMA Configured ==
  ASSUME NEW st, IsStore(st), NEW s, NEW r
  PROVE  LET y == [st.draft.node[s] EXCEPT !.config = 1 - st.draft.node[s].config] IN
         [st EXCEPT !.draft.node[s].config = 1 - @, !.results = r]
         = With(st, WithNode(st.draft, s, y), r, st.selected)
<1> DEFINE y == [st.draft.node[s] EXCEPT !.config = 1 - st.draft.node[s].config]
           d == WithNode(st.draft, s, y)
<1>1. [st EXCEPT !.draft.node[s].config = 1 - @] = [st EXCEPT !.draft = d]
  BY DEF WithNode
<1>2. [st EXCEPT !.draft.node[s].config = 1 - @, !.results = r]
      = [[st EXCEPT !.draft.node[s].config = 1 - @] EXCEPT !.results = r]
  OBVIOUS
<1>3. [st EXCEPT !.draft = d, !.results = r] = [[st EXCEPT !.draft = d] EXCEPT !.results = r]
  OBVIOUS
<1> HIDE DEF d
<1>4. [st EXCEPT !.draft = d, !.results = r] = With(st, d, r, st.selected)
  BY WithDraftResults, Zenon
<1> QED BY <1>1, <1>2, <1>3, <1>4 DEF d

LEMMA NodeConfigured ==
  ASSUME EditorInv, NEW s \in Slots, updateNodeConfig(s)
  PROVE  SoundEdit
<1> DEFINE dr == store.draft
           y == [dr.node[s] EXCEPT !.config = 1 - dr.node[s].config]
           d == WithNode(dr, s, y)
           r == Forget(store, Downstream(dr, s))
<1>1. IsStore(store) /\ s = store.selected /\ s # None
  BY BeforeEdit DEF updateNodeConfig
<1>2. Edit(With(store, d, r, store.selected))
  <2>1. Edit([store EXCEPT !.draft.node[s].config = 1 - @, !.results = r])
    BY DEF updateNodeConfig
  <2> HIDE DEF r
  <2>2. [store EXCEPT !.draft.node[s].config = 1 - @, !.results = r]
        = With(store, d, r, store.selected)
    BY <1>1, Configured, Zenon
  <2> QED BY <2>1, <2>2
<1>3. /\ s \in Present(dr) /\ dr \in Drawings /\ Linear(dr) /\ dr.node[s] \in Nodes
      /\ OfWorkflow(dr, store.id, edits + 1)
  BY <1>1, BeforeEdit DEF Present, Drawings
<1>4. y \in Nodes /\ y.id = dr.node[s].id
  BY <1>3, ConfigIs
<1>5. y.id[1] = s /\ Known(y.id, store.id, edits + 1)
  BY <1>3, <1>4 DEF Linear, OfWorkflow, Present
<1> HIDE DEF dr, y
<1>6. Linear(d) /\ OfWorkflow(d, store.id, edits + 1) /\ Present(d) = Present(dr)
  <2>1. /\ Linear(d) /\ OfWorkflow(d, store.id, edits + 1)
        /\ Present(d) = Present(dr) \cup {s}
    BY <1>3, <1>4, <1>5, NodeChanged
  <2> QED BY <1>3, <2>1
<1>7. d.edge = dr.edge /\ d.node[s] = y /\ \A b \in Slots \ {s} : d.node[b] = dr.node[b]
  BY <1>3, <1>4, DrawnIs
<1> HIDE DEF d
<1>8. r \subseteq store.results
  BY DEF Forget
<1>9. ASSUME NEW z \in r, Fits(z, dr) PROVE Fits(z, d)
  <2> SUFFICES ASSUME NEW t \in Present(d), d.node[t].id = z.node
      PROVE  /\ t \in Present(dr) /\ d.node[t] = dr.node[t]
             /\ Previous(dr, t) # None =>
                  /\ Previous(d, t) = Previous(dr, t)
                  /\ d.node[Previous(dr, t)] = dr.node[Previous(dr, t)]
    BY <1>9, FitsStill
  <2>1. t \in Present(dr) /\ t \in Slots /\ dr.node[t].id = z.node
    BY <1>4, <1>6, <1>7 DEF Present
  <2>2. t \notin Downstream(dr, s)
    BY <2>1 DEF Forget, dr
  <2>3. t # s /\ <<s, t>> \notin dr.edge
    BY <1>1, <1>3, <2>2, DownstreamHas
  <2>4. ASSUME Previous(dr, t) # None
        PROVE Previous(d, t) = Previous(dr, t)
              /\ d.node[Previous(dr, t)] = dr.node[Previous(dr, t)]
    <3>1. /\ Previous(dr, t) \in Slots /\ <<Previous(dr, t), t>> \in dr.edge
          /\ dr.node[Trigger] # None
      BY <1>3, <2>4, PreviousIsPresent
    <3>2. Previous(dr, t) # s
      BY <2>3, <3>1
    <3>3. d.node[Trigger] # None
      <4>1. Trigger \in Slots /\ None \notin Nodes
        BY EditorAssumption
      <4> QED BY <1>4, <1>7, <3>1, <4>1
    <3> QED BY <1>7, <3>1, <3>2, <3>3, SamePrevious
  <2> QED BY <1>7, <2>1, <2>3, <2>4
<1>10. EditedTo(d, r, store.selected)
  BY <1>1, <1>2, <1>3, <1>6, <1>8, <1>9 DEF EditedTo, dr
<1> QED BY <1>10 DEF SoundEdit

Reduced(st, s, r, cs) ==
  [st EXCEPT !.results = r, !.draft.node[s] = None, !.draft.edge = cs,
             !.selected = None]

LEMMA Removing ==
  ASSUME NEW st, IsStore(st), NEW s, NEW r, NEW cs
  PROVE  Reduced(st, s, r, cs) = With(st, WithEdges(WithNode(st.draft, s, None), cs), r, None)
<1> DEFINE a == [st EXCEPT !.results = r]
           b == [a EXCEPT !.draft.node[s] = None]
           c == [b EXCEPT !.draft.edge = cs]
           d == WithNode(st.draft, s, None)
           e == WithEdges(d, cs)
<1>1. Reduced(st, s, r, cs) = [c EXCEPT !.selected = None]
  BY DEF Reduced
<1>2. a = With(st, st.draft, r, st.selected)
  BY WithResults, Zenon
<1>3. IsStore(a) /\ a.draft = st.draft /\ a.results = r /\ a.selected = st.selected
  BY <1>2 DEF With, IsStore
<1>4. b = With(st, d, r, st.selected)
  <2> HIDE DEF a
  <2>1. b = [a EXCEPT !.draft = WithNode(a.draft, s, None)]
    BY DEF WithNode
  <2>2. b = [a EXCEPT !.draft = d]
    BY <1>3, <2>1
  <2> HIDE DEF b, d
  <2>3. [a EXCEPT !.draft = d] = With(a, d, a.results, a.selected)
    BY <1>3, WithDraft, Zenon
  <2>4. With(a, d, a.results, a.selected) = With(st, d, r, st.selected)
    BY <1>2, <1>3 DEF With
  <2> QED BY <2>2, <2>3, <2>4
<1> HIDE DEF a
<1>5. IsStore(b) /\ b.draft = d /\ b.results = r /\ b.selected = st.selected
  BY <1>4 DEF With, IsStore
<1>6. c = With(st, e, r, st.selected)
  <2> HIDE DEF b
  <2>1. c = [b EXCEPT !.draft = WithEdges(b.draft, cs)]
    BY DEF WithEdges
  <2>2. c = [b EXCEPT !.draft = e]
    BY <1>5, <2>1
  <2> HIDE DEF c, e
  <2>3. [b EXCEPT !.draft = e] = With(b, e, b.results, b.selected)
    BY <1>5, WithDraft, Zenon
  <2>4. With(b, e, b.results, b.selected) = With(st, e, r, st.selected)
    BY <1>4, <1>5 DEF With
  <2> QED BY <2>2, <2>3, <2>4
<1> HIDE DEF b, c
<1>7. [With(st, e, r, st.selected) EXCEPT !.selected = None] = With(st, e, r, None)
  BY DEF With
<1> QED BY <1>1, <1>6, <1>7

\* Nothing stands behind a node with no way out.
LEMMA LonelyEnds ==
  ASSUME NEW d, d.edge \subseteq Slots \X Slots, NEW a, After(d, a) = None
  PROVE  Downstream(d, a) \subseteq {a}
<1> DEFINE f == Walk(d, a)  m == Cardinality(Slots)
           Further == {i \in 1..m : f[i] # None}
<1>1. /\ f[0] = a /\ DOMAIN f = 0..m /\ m \in Nat
      /\ \A i \in 1..m : f[i] = After(d, f[i - 1])
  BY Walking, SlotsCounted
<1>2. After(d, None) = None
  <2>1. After(d, None) # None => <<None, After(d, None)>> \in d.edge
    BY AfterIsNext
  <2>2. None \notin Slots
    BY EditorAssumption
  <2> QED BY <2>1, <2>2
<1> HIDE DEF f, m
<1>3. ASSUME Further # {} PROVE FALSE
  <2>1. Further \in SUBSET Nat
    BY <1>1
  <2>2. PICK k \in Further : \A j \in Further : ~ (j < k)
    <3> HIDE DEF Further
    <3> QED BY <1>3, <2>1, LeastOf
  <2>3. k # 1
    <3>1. 1 - 1 = 0
      OBVIOUS
    <3> QED BY <1>1, <2>2, <3>1
  <2>4. k - 1 \in 1..m /\ k - 1 < k
    BY <1>1, <2>2, <2>3
  <2>5. f[k - 1] = None
    BY <2>2, <2>4
  <2> QED BY <1>1, <1>2, <2>2, <2>5
<1>4. \A i \in DOMAIN f : f[i] \in {a, None}
  <2> SUFFICES ASSUME NEW i \in 0..m PROVE f[i] \in {a, None}
    BY <1>1
  <2>1. i = 0 \/ i \in 1..m
    BY <1>1
  <2> QED BY <1>1, <1>3, <2>1
<1> QED BY <1>4 DEF Downstream, f

WithoutNode(d, s) ==
  WithEdges(WithNode(d, s, None), {x \in d.edge : x[1] # s /\ x[2] # s})

LEMMA NodeGone ==
  ASSUME NEW d, Linear(d), NEW w, NEW n, OfWorkflow(d, w, n), NEW s \in Slots
  PROVE  LET e == WithoutNode(d, s) IN
         /\ Linear(e) /\ OfWorkflow(e, w, n)
         /\ e.edge = {x \in d.edge : x[1] # s /\ x[2] # s}
         /\ e.node[s] = None /\ \A b \in Slots \ {s} : e.node[b] = d.node[b]
<1> DEFINE c == WithNode(d, s, None)
           cs == {x \in d.edge : x[1] # s /\ x[2] # s}
           e == WithEdges(c, cs)
<1>1. d \in Drawings /\ d.edge \in SUBSET (Slots \X Slots) /\ cs \in SUBSET (Slots \X Slots)
  BY DEF Linear, Drawings
<1>2. /\ c \in Drawings /\ c.edge = d.edge /\ c.node[s] = None
      /\ \A b \in Slots \ {s} : c.node[b] = d.node[b]
  BY <1>1, DrawnIs
<1> HIDE DEF c
<1>3. e \in Drawings /\ e.edge = cs /\ e.node = c.node
  BY <1>1, <1>2, EdgesAre
<1> HIDE DEF e
<1>4. \A b \in Slots : e.node[b] = d.node[b] \/ e.node[b] = None
  BY <1>2, <1>3
<1>5. \A x \in e.edge : e.node[x[1]] # None /\ e.node[x[2]] # None
  <2> SUFFICES ASSUME NEW x \in d.edge, x[1] # s, x[2] # s
      PROVE e.node[x[1]] # None /\ e.node[x[2]] # None
    BY <1>3
  <2>1. x[1] \in Slots \ {s} /\ x[2] \in Slots \ {s}
    BY <1>1
  <2>2. d.node[x[1]] # None /\ d.node[x[2]] # None
    BY DEF Linear
  <2> QED BY <1>2, <1>3, <2>1, <2>2
<1>6. e.edge \subseteq d.edge
  BY <1>3
<1>7. Linear(e) /\ OfWorkflow(e, w, n)
  BY <1>3, <1>4, <1>5, <1>6, PartsRemoved
<1>8. e = WithoutNode(d, s)
  BY DEF WithoutNode, e, c
<1> HIDE DEF cs
<1>9. /\ e.edge = cs /\ e.node[s] = None
      /\ \A b \in Slots \ {s} : e.node[b] = d.node[b]
  BY <1>2, <1>3
<1> QED BY <1>7, <1>8, <1>9 DEF cs

LEMMA FitsWithout ==
  ASSUME NEW d, NEW s \in Slots, Linear(d), NEW e, Linear(e),
         e.edge = {x \in d.edge : x[1] # s /\ x[2] # s}, e.node[s] = None,
         \A b \in Slots \ {s} : e.node[b] = d.node[b],
         NEW r, Fits(r, d),
         \A t \in Present(d) \ {s} : d.node[t].id = r.node => t \notin Downstream(d, s)
  PROVE  Fits(r, e)
<1> SUFFICES ASSUME NEW t \in Present(e), e.node[t].id = r.node
    PROVE  /\ t \in Present(d) /\ e.node[t] = d.node[t]
           /\ Previous(d, t) # None =>
                /\ Previous(e, t) = Previous(d, t)
                /\ e.node[Previous(d, t)] = d.node[Previous(d, t)]
  BY FitsStill
<1>1. t \in Slots /\ t # s /\ e.node[t] = d.node[t] /\ t \in Present(d)
  BY DEF Present
<1>2. t \notin Downstream(d, s)
  BY <1>1
<1>3. <<s, t>> \notin d.edge
  <2>1. s # None
    BY EditorAssumption
  <2> QED BY <1>2, <2>1, DownstreamHas
<1>4. ASSUME Previous(d, t) # None
      PROVE Previous(e, t) = Previous(d, t)
            /\ e.node[Previous(d, t)] = d.node[Previous(d, t)]
  <2>1. Previous(e, t) = Previous(d, t)
    BY <1>2, <1>4, PreviousWithout
  <2>2. Previous(d, t) \in Slots /\ <<Previous(d, t), t>> \in d.edge
    BY <1>4, PreviousIsPresent
  <2> QED BY <1>3, <2>1, <2>2
<1> QED BY <1>1, <1>4

LEMMA NodeRemoved ==
  ASSUME EditorInv, NEW s \in Slots, removeNode(s)
  PROVE  SoundEdit
<1> DEFINE dr == store.draft
           cs == {e \in dr.edge : e[1] # s /\ e[2] # s}
           d == WithoutNode(dr, s)
           r == Forget(store, Downstream(dr, s))
<1>1. IsStore(store) /\ Linear(dr) /\ OfWorkflow(dr, store.id, edits + 1)
  BY BeforeEdit
<1>2. Edit(With(store, d, r, None))
  <2>1. Edit(Reduced(store, s, r, cs))
    BY DEF removeNode, Reduced
  <2> HIDE DEF r
  <2>2. Reduced(store, s, r, cs) = With(store, d, r, None)
    BY <1>1, Removing DEF WithoutNode
  <2> QED BY <2>1, <2>2
<1> HIDE DEF dr
<1>3. /\ Linear(d) /\ OfWorkflow(d, store.id, edits + 1)
      /\ d.edge = cs /\ d.node[s] = None
      /\ \A b \in Slots \ {s} : d.node[b] = dr.node[b]
  BY <1>1, NodeGone
<1> HIDE DEF d
<1>4. r \subseteq store.results
  BY DEF Forget
<1>5. ASSUME NEW y \in r, Fits(y, dr) PROVE Fits(y, d)
  <2>1. \A t \in Present(dr) : dr.node[t].id = y.node => t \notin Downstream(dr, s)
    BY DEF Forget, dr
  <2> QED BY <1>1, <1>3, <1>5, <2>1, FitsWithout
<1>6. EditedTo(d, r, None)
  BY <1>2, <1>3, <1>4, <1>5 DEF EditedTo, dr
<1> QED BY <1>6 DEF SoundEdit

LEMMA NodeDeleted ==
  ASSUME EditorInv, NEW s \in Slots, onNodesChange(s)
  PROVE  SoundEdit
<1> DEFINE dr == store.draft
           own == {e \in dr.edge : e[1] = s \/ e[2] = s}
           cs == {e \in dr.edge : e[1] # s /\ e[2] # s}
           d == WithoutNode(dr, s)
           r == IF own = {} THEN store.results ELSE {}
<1>1. IsStore(store) /\ Linear(dr) /\ OfWorkflow(dr, store.id, edits + 1)
  BY BeforeEdit
<1>2. Edit(With(store, d, r, None))
  <2>1. Edit(Reduced(store, s, r, dr.edge \ own))
    BY DEF onNodesChange, Reduced
  <2>2. dr.edge \ own = cs
    OBVIOUS
  <2> HIDE DEF r
  <2>3. Reduced(store, s, r, cs) = With(store, d, r, None)
    BY <1>1, Removing DEF WithoutNode
  <2> QED BY <2>1, <2>2, <2>3
<1> HIDE DEF dr
<1>3. /\ Linear(d) /\ OfWorkflow(d, store.id, edits + 1)
      /\ d.edge = cs /\ d.node[s] = None
      /\ \A b \in Slots \ {s} : d.node[b] = dr.node[b]
  BY <1>1, NodeGone
<1> HIDE DEF d
<1>4. ASSUME NEW y \in r, Fits(y, dr) PROVE Fits(y, d)
  <2>1. own = {} /\ y \in store.results
    BY <1>4
  <2>2. After(dr, s) = None
    <3>1. After(dr, s) # None => <<s, After(dr, s)>> \in dr.edge
      BY AfterIsNext
    <3> QED BY <2>1, <3>1
  <2>3. dr.edge \subseteq Slots \X Slots
    BY <1>1 DEF Linear, Drawings
  <2>4. Downstream(dr, s) \subseteq {s}
    BY <2>2, <2>3, LonelyEnds
  <2>5. \A t \in Present(dr) \ {s} : t \notin Downstream(dr, s)
    BY <2>4
  <2> QED BY <1>1, <1>3, <1>4, <2>5, FitsWithout
<1>5. EditedTo(d, r, None)
  BY <1>2, <1>3, <1>4 DEF EditedTo, dr
<1> QED BY <1>5 DEF SoundEdit

LEMMA Redrawn ==
  ASSUME NEW st, IsStore(st), NEW cs
  PROVE  [st EXCEPT !.draft.edge = cs, !.results = {}]
         = With(st, WithEdges(st.draft, cs), {}, st.selected)
<1> DEFINE d == WithEdges(st.draft, cs)
<1>1. [st EXCEPT !.draft.edge = cs] = [st EXCEPT !.draft = d]
  BY DEF WithEdges
<1>2. [st EXCEPT !.draft.edge = cs, !.results = {}]
      = [[st EXCEPT !.draft.edge = cs] EXCEPT !.results = {}]
  OBVIOUS
<1>3. [st EXCEPT !.draft = d, !.results = {}] = [[st EXCEPT !.draft = d] EXCEPT !.results = {}]
  OBVIOUS
<1> HIDE DEF d
<1>4. [st EXCEPT !.draft = d, !.results = {}] = With(st, d, {}, st.selected)
  BY WithDraftResults, Zenon
<1> QED BY <1>1, <1>2, <1>3, <1>4 DEF d

LEMMA EdgeRemoved ==
  ASSUME EditorInv, NEW a, NEW b, onEdgesChange(<<a, b>>)
  PROVE  SoundEdit
<1> DEFINE dr == store.draft
           cs == dr.edge \ {<<a, b>>}
           d == WithEdges(dr, cs)
<1>1. /\ IsStore(store) /\ Linear(dr) /\ OfWorkflow(dr, store.id, edits + 1)
      /\ dr \in Drawings /\ dr.edge \in SUBSET (Slots \X Slots)
      /\ store.selected \in Present(dr) \cup {None}
  BY BeforeEdit
<1>2. Edit(With(store, d, {}, store.selected))
  <2>1. Edit([store EXCEPT !.draft.edge = cs, !.results = {}])
    BY DEF onEdgesChange
  <2> HIDE DEF cs
  <2>2. [store EXCEPT !.draft.edge = cs, !.results = {}]
        = With(store, WithEdges(store.draft, cs), {}, store.selected)
    BY <1>1, Redrawn, Zenon
  <2> QED BY <2>1, <2>2
<1>3. d \in Drawings /\ d.edge = cs /\ d.node = dr.node
  <2>1. cs \in SUBSET (Slots \X Slots)
    BY <1>1
  <2> HIDE DEF cs
  <2> QED BY <1>1, <2>1, EdgesAre
<1> HIDE DEF d
<1>4. \A c \in d.edge : d.node[c[1]] # None /\ d.node[c[2]] # None
  BY <1>1, <1>3 DEF Linear
<1>5. Linear(d) /\ OfWorkflow(d, store.id, edits + 1)
  BY <1>1, <1>3, <1>4, PartsRemoved
<1>6. store.selected \in Present(d) \cup {None}
  BY <1>1, <1>3 DEF Present
<1>7. EditedTo(d, {}, store.selected)
  BY <1>2, <1>5, <1>6 DEF EditedTo
<1> QED BY <1>7 DEF SoundEdit

LEMMA EdgeConnected ==
  ASSUME EditorInv, NEW a, NEW b, onConnect(a, b)
  PROVE  SoundEdit
<1> DEFINE dr == store.draft
           cs == dr.edge \cup {<<a, b>>}
           d == WithEdges(dr, cs)
<1>1. /\ IsStore(store) /\ Linear(dr) /\ OfWorkflow(dr, store.id, edits + 1)
      /\ store.selected \in Present(dr) \cup {None}
  BY BeforeEdit
<1>2. Edit(With(store, d, {}, store.selected)) /\ MayConnect(dr, a, b)
  <2>1. /\ Edit([store EXCEPT !.draft.edge = cs, !.results = {}])
        /\ MayConnect(dr, a, b)
    BY DEF onConnect
  <2> HIDE DEF cs
  <2>2. [store EXCEPT !.draft.edge = cs, !.results = {}]
        = With(store, WithEdges(store.draft, cs), {}, store.selected)
    BY <1>1, Redrawn, Zenon
  <2> QED BY <2>1, <2>2
<1>3. Linear(d) /\ OfWorkflow(d, store.id, edits + 1) /\ Present(d) = Present(dr)
  BY <1>1, <1>2, EdgeDrawn
<1>4. EditedTo(d, {}, store.selected)
  BY <1>1, <1>2, <1>3 DEF EditedTo
<1> QED BY <1>4 DEF SoundEdit

LEMMA EditsAreSound == ASSUME EditorInv, EditStep PROVE SoundEdit
<1>1. ASSUME NEW s \in Slots,
             addNode(s) \/ updateNodeConfig(s) \/ removeNode(s) \/ onNodesChange(s)
      PROVE  SoundEdit
  BY <1>1, NodeAdded, NodeConfigured, NodeRemoved, NodeDeleted
<1>2. ASSUME NEW a \in Slots, NEW b \in Slots, onEdgesChange(<<a, b>>) \/ onConnect(a, b)
      PROVE  SoundEdit
  BY <1>2, EdgeRemoved, EdgeConnected
<1> QED BY <1>1, <1>2, NameEdited DEF EditStep

LEMMA EditKeepsInv == ASSUME EditorInv, SoundEdit PROVE EditorInv'
<1>1. PICK d, r, x : EditedTo(d, r, x)
  BY DEF SoundEdit
<1>2. r \in SUBSET store.results
  BY <1>1 DEF EditedTo
<1> QED BY <1>1, <1>2, Edited DEF EditedTo

LEMMA EditKeepsResultsFit ==
  ASSUME EditorInv, SoundEdit
  PROVE  \A r \in store.results \cap store'.results :
           Fits(r, store.draft) => Fits(r, store'.draft)
<1>1. PICK d, r, x : EditedTo(d, r, x)
  BY DEF SoundEdit
<1>2. store' = With(store, d, r, x)
  BY <1>1 DEF EditedTo, Edit, Effects
<1>3. store'.draft = d /\ store'.results = r
  BY <1>2 DEF With
<1> QED BY <1>1, <1>3 DEF EditedTo

-----------------------------------------------------------------------------
(* What the user does besides.                                             *)

LEMMA NowInv ==
  ASSUME EditorInv
  PROVE  /\ StoreInv(store, server, edits) /\ ServerInv(server) /\ edits \in Nat
         /\ edits <= edits
         /\ \A c \in calls : AskInv(c, server, url, edits) /\ PreviewAskInv(c, store)
BY DEF EditorInv

LEMMA VersionIsThere ==
  ASSUME NEW sv, ServerInv(sv), NEW w \in Workflows, NEW v \in DOMAIN sv[w]
  PROVE  sv[w] # <<>> /\ sv[w] \in Seq(Drawings) /\ v \in Nat
<1>1. sv[w] \in Seq(Drawings)
  BY DEF ServerInv
<1> QED BY <1>1

\* What is saved has the nodes of one version.
LEMMA SavedIs ==
  ASSUME EditorInv, store.id # None
  PROVE  \E k \in DOMAIN server[store.id] :
           /\ store.saved.node = server[store.id][k].node
           /\ \A s \in Present(store.saved) : store.saved.node[s].id = <<s, store.id, k>>
<1> DEFINE d == store.saved  m == store.stray  w == store.id  v == store.version
           q == server[w]
<1>1. /\ ServerInv(server) /\ w \in Workflows /\ q = server[w]
      /\ v \in DOMAIN q /\ ReadAs(d, m, q, v)
  BY NowInv DEF StoreInv
<1> HIDE DEF d, m, w, v, q
<1>2. HasNodesOf(d, w, q)
  BY <1>1, ReadIs
<1> QED BY <1>2 DEF HasNodesOf, d, w, q

LEMMA NodeSelected ==
  ASSUME EditorInv, NEW s, selectNode(s)
  PROVE  EditorInv'
<1> DEFINE st == With(store, store.draft, store.results, s)
<1>1. [store EXCEPT !.selected = s] = st
  BY BeforeEdit, WithSelected, Zenon
<1>2. /\ Effects(st, calls) /\ UNCHANGED <<page, edits, api>>
      /\ s \in Present(store.draft) \cup {None}
  BY <1>1 DEF selectNode
<1>3. Linear(store.draft) /\ OfWorkflow(store.draft, store.id, edits)
  BY NowInv DEF StoreInv
<1>4. StoreInv(st, server, edits)
  BY <1>2, <1>3, NowInv, StoreWith
<1> HIDE DEF st
<1> QED BY <1>2, <1>4, EffectedHere

LEMMA Sent ==
  ASSUME EditorInv, NEW c, Send(c), AskInv(c, server, url, edits), PreviewAskInv(c, store)
  PROVE  EditorInv'
<1>1. /\ Effects(store, calls \cup {c}) /\ UNCHANGED api /\ edits' = edits /\ url' = url
  BY DEF Send, page
<1>2. AddressInv(url', server)
  BY <1>1 DEF EditorInv
<1>3. \A b \in calls \cup {c} : AskInv(b, server, url', edits') /\ PreviewAskInv(b, store)
  BY <1>1, NowInv
<1> QED BY <1>1, <1>2, <1>3, NowInv, Effected

LEMMA CallIs ==
  ASSUME NEW kind, NEW w, NEW body
  PROVE  LET c == Call(kind, w, body) IN
         IsCall(c) /\ c.kind = kind /\ c.wf = w /\ c.body = body /\ c.answer = None
BY DEF Call, IsCall

LEMMA SaveSent == ASSUME EditorInv, handleSave PROVE EditorInv'
<1> DEFINE c == Call("save", store.id, store.draft)
<1>1. Send(c)
  BY DEF handleSave
<1>2. IsCall(c) /\ c.kind = "save" /\ c.wf = store.id /\ c.body = store.draft
      /\ c.answer = None
  BY CallIs
<1> HIDE DEF c
<1>3. /\ store.id \in Workflows \cup {None} /\ Linear(store.draft)
      /\ OfWorkflow(store.draft, store.id, edits)
  BY NowInv DEF StoreInv
<1>4. AskInv(c, server, url, edits)
  BY <1>2, <1>3 DEF AskInv
<1>5. PreviewAskInv(c, store)
  BY <1>2 DEF PreviewAskInv
<1> QED BY <1>1, <1>4, <1>5, Sent

LEMMA ToggleSent == ASSUME EditorInv, handleToggleStatus PROVE EditorInv'
<1>1. PICK b : Send(Call("toggle", store.id, b)) /\ store.id # None
  BY DEF handleToggleStatus
<1> DEFINE c == Call("toggle", store.id, b)
<1>2. IsCall(c) /\ c.kind = "toggle" /\ c.wf = store.id /\ c.answer = None
  BY CallIs
<1> HIDE DEF c
<1>3. store.id \in Workflows /\ server[store.id] # <<>>
  BY <1>1, NowInv, VersionIsThere DEF StoreInv
<1>4. AskInv(c, server, url, edits)
  BY <1>2, <1>3 DEF AskInv
<1>5. PreviewAskInv(c, store)
  BY <1>2 DEF PreviewAskInv
<1> QED BY <1>1, <1>4, <1>5, Sent DEF c

LEMMA TestSent == ASSUME EditorInv, NEW s, handleTest(s) PROVE EditorInv'
<1>1. PICK i : Send(Call("test", store.id,
                         [node |-> store.draft.node[s].id,
                          config |-> store.draft.node[s].config, input |-> i]))
  BY DEF handleTest
<1> DEFINE body == [node |-> store.draft.node[s].id,
                    config |-> store.draft.node[s].config, input |-> i]
           c == Call("test", store.id, body)
<1>2. IsCall(c) /\ c.kind = "test" /\ c.body = body /\ c.answer = None
  BY CallIs
<1>3. body.node = store.draft.node[s].id
  OBVIOUS
<1> HIDE DEF c, body
<1>4. s \in Present(store.draft)
  BY BeforeEdit DEF handleTest
<1>5. IsNodeId(store.draft.node[s].id, edits)
  <2>1. store.draft.node[s] \in Nodes
    BY <1>4, BeforeEdit DEF Present, Drawings
  <2>2. Known(store.draft.node[s].id, store.id, edits)
    BY <1>4, NowInv DEF StoreInv, OfWorkflow
  <2> QED BY <2>1, <2>2 DEF Nodes, Known, IsNodeId
<1>6. AskInv(c, server, url, edits)
  BY <1>2, <1>3, <1>5 DEF AskInv
<1>7. PreviewAskInv(c, store)
  BY <1>2 DEF PreviewAskInv
<1> QED BY <1>1, <1>6, <1>7, Sent DEF c, body

LEMMA PreviewSent == ASSUME EditorInv, loadExecutionPreview PROVE EditorInv'
<1> DEFINE c == Call("preview", store.id, store.selected)
<1>1. /\ Send(c) /\ store.id # None
      /\ Previous(store.draft, store.selected) # None
  BY DEF loadExecutionPreview
<1>2. IsCall(c) /\ c.kind = "preview" /\ c.wf = store.id /\ c.answer = None
  BY CallIs
<1> HIDE DEF c
<1>3. store.id \in Workflows
  BY <1>1, NowInv DEF StoreInv
<1>4. AskInv(c, server, url, edits)
  BY <1>2, <1>3 DEF AskInv
<1>5. PreviewAskInv(c, store)
  BY <1>1, <1>2 DEF PreviewAskInv
<1> QED BY <1>1, <1>4, <1>5, Sent

LEMMA PreviewOpened == ASSUME EditorInv, openPreview PROVE EditorInv'
<1>1. /\ UNCHANGED <<url, store, calls, edits, server, lastRun>>
      /\ preview' = Shows("loading")
  BY DEF openPreview, page, api
<1>2. PreviewInv(preview', store', server')
  BY <1>1 DEF PreviewInv, Shows
<1> QED BY <1>1, <1>2 DEF EditorInv

LEMMA ResetIsFine ==
  ASSUME NEW sv, NEW n \in Nat
  PROVE  StoreInv(resetEditor, sv, n)
<1> DEFINE b == [node |-> [s \in Slots |-> None], edge |-> {}, name |-> 0]
<1>1. Linear(b) /\ Present(b) = {}
  BY DEF Linear, Drawings, Present
<1>2. OfWorkflow(b, None, n)
  BY <1>1 DEF OfWorkflow
<1>3. /\ IsStore(resetEditor) /\ resetEditor.id = None /\ resetEditor.draft = b
      /\ resetEditor.selected = None /\ resetEditor.results = {}
  BY DEF resetEditor, IsStore, Blank
<1> HIDE DEF b
<1> QED BY <1>1, <1>2, <1>3 DEF StoreInv

LEMMA AskedElsewhere ==
  ASSUME NEW c, NEW sv, NEW u, NEW t, NEW n, AskInv(c, sv, u, n), c.kind # "load"
  PROVE  AskInv(c, sv, t, n)
BY DEF AskInv

LEMMA OthersStill ==
  ASSUME EditorInv, NEW u, NEW n \in Nat, edits <= n
  PROVE  \A c \in StillWanted : AskInv(c, server, u, n) /\ PreviewAskInv(c, store)
<1> SUFFICES ASSUME NEW c \in calls, c.kind # "load"
    PROVE AskInv(c, server, u, n) /\ PreviewAskInv(c, store)
  BY DEF StillWanted
<1>1. AskInv(c, server, url, edits) /\ PreviewAskInv(c, store) /\ edits \in Nat
  BY NowInv
<1>2. AskInv(c, server, url, n)
  BY <1>1, AskedStill
<1> QED BY <1>1, <1>2, AskedElsewhere

LEMMA Opened ==
  ASSUME EditorInv, NEW u, url' = u, u # Elsewhere,
         u # NewPage => u \in Workflows /\ server[u] # <<>>,
         NEW cs \in SUBSET StillWanted,
         NEW ds \in SUBSET (IF u = NewPage THEN {} ELSE {Call("load", u, None)}),
         Effects(resetEditor, cs \cup ds), UNCHANGED api,
         edits' \in Nat, edits <= edits'
  PROVE  EditorInv'
<1>1. StoreInv(resetEditor, server, edits')
  BY ResetIsFine
<1>2. AddressInv(url', server)
  BY DEF AddressInv
<1>3. \A c \in cs : AskInv(c, server, url', edits') /\ PreviewAskInv(c, store)
  BY OthersStill
<1>4. \A c \in ds : AskInv(c, server, url', edits') /\ PreviewAskInv(c, store)
  <2> SUFFICES ASSUME NEW c \in ds
      PROVE AskInv(c, server, url', edits') /\ PreviewAskInv(c, store)
    OBVIOUS
  <2>1. u # NewPage /\ c = Call("load", u, None)
    OBVIOUS
  <2>2. IsCall(c) /\ c.kind = "load" /\ c.wf = u /\ c.body = None /\ c.answer = None
    BY <2>1, CallIs
  <2> QED BY <2>1, <2>2 DEF AskInv, PreviewAskInv
<1> QED BY <1>1, <1>2, <1>3, <1>4, Effected

LEMMA WentTo ==
  ASSUME EditorInv, NEW u \in Workflows \cup {NewPage, Elsewhere}, goTo(u)
  PROVE  EditorInv'
<1>1. /\ url' = u /\ edits' = edits /\ UNCHANGED api /\ edits \in Nat /\ edits <= edits
      /\ u \notin {NewPage, Elsewhere} => server[u] # <<>>
  BY NowInv DEF goTo
<1>2. CASE u = Elsewhere
  <2>1. Effects(store, StillWanted)
    BY <1>2 DEF goTo
  <2>2. AddressInv(url', server)
    BY <1>1, <1>2 DEF AddressInv
  <2>3. \A c \in StillWanted : AskInv(c, server, url', edits') /\ PreviewAskInv(c, store)
    BY <1>1, OthersStill
  <2> QED BY <1>1, <2>1, <2>2, <2>3, NowInv, Effected
<1>3. CASE u # Elsewhere
  <2>1. Effects(resetEditor, StillWanted \cup
                  (IF u = NewPage THEN {} ELSE {Call("load", u, None)}))
    BY <1>3 DEF goTo, Open
  <2> QED BY <1>1, <1>3, <2>1, Opened
<1> QED BY <1>2, <1>3

LEMMA LocaleSet == ASSUME EditorInv, setLocale PROVE EditorInv'
<1>1. /\ url' = url /\ edits' = edits + 1 /\ UNCHANGED api /\ url # Elsewhere
      /\ edits \in Nat
      /\ Effects(resetEditor, StillWanted \cup
                   (IF url = NewPage THEN {} ELSE {Call("load", url, None)}))
  BY NowInv DEF setLocale, Open, page
<1>2. edits' \in Nat /\ edits <= edits'
  BY <1>1
<1>3. url # NewPage => url \in Workflows /\ server[url] # <<>>
  BY <1>1 DEF EditorInv, AddressInv
<1> QED BY <1>1, <1>2, <1>3, Opened

LEMMA LogoutSent == ASSUME EditorInv, handleLogout PROVE EditorInv'
<1>1. PICK b : Send(Call("logout", None, b))
  BY DEF handleLogout
<1> DEFINE c == Call("logout", None, b)
<1>2. IsCall(c) /\ c.kind = "logout" /\ c.answer = None
  BY CallIs
<1> HIDE DEF c
<1>3. AskInv(c, server, url, edits) /\ PreviewAskInv(c, store)
  BY <1>2 DEF AskInv, PreviewAskInv
<1> QED BY <1>1, <1>3, Sent DEF c

LEMMA UserStepKeeps == ASSUME EditorInv, UserStep PROVE EditorInv'
<1>1. ASSUME NEW s \in Slots \cup {None}, selectNode(s) \/ handleTest(s) PROVE EditorInv'
  BY <1>1, NodeSelected, TestSent
<1>2. ASSUME NEW u \in Workflows \cup {NewPage, Elsewhere}, goTo(u) PROVE EditorInv'
  BY <1>2, WentTo
<1> QED BY <1>1, <1>2, SaveSent, ToggleSent, PreviewOpened, PreviewSent, LocaleSet,
           LogoutSent
        DEF UserStep

-----------------------------------------------------------------------------
(* What the api does.                                                      *)

LEMMA IdsAssigned ==
  ASSUME NEW d, Linear(d), NEW w \in Workflows, NEW v \in Nat
  PROVE  LET e == assignServerNodeIds(d, w, v) IN
         /\ Linear(e) /\ e \in Drawings
         /\ \A s \in Present(e) : e.node[s].id = <<s, w, v>>
<1> DEFINE f == [s \in Slots |->
                   IF d.node[s] = None THEN None ELSE NewNode(s, w, v, d.node[s].config)]
           e == [d EXCEPT !.node = f]
<1>1. d \in Drawings
  BY DEF Linear
<1>2. \A s \in Slots : d.node[s] # None =>
        /\ NewNode(s, w, v, d.node[s].config) \in Nodes
        /\ NewNode(s, w, v, d.node[s].config).id = <<s, w, v>>
        /\ NewNode(s, w, v, d.node[s].config) # None
  <2> SUFFICES ASSUME NEW s \in Slots, d.node[s] # None
      PROVE /\ NewNode(s, w, v, d.node[s].config) \in Nodes
            /\ NewNode(s, w, v, d.node[s].config).id = <<s, w, v>>
            /\ NewNode(s, w, v, d.node[s].config) # None
    OBVIOUS
  <2>1. d.node[s] \in Nodes
    BY <1>1 DEF Drawings
  <2>2. d.node[s].config \in {0, 1}
    BY <2>1 DEF Nodes
  <2> QED BY <2>2, NewNodeIs
<1>3. \A s \in Slots :
        /\ f[s] = None <=> d.node[s] = None
        /\ f[s] # None => f[s] \in Nodes /\ f[s].id = <<s, w, v>>
  <2> SUFFICES ASSUME NEW s \in Slots
      PROVE /\ f[s] = None <=> d.node[s] = None
            /\ f[s] # None => f[s] \in Nodes /\ f[s].id = <<s, w, v>>
    OBVIOUS
  <2>1. f[s] = IF d.node[s] = None THEN None ELSE NewNode(s, w, v, d.node[s].config)
    OBVIOUS
  <2> HIDE DEF f
  <2> QED BY <1>2, <2>1
<1>4. DOMAIN f = Slots /\ f = [s \in Slots |-> f[s]]
  OBVIOUS
<1> HIDE DEF f
<1>5. f \in [Slots -> Nodes \cup {None}]
  BY <1>3, <1>4
<1>6. /\ e \in Drawings /\ e.edge = d.edge /\ e.node = f
  BY <1>1, <1>5 DEF Drawings
<1>7. e = assignServerNodeIds(d, w, v)
  BY DEF assignServerNodeIds, f
<1> HIDE DEF e
<1>8. \A s \in Present(e) : e.node[s].id = <<s, w, v>>
  BY <1>3, <1>6 DEF Present
<1>9. Linear(e)
  <2>1. \A c \in e.edge : c[1] \in Slots /\ c[2] \in Slots
    BY <1>6 DEF Drawings
  <2>2. \A c \in e.edge : e.node[c[1]] # None /\ e.node[c[2]] # None
    BY <1>3, <1>6, <2>1 DEF Linear
  <2>3. \A s \in Slots : e.node[s] # None => e.node[s].id[1] = s
    BY <1>3, <1>6
  <2> QED BY <1>6, <2>2, <2>3 DEF Linear
<1> QED BY <1>6, <1>7, <1>8, <1>9

LEMMA PutIsMore ==
  ASSUME ServerInv(server), NEW w \in Workflows, NEW d, Linear(d), Put(w, d)
  PROVE  /\ More(server, server')
         /\ server'[w] # <<>> /\ Len(server'[w]) \in DOMAIN server'[w]
         /\ Last(server'[w]) = server'[w][Len(server'[w])]
<1> DEFINE q == server[w]  n == Len(q) + 1  e == assignServerNodeIds(d, w, n)
<1>1. /\ server \in [Workflows -> Seq(Drawings)] /\ q \in Seq(Drawings)
      /\ Len(q) \in Nat /\ n \in Nat
  BY DEF ServerInv
<1>2. /\ Linear(e) /\ e \in Drawings
      /\ \A s \in Present(e) : e.node[s].id = <<s, w, n>>
  BY <1>1, IdsAssigned
<1>3. server' = [server EXCEPT ![w] = Append(q, e)]
  BY DEF Put
<1> HIDE DEF e
<1> DEFINE z == Append(q, e)
<1>4. /\ z \in Seq(Drawings) /\ Len(z) = n /\ DOMAIN q = 1 .. Len(q) /\ DOMAIN z = 1 .. n
      /\ z[n] = e /\ \A v \in DOMAIN q : z[v] = q[v]
  BY <1>1, <1>2
<1>5. /\ server' \in [Workflows -> Seq(Drawings)] /\ server'[w] = z
      /\ \A x \in Workflows \ {w} : server'[x] = server[x]
  BY <1>1, <1>3, <1>4
<1> HIDE DEF z
<1>6. ASSUME NEW x \in Workflows, NEW v \in DOMAIN server'[x]
      PROVE /\ Linear(server'[x][v])
            /\ \A s \in Present(server'[x][v]) : server'[x][v].node[s].id = <<s, x, v>>
  <2>1. CASE x # w \/ v # n
    <3>1. v \in DOMAIN server[x] /\ server'[x][v] = server[x][v]
      BY <1>1, <1>4, <1>5, <1>6, <2>1
    <3> QED BY <3>1 DEF ServerInv
  <2>2. CASE x = w /\ v = n
    BY <1>2, <1>4, <1>5, <2>2
  <2> QED BY <2>1, <2>2
<1>7. ServerInv(server')
  BY <1>5, <1>6 DEF ServerInv
<1>8. \A x \in Workflows : \A v \in DOMAIN server[x] :
        v \in DOMAIN server'[x] /\ server'[x][v] = server[x][v]
  <2>1. \A v \in DOMAIN q : v \in DOMAIN z /\ z[v] = q[v]
    BY <1>1, <1>4
  <2> HIDE DEF q
  <2>2. \A v \in DOMAIN server[w] : v \in DOMAIN server'[w] /\ server'[w][v] = server[w][v]
    BY <1>5, <2>1 DEF q
  <2> QED BY <1>5, <2>2
<1>9. n \in 1 .. n /\ z # <<>>
  BY <1>1, <1>4
<1>10. Last(server'[w]) = server'[w][Len(server'[w])]
  BY DEF Last
<1> QED BY <1>4, <1>5, <1>7, <1>8, <1>9, <1>10 DEF More

LEMMA LastIsVersion ==
  ASSUME ServerInv(server), NEW w \in Workflows, server[w] # <<>>
  PROVE  /\ Len(server[w]) \in DOMAIN server[w]
         /\ Last(server[w]) = server[w][Len(server[w])]
         /\ Linear(Last(server[w])) /\ Ran(Last(server[w]), server)
<1>1. server[w] \in Seq(Drawings)
  BY DEF ServerInv
<1>2. Len(server[w]) \in DOMAIN server[w]
  BY <1>1
<1>3. Last(server[w]) = server[w][Len(server[w])]
  BY DEF Last
<1> QED BY <1>2, <1>3 DEF ServerInv, Ran

\* Nothing happens on the page but that calls are answered.
LEMMA StandsStill ==
  ASSUME EditorInv, UNCHANGED <<url, store, preview, edits>>,
         UNCHANGED server \/ More(server, server'), LastRunInv(lastRun', server'),
         \A c \in calls' : c \in calls \/ (AskInv(c, server', url, edits) /\ PreviewAskInv(c, store))
  PROVE  EditorInv'
<1>1. url' = url /\ store' = store /\ preview' = preview /\ edits' = edits
  OBVIOUS
<1>2. server' = server \/ More(server, server')
  OBVIOUS
<1>3. ServerInv(server')
  BY <1>2, NowInv DEF More
<1>4. AddressInv(url, server')
  BY <1>2, MoreIsThere DEF EditorInv, AddressInv
<1>5. StoreInv(store, server', edits)
  BY <1>2, NowInv, StoreStill
<1>6. PreviewInv(preview, store, server')
  BY <1>2, NowInv, PreviewStill DEF EditorInv
<1>7. \A c \in calls : AskInv(c, server', url, edits) /\ PreviewAskInv(c, store)
  <2> SUFFICES ASSUME NEW c \in calls PROVE AskInv(c, server', url, edits)
    BY NowInv
  <2> QED BY <1>2, NowInv, AskedStill
<1>8. \A c \in calls' : AskInv(c, server', url', edits') /\ PreviewAskInv(c, store')
  BY <1>1, <1>7
<1> QED BY <1>1, <1>3, <1>4, <1>5, <1>6, <1>8, NowInv DEF EditorInv

LEMMA LastRunStill ==
  ASSUME NEW sv, NEW tv, sv = tv \/ More(sv, tv), NEW lr, LastRunInv(lr, sv)
  PROVE  LastRunInv(lr, tv)
BY MoreIsThere DEF LastRunInv

LEMMA AnsweredIs ==
  ASSUME NEW c, IsCall(c), NEW a
  PROVE  LET e == [c EXCEPT !.answer = a] IN
         /\ IsCall(e) /\ e.kind = c.kind /\ e.wf = c.wf /\ e.body = c.body
         /\ e.answer = a
BY DEF IsCall

\* A call with an answer that is right is as good as before.
LEMMA Answered ==
  ASSUME NEW c, NEW sv, NEW u, NEW n, AskInv(c, sv, u, n), NEW st, PreviewAskInv(c, st),
         NEW a,
         c.kind \in {"load", "toggle", "save"} => IsVersion(a, sv),
         c.kind = "preview" /\ a # None => Ran(a.ran, sv)
  PROVE  LET e == [c EXCEPT !.answer = [of |-> a]] IN
         AskInv(e, sv, u, n) /\ PreviewAskInv(e, st)
<1> DEFINE e == [c EXCEPT !.answer = [of |-> a]]
<1>1. IsCall(c)
  BY DEF AskInv
<1>2. /\ IsCall(e) /\ e.kind = c.kind /\ e.wf = c.wf /\ e.body = c.body
      /\ e.answer = [of |-> a]
  BY <1>1, AnsweredIs
<1>3. e.answer.of = a
  BY <1>2
<1> HIDE DEF e
<1>4. AskInv(e, sv, u, n)
  BY <1>2, <1>3 DEF AskInv
<1>5. PreviewAskInv(e, st)
  BY <1>2 DEF PreviewAskInv
<1> QED BY <1>4, <1>5 DEF e

\* A call that was answered rightly, the only one that changed.
LEMMA OneAnswered ==
  ASSUME EditorInv, NEW c \in calls, NEW a, Answer(c, [of |-> a]),
         UNCHANGED <<page, store, preview, edits, server, lastRun>>,
         c.kind \in {"load", "toggle", "save"} => IsVersion(a, server),
         c.kind = "preview" /\ a # None => Ran(a.ran, server)
  PROVE  EditorInv'
<1>1. AskInv(c, server, url, edits) /\ PreviewAskInv(c, store)
  BY NowInv
<1>2. LET e == [c EXCEPT !.answer = [of |-> a]] IN
      AskInv(e, server, url, edits) /\ PreviewAskInv(e, store)
  BY <1>1, Answered
<1>3. \A e \in calls' : e \in calls \/ (AskInv(e, server', url, edits) /\ PreviewAskInv(e, store))
  BY <1>2 DEF Answer
<1>4. LastRunInv(lastRun', server')
  BY DEF EditorInv
<1> QED BY <1>3, <1>4, StandsStill DEF page

LEMMA Finds == ASSUME EditorInv, NEW c \in calls, apiFinds(c) PROVE EditorInv'
<1> DEFINE r == Row(c.wf, status[c.wf])  e == [c EXCEPT !.body = r]
<1>1. /\ c.kind = "load" /\ UNCHANGED <<url, store, preview, edits, server, lastRun>>
      /\ calls' = (calls \ {c}) \cup {e}
  BY DEF apiFinds, page, api
<1>2. AskInv(c, server, url, edits) /\ PreviewAskInv(c, store) /\ ServerInv(server)
  BY NowInv
<1>3. c.wf \in Workflows /\ server[c.wf] # <<>> /\ IsCall(c)
  BY <1>1, <1>2 DEF AskInv
<1>4. r.version \in DOMAIN server[c.wf]
  BY <1>2, <1>3, LastIsVersion DEF Row
<1> HIDE DEF r
<1>5. /\ IsCall(e) /\ e.kind = c.kind /\ e.wf = c.wf /\ e.body = r /\ e.answer = c.answer
  BY <1>3 DEF IsCall
<1> HIDE DEF e
<1>6. AskInv(e, server, url, edits)
  BY <1>1, <1>2, <1>4, <1>5 DEF AskInv
<1>7. PreviewAskInv(e, store)
  BY <1>1, <1>5 DEF PreviewAskInv
<1>8. LastRunInv(lastRun', server')
  BY <1>1 DEF EditorInv
<1> QED BY <1>1, <1>6, <1>7, <1>8, StandsStill

\* The answer for a workflow whose row was read as a version.
LEMMA AnswerIsVersion ==
  ASSUME ServerInv(server), NEW w \in Workflows, NEW row, row.version \in DOMAIN server[w],
         NEW k \in row.version..Len(server[w]), NEW l \in row.version..Len(server[w]), k <= l
  PROVE  IsVersion(toWorkflowDto(w, row, k, l), server)
<1> DEFINE a == toWorkflowDto(w, row, k, l)
<1>1. /\ a.id = w /\ a.version = row.version /\ a.stray = Stray(k, l)
      /\ a.draft = Drawn(server[w], row.version, k, l)
  BY DEF toWorkflowDto
<1> HIDE DEF a
<1>2. ReadAs(a.draft, a.stray, server[w], row.version)
  BY <1>1 DEF ReadAs
<1>3. IsVersion(a, server)
  BY <1>1, <1>2 DEF IsVersion
<1> QED BY <1>3 DEF a

LEMMA Loads == ASSUME EditorInv, NEW c \in calls, apiLoads(c) PROVE EditorInv'
<1>1. /\ c.kind = "load" /\ c.body # None
      /\ UNCHANGED <<page, store, preview, edits, server, lastRun>>
  BY DEF apiLoads, api
<1>2. PICK k \in c.body.version..Len(server[c.wf]), l \in c.body.version..Len(server[c.wf]) :
        k <= l /\ Answer(c, [of |-> toWorkflowDto(c.wf, c.body, k, l)])
  BY DEF apiLoads
<1>3. c.wf \in Workflows /\ c.body.version \in DOMAIN server[c.wf] /\ ServerInv(server)
  BY <1>1, NowInv DEF AskInv
<1>4. IsVersion(toWorkflowDto(c.wf, c.body, k, l), server)
  BY <1>2, <1>3, AnswerIsVersion
<1> QED BY <1>1, <1>2, <1>4, OneAnswered

LEMMA Read == ASSUME EditorInv, NEW c \in calls, apiReads(c) PROVE EditorInv'
<1>1. /\ c.kind \in {"preview", "test", "logout"}
      /\ UNCHANGED <<page, store, preview, edits, server, lastRun>>
  BY DEF apiReads, api
<1>2. PICK a : (c.kind = "preview" => a = lastRun[c.wf]) /\ Answer(c, [of |-> a])
  BY <1>1 DEF apiReads
<1>3. c.kind = "preview" /\ a # None => Ran(a.ran, server)
  <2> SUFFICES ASSUME c.kind = "preview", a # None PROVE Ran(a.ran, server)
    OBVIOUS
  <2>1. c.wf \in Workflows /\ LastRunInv(lastRun, server)
    BY NowInv DEF AskInv, EditorInv
  <2> QED BY <1>2, <2>1 DEF LastRunInv
<1> QED BY <1>1, <1>2, <1>3, OneAnswered

LEMMA SaveServed == ASSUME EditorInv, NEW c \in calls, apiSaves(c) PROVE EditorInv'
<1> DEFINE w == IF c.wf # None THEN c.wf ELSE CHOOSE x \in Workflows : server[x] = <<>>
           a == [id |-> w, version |-> Len(server'[w]), draft |-> Last(server'[w]),
                 stray |-> 0, status |-> status[w]]
<1>1. /\ c.kind = "save" /\ UNCHANGED <<url, store, preview, edits, lastRun>>
      /\ c.wf = None => \E x \in Workflows : server[x] = <<>>
      /\ Put(w, c.body) /\ Answer(c, [of |-> a])
  BY DEF apiSaves, page
<1>2. AskInv(c, server, url, edits) /\ PreviewAskInv(c, store) /\ ServerInv(server)
  BY NowInv
<1>3. w \in Workflows /\ Linear(c.body)
  BY <1>1, <1>2 DEF AskInv
<1>4. a.id = w /\ a.version = Len(server'[w]) /\ a.draft = Last(server'[w]) /\ a.stray = 0
  OBVIOUS
<1> HIDE DEF w, a
<1>5. /\ More(server, server') /\ Len(server'[w]) \in DOMAIN server'[w]
      /\ Last(server'[w]) = server'[w][Len(server'[w])]
  BY <1>1, <1>2, <1>3, PutIsMore
<1>6. IsVersion(a, server')
  <2>1. server'[w] \in Seq(Drawings)
    BY <1>3, <1>5 DEF More, ServerInv
  <2>2. ReadAs(a.draft, 0, server'[w], a.version)
    BY <1>4, <1>5, <2>1, ReadAtOnce
  <2> QED BY <1>3, <1>4, <1>5, <2>2 DEF IsVersion
<1>7. AskInv(c, server', url, edits)
  BY <1>2, <1>5, NowInv, AskedStill
<1>8. LET e == [c EXCEPT !.answer = [of |-> a]] IN
      AskInv(e, server', url, edits) /\ PreviewAskInv(e, store)
  BY <1>1, <1>2, <1>6, <1>7, Answered
<1>9. \A e \in calls' : e \in calls \/ (AskInv(e, server', url, edits) /\ PreviewAskInv(e, store))
  BY <1>1, <1>8 DEF Answer
<1>10. LastRunInv(lastRun', server')
  BY <1>1, <1>5, LastRunStill DEF EditorInv
<1> QED BY <1>1, <1>5, <1>9, <1>10, StandsStill

LEMMA Toggled == ASSUME EditorInv, NEW c \in calls, apiToggles(c) PROVE EditorInv'
<1> DEFINE v == Len(server[c.wf])  row == Row(c.wf, c.body)
           a == toWorkflowDto(c.wf, row, v, v)
<1>1. /\ c.kind = "toggle" /\ UNCHANGED <<page, store, preview, edits, server, lastRun>>
      /\ Answer(c, [of |-> a])
  BY DEF apiToggles
<1>2. c.wf \in Workflows /\ server[c.wf] # <<>> /\ ServerInv(server)
  BY <1>1, NowInv DEF AskInv
<1>3. v \in DOMAIN server[c.wf] /\ server[c.wf] \in Seq(Drawings)
  BY <1>2, LastIsVersion DEF ServerInv
<1>4. row.version = v /\ v \in v..v /\ v <= v
  BY <1>3 DEF Row
<1> HIDE DEF row
<1>5. IsVersion(a, server)
  BY <1>2, <1>3, <1>4, AnswerIsVersion
<1> HIDE DEF a
<1> QED BY <1>1, <1>5, OneAnswered

LEMMA WasRun == ASSUME EditorInv, NEW w \in Workflows, handleRun(w) PROVE EditorInv'
<1>1. /\ UNCHANGED <<url, store, calls, preview, edits, server>> /\ server[w] # <<>>
  BY DEF handleRun, page
<1>2. PICK v : lastRun' = [lastRun EXCEPT ![w] = [version |-> v, ran |-> Last(server[w])]]
  BY DEF handleRun
<1>3. LastRunInv(lastRun, server) /\ ServerInv(server)
  BY DEF EditorInv
<1>4. Ran(Last(server[w]), server)
  BY <1>1, <1>3, LastIsVersion
<1> DEFINE x == [version |-> v, ran |-> Last(server[w])]
<1>5. x.ran = Last(server[w]) /\ lastRun' = [lastRun EXCEPT ![w] = x]
  BY <1>2
<1> HIDE DEF x
<1>6. \A y \in Workflows : lastRun'[y] = IF y = w THEN x ELSE lastRun[y]
  BY <1>3, <1>5 DEF LastRunInv
<1>7. lastRun' = [y \in Workflows |-> lastRun'[y]]
  BY <1>3, <1>5 DEF LastRunInv
<1>8. LastRunInv(lastRun', server')
  BY <1>1, <1>3, <1>4, <1>5, <1>6, <1>7 DEF LastRunInv
<1> QED BY <1>1, <1>8, StandsStill

LEMMA SavedBesides ==
  ASSUME EditorInv, NEW w \in Workflows, otherTabSaves(w) PROVE EditorInv'
<1> DEFINE d == Renamed(Last(server[w]))
<1>1. UNCHANGED <<url, store, calls, preview, edits, lastRun>> /\ server[w] # <<>>
  BY DEF otherTabSaves, page
<1>2. Put(w, d)
  BY DEF otherTabSaves, Renamed
<1>3. ServerInv(server) /\ Linear(Last(server[w]))
  BY <1>1, LastIsVersion DEF EditorInv
<1>4. Linear(d)
  <2>1. Last(server[w]) \in Drawings
    BY <1>3 DEF Linear
  <2>2. d \in Drawings /\ d.edge = Last(server[w]).edge /\ d.node = Last(server[w]).node
    BY <2>1, NameIs
  <2> HIDE DEF d
  <2> QED BY <1>3, <2>2 DEF Linear
<1> HIDE DEF d
<1>5. More(server, server')
  BY <1>2, <1>3, <1>4, PutIsMore
<1>6. LastRunInv(lastRun', server')
  BY <1>1, <1>5, LastRunStill DEF EditorInv
<1> QED BY <1>1, <1>5, <1>6, StandsStill

LEMMA ApiStepKeeps == ASSUME EditorInv, ApiStep PROVE EditorInv'
<1>1. ASSUME NEW c \in calls,
             apiFinds(c) \/ apiLoads(c) \/ apiReads(c) \/ apiSaves(c) \/ apiToggles(c)
      PROVE EditorInv'
  BY <1>1, Finds, Loads, Read, SaveServed, Toggled
<1>2. ASSUME NEW w \in Workflows, handleRun(w) \/ otherTabSaves(w) PROVE EditorInv'
  BY <1>2, WasRun, SavedBesides
<1> QED BY <1>1, <1>2 DEF ApiStep

-----------------------------------------------------------------------------
(* Answers.                                                                *)

LEMMA VersionIsFine ==
  ASSUME NEW sv, ServerInv(sv), NEW dto, IsVersion(dto, sv), NEW n
  PROVE  StoreInv(loadWorkflow(dto), sv, n)
<1> DEFINE st == loadWorkflow(dto)
<1>1. /\ IsStore(st) /\ st.id = dto.id /\ st.version = dto.version
      /\ st.draft = dto.draft /\ st.saved = dto.draft /\ st.selected = None
      /\ st.stray = dto.stray
      /\ st.savedPrint = computeStructuralFingerprint(dto.draft) /\ st.results = {}
  BY DEF loadWorkflow, IsStore
<1> HIDE DEF st
<1>2. /\ dto.id \in Workflows /\ dto.version \in DOMAIN sv[dto.id]
      /\ ReadAs(dto.draft, dto.stray, sv[dto.id], dto.version)
  BY DEF IsVersion
<1>3. PICK k : /\ Linear(dto.draft)
               /\ \A s \in Present(dto.draft) : dto.draft.node[s].id = <<s, dto.id, k>>
  <2> DEFINE d == dto.draft  m == dto.stray  w == dto.id  v == dto.version
             q == sv[w]
  <2>1. w \in Workflows /\ q = sv[w] /\ v \in DOMAIN q /\ ReadAs(d, m, q, v)
    BY <1>2
  <2> HIDE DEF d, m, w, v, q
  <2>2. Linear(d) /\ HasNodesOf(d, w, q)
    BY <2>1, ReadIs
  <2> QED BY <2>2 DEF HasNodesOf, d, w
<1>4. None \notin Workflows
  BY EditorAssumption
<1>5. OfWorkflow(dto.draft, dto.id, n)
  <2> SUFFICES ASSUME NEW s \in Present(dto.draft)
      PROVE Known(dto.draft.node[s].id, dto.id, n)
    BY DEF OfWorkflow
  <2> DEFINE i == <<s, dto.id, k>>
  <2>1. dto.draft.node[s].id = i
    BY <1>3
  <2>2. i[2] = dto.id /\ i[2] # None
    BY <1>2, <1>4
  <2> HIDE DEF i
  <2> QED BY <2>1, <2>2 DEF Known
<1>6. StoreInv(st, sv, n)
  BY <1>1, <1>2, <1>3, <1>5 DEF StoreInv
<1> QED BY <1>6 DEF st

LEMMA LoadArrived ==
  ASSUME EditorInv, NEW c \in calls, loadAnswer(c) \/ toggleAnswer(c) PROVE EditorInv'
<1>1. /\ c.kind \in {"load", "toggle"} /\ c.answer # None
      /\ UNCHANGED <<page, edits, api>>
      /\ Effects(loadWorkflow(c.answer.of), calls \ {c})
  BY DEF loadAnswer, toggleAnswer, Arrives
<1>2. IsVersion(c.answer.of, server)
  BY <1>1, NowInv DEF AskInv
<1>3. StoreInv(loadWorkflow(c.answer.of), server, edits)
  BY <1>2, NowInv, VersionIsFine
<1>4. calls \ {c} \in SUBSET calls
  OBVIOUS
<1> QED BY <1>1, <1>3, <1>4, EffectedHere

LEMMA SaveArrived == ASSUME EditorInv, NEW c \in calls, saveAnswer(c) PROVE EditorInv'
<1> DEFINE dto == c.answer.of
<1>1. c.kind = "save" /\ c.answer # None /\ UNCHANGED <<edits, api>>
  BY DEF saveAnswer, Arrives
<1>2. IsVersion(dto, server)
  BY <1>1, NowInv DEF AskInv
<1>3. StoreInv(loadWorkflow(dto), server, edits)
  BY <1>2, NowInv, VersionIsFine
<1>4. calls \ {c} \in SUBSET calls
  OBVIOUS
<1>5. CASE UNCHANGED page /\ Effects(loadWorkflow(dto), calls \ {c})
  BY <1>1, <1>3, <1>4, <1>5, EffectedHere
<1>6. CASE /\ url' = dto.id /\ UNCHANGED <<habit, mount>>
           /\ Effects(IF url' = url THEN loadWorkflow(dto) ELSE resetEditor,
                      IF url' = url THEN calls \ {c}
                      ELSE (StillWanted \ {c}) \cup {Call("load", dto.id, None)})
  <2>1. CASE url' = url
    <3>1. UNCHANGED page /\ Effects(loadWorkflow(dto), calls \ {c})
      BY <1>6, <2>1 DEF page
    <3> QED BY <1>5, <3>1
  <2>2. CASE url' # url
    <3> DEFINE cs == StillWanted \ {c}  ds == {Call("load", dto.id, None)}
    <3>1. Effects(resetEditor, cs \cup ds)
      BY <1>6, <2>2
    <3>2. dto.id \in Workflows /\ server[dto.id] # <<>>
      BY <1>2, NowInv, VersionIsThere DEF IsVersion
    <3>3. AddressInv(url', server)
      BY <1>6, <3>2 DEF AddressInv
    <3>4. UNCHANGED api /\ edits' = edits /\ edits' \in Nat /\ edits <= edits'
      BY <1>1, NowInv
    <3>5. StoreInv(resetEditor, server, edits')
      BY <3>4, ResetIsFine
    <3>6. \A b \in cs : AskInv(b, server, url', edits') /\ PreviewAskInv(b, store)
      BY <3>4, OthersStill
    <3>7. \A b \in ds : AskInv(b, server, url', edits') /\ PreviewAskInv(b, store)
      <4> DEFINE b == Call("load", dto.id, None)
      <4>1. IsCall(b) /\ b.kind = "load" /\ b.wf = dto.id /\ b.body = None /\ b.answer = None
        BY CallIs
      <4> HIDE DEF b
      <4>2. AskInv(b, server, url', edits') /\ PreviewAskInv(b, store)
        BY <1>6, <3>2, <4>1 DEF AskInv, PreviewAskInv
      <4> QED BY <4>2 DEF b
    <3> HIDE DEF cs, ds
    <3> QED BY <3>1, <3>3, <3>4, <3>5, <3>6, <3>7, Effected
  <2> QED BY <2>1, <2>2
<1> QED BY <1>5, <1>6 DEF saveAnswer

LEMMA TestArrived == ASSUME EditorInv, NEW c \in calls, testAnswer(c) PROVE EditorInv'
<1> DEFINE x == [node |-> c.body.node, config |-> c.body.config, input |-> c.body.input,
                 ok |-> c.answer # None /\ c.answer = [of |-> TRUE]]
           r == {y \in store.results : y.node # c.body.node} \cup {x}
           st == With(store, store.draft, r, store.selected)
<1>1. /\ c.kind = "test" /\ UNCHANGED <<page, edits, api>>
      /\ Effects([store EXCEPT !.results = r], calls \ {c})
  BY DEF testAnswer
<1>2. x.node = c.body.node
  OBVIOUS
<1>3. IsNodeId(x.node, edits)
  BY <1>1, <1>2, NowInv DEF AskInv
<1> HIDE DEF x
<1>4. \A y \in r : y \in store.results \/ IsNodeId(y.node, edits)
  BY <1>3
<1> HIDE DEF r
<1>5. [store EXCEPT !.results = r] = st
  BY BeforeEdit, WithResults, Zenon
<1>6. StoreInv(st, server, edits)
  <2>1. /\ Linear(store.draft) /\ OfWorkflow(store.draft, store.id, edits)
        /\ store.selected \in Present(store.draft) \cup {None}
    BY NowInv DEF StoreInv
  <2> QED BY <1>4, <2>1, NowInv, StoreWith
<1>7. calls \ {c} \in SUBSET calls /\ Effects(st, calls \ {c})
  BY <1>1, <1>5
<1> HIDE DEF st
<1> QED BY <1>1, <1>6, <1>7, EffectedHere

\* Two drawings with a node of the same id in the same place are the same version.
LEMMA SameIdSameVersion ==
  ASSUME ServerInv(server), NEW w \in Workflows, NEW v \in DOMAIN server[w],
         NEW d, Ran(d, server), NEW p \in Present(d),
         d.node[p].id = <<p, w, v>>
  PROVE  d = server[w][v]
<1>1. PICK x \in Workflows : \E y \in DOMAIN server[x] : d = server[x][y]
  BY DEF Ran
<1>2. PICK y \in DOMAIN server[x] : d = server[x][y]
  BY <1>1
<1>3. d.node[p].id = <<p, x, y>>
  BY <1>2 DEF ServerInv
<1>4. x = w /\ y = v
  BY <1>3
<1> QED BY <1>2, <1>4

LEMMA PreviewArrived ==
  ASSUME EditorInv, NEW c \in calls, previewAnswer(c) PROVE EditorInv'
<1> DEFINE run == c.answer.of
           dr == store.draft
           p == Previous(dr, store.selected)
           w == store.id
           v == store.version
<1>1. /\ c.kind = "preview" /\ c.answer # None
      /\ UNCHANGED <<url, store, edits, server, lastRun>> /\ calls' = calls \ {c}
  BY DEF previewAnswer, Arrives, page, api
<1>2. w # None /\ p # None
  BY <1>1, NowInv DEF PreviewAskInv
<1>3. run # None => Ran(run.ran, server)
  BY <1>1, NowInv DEF AskInv
<1>4. /\ w \in Workflows /\ v \in DOMAIN server[w] /\ Linear(dr)
      /\ ReadAs(store.saved, store.stray, server[w], v)
      /\ store.savedPrint = computeStructuralFingerprint(store.saved)
  BY <1>2, NowInv DEF StoreInv
<1>0. PICK k \in DOMAIN server[w] :
        \A s \in Present(store.saved) : store.saved.node[s].id = <<s, w, k>>
  BY <1>2, SavedIs
<1>5. p \in Slots /\ p \in Present(dr)
  BY <1>2, <1>4, PreviousIsPresent
<1>6. ASSUME preview'.show = "execution" PROVE PreviewInv(preview', store, server)
  <2>1. /\ run # None /\ run.version = v
        /\ computeStructuralFingerprint(dr) = store.savedPrint
        /\ \/ /\ p = Trigger
              /\ preview' = [show |-> "execution", step |-> None, version |-> run.version]
           \/ /\ p # Trigger /\ run.ran.node[p] # None
              /\ run.ran.node[p].id = dr.node[p].id
              /\ preview' = [show |-> "execution", step |-> run.ran.node[p],
                             version |-> run.version]
    BY <1>6 DEF previewAnswer, Shows
  <2>2. preview'.version = v
    BY <2>1
  <2>3. ASSUME p # Trigger
        PROVE <<p, w, k>> \in store.savedPrint.ids /\ preview'.step = server[w][k].node[p]
    <3>1. /\ run.ran.node[p] # None /\ run.ran.node[p].id = dr.node[p].id
          /\ preview'.step = run.ran.node[p]
      BY <2>1, <2>3
    <3>2. dr.node[p].id \in store.savedPrint.ids
      BY <1>5, <2>1 DEF computeStructuralFingerprint
    <3>3. PICK s \in Present(store.saved) : dr.node[p].id = store.saved.node[s].id
      BY <1>4, <3>2 DEF computeStructuralFingerprint
    <3>4. dr.node[p].id = <<s, w, k>>
      BY <1>0, <3>3
    <3>5. dr.node[p].id[1] = p
      BY <1>4, <1>5 DEF Linear, Present
    <3>6. dr.node[p].id = <<p, w, k>>
      BY <3>4, <3>5
    <3>7. p \in Present(run.ran) /\ run.ran.node[p].id = <<p, w, k>>
      BY <1>5, <3>1, <3>6 DEF Present
    <3>8. run.ran = server[w][k]
      BY <1>3, <1>4, <2>1, <3>7, NowInv, SameIdSameVersion
    <3> QED BY <3>1, <3>2, <3>6, <3>8
  <2> QED BY <1>2, <2>1, <2>2, <2>3 DEF PreviewInv
<1>7. PreviewInv(preview', store, server)
  BY <1>6 DEF PreviewInv
<1> QED BY <1>1, <1>7 DEF EditorInv

LEMMA Failed == ASSUME EditorInv, NEW c \in calls, callFails(c) PROVE EditorInv'
<1>1. UNCHANGED <<page, edits, api>> /\ Effects(store, calls \ {c})
  BY DEF callFails
<1>2. calls \ {c} \in SUBSET calls
  OBVIOUS
<1> QED BY <1>1, <1>2, NowInv, EffectedHere

LEMMA LoggedOut == ASSUME EditorInv, NEW c \in calls, logoutAnswer(c) PROVE EditorInv'
<1>1. url' = Elsewhere /\ UNCHANGED <<edits, api>> /\ c.kind = "logout"
  BY DEF logoutAnswer, Arrives
<1>2. AddressInv(url', server)
  BY <1>1 DEF AddressInv
<1>3. edits' \in Nat /\ edits <= edits'
  BY <1>1, NowInv
<1>4. CASE url = Elsewhere
  <2>1. Effects(store, calls \ {c}) /\ url' = url
    BY <1>1, <1>4 DEF logoutAnswer
  <2>2. \A b \in calls \ {c} : AskInv(b, server, url', edits') /\ PreviewAskInv(b, store)
    BY <1>1, <2>1, NowInv
  <2> QED BY <1>1, <1>2, <1>3, <2>1, <2>2, NowInv, Effected
<1>5. CASE url # Elsewhere
  <2>1. Effects(store, StillWanted \ {c})
    BY <1>5 DEF logoutAnswer
  <2>2. \A b \in StillWanted \ {c} : AskInv(b, server, url', edits') /\ PreviewAskInv(b, store)
    BY <1>3, OthersStill
  <2> QED BY <1>1, <1>2, <1>3, <2>1, <2>2, NowInv, Effected
<1> QED BY <1>4, <1>5

LEMMA AnswerStepKeeps == ASSUME EditorInv, AnswerStep PROVE EditorInv'
<1>1. PICK c \in calls :
        loadAnswer(c) \/ toggleAnswer(c) \/ saveAnswer(c) \/ testAnswer(c)
          \/ previewAnswer(c) \/ logoutAnswer(c) \/ callFails(c)
  BY DEF AnswerStep
<1> QED BY <1>1, LoadArrived, SaveArrived, TestArrived, PreviewArrived, LoggedOut, Failed

-----------------------------------------------------------------------------
(* The beginning.                                                          *)

LEMMA FirstIsLinear ==
  ASSUME NEW w \in Workflows
  PROVE  /\ Linear(First(w))
         /\ \A s \in Present(First(w)) : First(w).node[s].id = <<s, w, 1>>
<1> DEFINE S == Slots \ {Trigger}
           q == SetToSeq(S)
           z == <<Trigger>> \o q
           f == [s \in Slots |-> NewNode(s, w, 1, 0)]
           d == First(w)
<1>1. IsFiniteSet(S)
  BY EditorAssumption, FS_Subset
<1>2. /\ q \in [1..Cardinality(S) -> S] /\ Cardinality(S) \in Nat
      /\ \A i, j \in DOMAIN q : q[i] = q[j] => i = j
  <2>1. Cardinality(S) \in Nat
    BY <1>1, FS_CardinalityType
  <2>2. \E g : g \in [1..Cardinality(S) -> S] /\ IsInjective(g)
    <3>1. ExistsBijection(1..Cardinality(S), S)
      BY <1>1, FS_NatBijection, FS_CardinalityType
    <3> QED BY <3>1 DEF ExistsBijection, Bijection, Injection, IsInjective
  <2> QED BY <2>1, <2>2 DEF SetToSeq, IsInjective
<1> HIDE DEF q
<1>3. /\ Len(q) = Cardinality(S) /\ DOMAIN q = 1..Cardinality(S)
      /\ q \in Seq(Slots) /\ \A i \in DOMAIN q : q[i] \in Slots /\ q[i] # Trigger
  <2>1. q \in Seq(S)
    <3> DEFINE n == Cardinality(S)
    <3>1. n \in Nat /\ q \in [1..n -> S]
      BY <1>2
    <3> HIDE DEF n, S
    <3>2. q \in UNION {[1..k -> S] : k \in Nat}
      BY <3>1
    <3> QED BY <3>2, SeqDef
  <2>2. DOMAIN q = 1..Cardinality(S) /\ DOMAIN q = 1..Len(q) /\ Len(q) \in Nat
    BY <1>2, <2>1, LenProperties
  <2>3. Len(q) = Cardinality(S)
    BY <1>2, <2>2
  <2>4. q \in Seq(Slots)
    BY <2>1, SeqMonotonic
  <2> QED BY <1>2, <2>2, <2>3, <2>4
<1>4. /\ z \in Seq(Slots) /\ Len(z) = Cardinality(S) + 1 /\ z[1] = Trigger
      /\ \A i \in 2..Len(z) : i - 1 \in DOMAIN q /\ z[i] = q[i - 1]
  <2> DEFINE t == <<Trigger>>
  <2>1. t \in Seq(Slots) /\ Len(t) = 1 /\ t[1] = Trigger
    BY EditorAssumption
  <2> HIDE DEF t
  <2>2. /\ t \o q \in Seq(Slots) /\ Len(t \o q) = Len(t) + Len(q)
        /\ \A i \in 1 .. Len(t) + Len(q) : (t \o q)[i] =
             IF i <= Len(t) THEN t[i] ELSE q[i - Len(t)]
    BY <1>3, <2>1, ConcatProperties
  <2>3. z = t \o q
    BY DEF t
  <2> HIDE DEF z
  <2>4. Len(q) \in Nat
    BY <1>2, <1>3
  <2>5. Len(z) = Len(q) + 1 /\ 1 \in 1 .. 1 + Len(q)
    BY <2>1, <2>2, <2>3, <2>4
  <2>6. \A i \in 2..Len(z) : i - 1 \in DOMAIN q /\ z[i] = q[i - 1]
    <3> SUFFICES ASSUME NEW i \in 2..Len(z) PROVE i - 1 \in DOMAIN q /\ z[i] = q[i - 1]
      OBVIOUS
    <3>1. i \in 1 .. 1 + Len(q) /\ ~ (i <= 1) /\ i - 1 \in 1 .. Len(q)
      BY <2>4, <2>5
    <3> QED BY <1>3, <2>1, <2>2, <2>3, <3>1
  <2>7. z[1] = Trigger
    <3>1. 1 <= Len(t) /\ 1 \in 1 .. Len(t) + Len(q)
      BY <2>1, <2>5
    <3> QED BY <2>1, <2>2, <2>3, <3>1
  <2>8. z \in Seq(Slots) /\ Len(z) = Cardinality(S) + 1
    BY <1>3, <2>2, <2>3, <2>5
  <2> QED BY <2>6, <2>7, <2>8
<1> HIDE DEF z
<1>5. \A i, j \in 1..Len(z) : z[i] = z[j] => i = j
  <2> SUFFICES ASSUME NEW i \in 1..Len(z), NEW j \in 1..Len(z), z[i] = z[j] PROVE i = j
    OBVIOUS
  <2>1. CASE i = 1 /\ j = 1
    BY <2>1
  <2>2. CASE i # 1 /\ j # 1
    <3>1. i \in 2..Len(z) /\ j \in 2..Len(z)
      BY <1>2, <1>4, <2>2
    <3>2. i - 1 = j - 1
      BY <1>2, <1>4, <3>1
    <3> QED BY <3>1, <3>2
  <2>3. CASE i = 1 /\ j # 1
    <3>1. j \in 2..Len(z)
      BY <1>2, <1>4, <2>3
    <3> QED BY <1>3, <1>4, <2>3, <3>1
  <2>4. CASE i # 1 /\ j = 1
    <3>1. i \in 2..Len(z)
      BY <1>2, <1>4, <2>4
    <3> QED BY <1>3, <1>4, <2>4, <3>1
  <2> QED BY <2>1, <2>2, <2>3, <2>4
<1> DEFINE E == {<<z[i], z[i + 1]>> : i \in 1 .. Len(z) - 1}
<1>6. d = [node |-> f, name |-> 0, edge |-> E]
  BY DEF First, z, q
<1> HIDE DEF d
<1>7. \A s \in Slots : f[s] \in Nodes /\ f[s].id = <<s, w, 1>> /\ f[s] # None
  <2> SUFFICES ASSUME NEW s \in Slots
      PROVE f[s] \in Nodes /\ f[s].id = <<s, w, 1>> /\ f[s] # None
    OBVIOUS
  <2>1. f[s] = NewNode(s, w, 1, 0)
    OBVIOUS
  <2>2. 1 \in Nat /\ 0 \in {0, 1} /\ w \in Workflows \cup {None}
    OBVIOUS
  <2> QED BY <2>1, <2>2, NewNodeIs
<1>8. f \in [Slots -> Nodes \cup {None}]
  BY <1>7
<1> HIDE DEF f
<1>9. E \in SUBSET (Slots \X Slots)
  <2> SUFFICES ASSUME NEW i \in 1 .. Len(z) - 1 PROVE <<z[i], z[i + 1]>> \in Slots \X Slots
    OBVIOUS
  <2>1. i \in 1..Len(z) /\ i + 1 \in 1..Len(z)
    BY <1>2, <1>4
  <2>2. z[i] \in Slots /\ z[i + 1] \in Slots
    BY <1>4, <2>1
  <2> QED BY <2>2
<1>10. \A a, b \in E : (a[1] = b[1] \/ a[2] = b[2]) => a = b
  <2> SUFFICES ASSUME NEW i \in 1 .. Len(z) - 1, NEW j \in 1 .. Len(z) - 1,
                      z[i] = z[j] \/ z[i + 1] = z[j + 1]
      PROVE <<z[i], z[i + 1]>> = <<z[j], z[j + 1]>>
    OBVIOUS
  <2>1. /\ i \in 1..Len(z) /\ i + 1 \in 1..Len(z) /\ j \in 1..Len(z) /\ j + 1 \in 1..Len(z)
    BY <1>2, <1>4
  <2>2. i = j
    BY <1>5, <2>1
  <2> QED BY <2>2
<1> HIDE DEF E
<1>11. d.node = f /\ d.edge = E /\ d.name = 0 /\ d \in Drawings
  BY <1>6, <1>8, <1>9 DEF Drawings
<1>12. \A a \in E : a[1] \in Slots /\ a[2] \in Slots
  BY <1>9
<1>13. Linear(d)
  BY <1>7, <1>10, <1>11, <1>12 DEF Linear
<1>14. \A s \in Present(d) : d.node[s].id = <<s, w, 1>>
  BY <1>7, <1>11 DEF Present
<1> QED BY <1>13, <1>14 DEF d

LEMMA InitInv == Init => EditorInv
<1> SUFFICES ASSUME Init PROVE EditorInv
  OBVIOUS
<1>1. /\ url \in Stored \cup {NewPage} /\ store = resetEditor
      /\ calls = IF url = NewPage THEN {} ELSE {Call("load", url, None)}
      /\ preview = Shows("closed") /\ edits = 0
      /\ server = [w \in Workflows |-> IF w \in Stored THEN <<First(w)>> ELSE <<>>]
      /\ lastRun = [w \in Workflows |-> None]
  BY DEF Init
<1>2. Stored \subseteq Workflows
  BY EditorAssumption
<1>3. \A w \in Workflows : Linear(First(w)) /\ First(w) \in Drawings
        /\ \A s \in Present(First(w)) : First(w).node[s].id = <<s, w, 1>>
  BY FirstIsLinear DEF Linear
<1>4. ASSUME NEW w \in Workflows
      PROVE /\ server[w] \in Seq(Drawings)
            /\ w \in Stored => server[w] = <<First(w)>> /\ server[w] # <<>>
            /\ \A v \in DOMAIN server[w] : v = 1 /\ server[w][v] = First(w)
  <2>1. First(w) \in Drawings
    BY <1>3
  <2> DEFINE F == First(w)
  <2>2. server[w] = IF w \in Stored THEN <<F>> ELSE <<>>
    BY <1>1
  <2> HIDE DEF F
  <2>3. /\ <<F>> \in Seq({F}) /\ DOMAIN <<F>> = 1..1 /\ <<F>>[1] = F /\ <<F>> # <<>>
        /\ DOMAIN <<>> = {}
    OBVIOUS
  <2>4. F \in Drawings
    BY <2>1 DEF F
  <2>5. <<F>> \in Seq(Drawings) /\ <<>> \in Seq(Drawings)
    BY <2>4
  <2> QED BY <2>2, <2>3, <2>5 DEF F
<1>5. server = [w \in Workflows |-> server[w]]
  BY <1>1
<1>6. ServerInv(server)
  <2>1. server \in [Workflows -> Seq(Drawings)]
    BY <1>4, <1>5
  <2> QED BY <1>3, <1>4, <2>1 DEF ServerInv
<1>7. LastRunInv(lastRun, server)
  BY <1>1 DEF LastRunInv
<1>8. AddressInv(url, server)
  BY <1>1, <1>2, <1>4 DEF AddressInv
<1>9. StoreInv(store, server, edits) /\ edits \in Nat
  BY <1>1, ResetIsFine
<1>10. PreviewInv(preview, store, server)
  BY <1>1 DEF PreviewInv, Shows
<1>11. \A c \in calls : AskInv(c, server, url, edits) /\ PreviewAskInv(c, store)
  <2> SUFFICES ASSUME NEW c \in calls
      PROVE AskInv(c, server, url, edits) /\ PreviewAskInv(c, store)
    OBVIOUS
  <2>1. url # NewPage /\ c = Call("load", url, None)
    BY <1>1
  <2>2. url \in Workflows /\ server[url] # <<>>
    BY <1>1, <1>2, <1>4, <2>1
  <2>3. IsCall(c) /\ c.kind = "load" /\ c.wf = url /\ c.body = None /\ c.answer = None
    BY <2>1, CallIs
  <2> QED BY <2>2, <2>3 DEF AskInv, PreviewAskInv
<1> QED BY <1>6, <1>7, <1>8, <1>9, <1>10, <1>11 DEF EditorInv

LEMMA NextInv == EditorInv /\ [Next]_vars => EditorInv'
<1> SUFFICES ASSUME EditorInv, [Next]_vars PROVE EditorInv'
  OBVIOUS
<1>1. CASE EditStep
  BY <1>1, EditsAreSound, EditKeepsInv
<1>2. CASE UserStep
  BY <1>2, UserStepKeeps
<1>3. CASE ApiStep
  BY <1>3, ApiStepKeeps
<1>4. CASE AnswerStep
  BY <1>4, AnswerStepKeeps
<1>5. CASE UNCHANGED vars
  BY <1>5 DEF vars, page, api, EditorInv
<1> QED BY <1>1, <1>2, <1>3, <1>4, <1>5 DEF Next

-----------------------------------------------------------------------------
(* What the invariant says.                                                *)

LEMMA InvSaysIt == EditorInv => EditorShowsWhatIs
<1> SUFFICES ASSUME EditorInv PROVE EditorShowsWhatIs
  OBVIOUS
<1>1. ASSUME store.id # None, ~ hasUnsavedWorkflowChanges(store)
      PROVE  ReadAs(store.draft, store.stray, server[store.id], store.version)
  <2>1. store.draft = store.saved
    BY <1>1 DEF hasUnsavedWorkflowChanges
  <2> QED BY <1>1, <2>1, NowInv DEF StoreInv
<1>2. ASSUME NEW c \in calls, c.kind = "save", NEW s \in Present(c.body)
      PROVE  c.body.node[s].id[2] \in {c.wf, None}
  BY <1>2, NowInv DEF AskInv, OfWorkflow, Known
<1>3. CleanMeansSaved
  BY <1>1, <1>2 DEF CleanMeansSaved
<1>4. PreviewIsOfThePreviousStep
  <2> DEFINE p == Previous(store.draft, store.selected)  w == store.id
  <2> SUFFICES ASSUME preview.show = "execution"
      PROVE  /\ p # None
             /\ computeStructuralFingerprint(store.draft) = store.savedPrint
             /\ preview.version = store.version
             /\ p # Trigger => preview.step = store.saved.node[p]
    BY DEF PreviewIsOfThePreviousStep
  <2>1. /\ w # None /\ p # None
        /\ computeStructuralFingerprint(store.draft) = store.savedPrint
        /\ preview.version = store.version
        /\ p # Trigger =>
             \E k \in DOMAIN server[w] : /\ <<p, w, k>> \in store.savedPrint.ids
                                        /\ preview.step = server[w][k].node[p]
    BY DEF EditorInv, PreviewInv
  <2>2. /\ w \in Workflows /\ store.version \in DOMAIN server[w]
        /\ ReadAs(store.saved, store.stray, server[w], store.version)
        /\ store.savedPrint = computeStructuralFingerprint(store.saved)
    BY <2>1, NowInv DEF StoreInv
  <2>3. PICK j \in DOMAIN server[w] :
          /\ store.saved.node = server[w][j].node
          /\ \A s \in Present(store.saved) : store.saved.node[s].id = <<s, w, j>>
    BY <2>1, SavedIs
  <2>4. ASSUME p # Trigger PROVE preview.step = store.saved.node[p]
    <3>1. PICK k \in DOMAIN server[w] : /\ <<p, w, k>> \in store.savedPrint.ids
                                        /\ preview.step = server[w][k].node[p]
      BY <2>1, <2>4
    <3>2. PICK s \in Present(store.saved) : <<p, w, k>> = store.saved.node[s].id
      BY <2>2, <3>1 DEF computeStructuralFingerprint
    <3>3. j = k
      BY <2>3, <3>2
    <3> QED BY <2>3, <3>1, <3>3
  <2> QED BY <2>1, <2>4
<1> QED BY <1>3, <1>4 DEF EditorShowsWhatIs

-----------------------------------------------------------------------------
(* Logout leaves past the guard.                                           *)

\* A logout that did not ask had nothing to ask about, and unless there were
\* edits since, it still has not.
LeaveInv ==
  \A c \in calls : c.kind = "logout" =>
    /\ c.body.edits \in Nat /\ c.body.edits <= edits
    /\ c.body.edits = edits /\ ~ c.body.asked /\ c.body.from # NewPage /\ url # Elsewhere
         => ~ hasUnsavedWorkflowChanges(store)

NoOther ==
  \A c \in calls' : c.kind = "logout" => \E b \in calls : b.kind = "logout" /\ b.body = c.body

Stays == url' = url /\ store'.draft = store.draft /\ store'.saved = store.saved

LEMMA NoneSent ==
  ASSUME NEW st, NEW cs, Effects(st, cs), \A c \in cs : c.kind = "logout" => c \in calls
  PROVE  NoOther /\ store' = st
BY DEF Effects, NoOther

LEMMA CleanAfter ==
  /\ ~ hasUnsavedWorkflowChanges(resetEditor)
  /\ \A dto : ~ hasUnsavedWorkflowChanges(loadWorkflow(dto))
BY DEF hasUnsavedWorkflowChanges, resetEditor, loadWorkflow

LEMMA LeaveStill ==
  ASSUME LeaveInv, NoOther, UNCHANGED edits,
         store'.draft = store'.saved \/ url' = Elsewhere \/ Stays
  PROVE  LeaveInv'
<1> SUFFICES ASSUME NEW c \in calls', c.kind = "logout"
    PROVE /\ c.body.edits \in Nat /\ c.body.edits <= edits'
          /\ /\ c.body.edits = edits' /\ ~ c.body.asked /\ c.body.from # NewPage
             /\ url' # Elsewhere
             => store'.draft = store'.saved
  BY DEF LeaveInv, hasUnsavedWorkflowChanges
<1>1. PICK b \in calls : b.kind = "logout" /\ b.body = c.body
  BY DEF NoOther
<1>2. /\ c.body.edits \in Nat /\ c.body.edits <= edits
      /\ c.body.edits = edits /\ ~ c.body.asked /\ c.body.from # NewPage /\ url # Elsewhere
           => store.draft = store.saved
  BY <1>1 DEF LeaveInv, hasUnsavedWorkflowChanges
<1> QED BY <1>2 DEF Stays

LEMMA LeaveLater ==
  ASSUME edits \in Nat, LeaveInv, NoOther, edits' = edits + 1 PROVE LeaveInv'
<1> SUFFICES ASSUME NEW c \in calls', c.kind = "logout"
    PROVE c.body.edits \in Nat /\ c.body.edits <= edits' /\ c.body.edits # edits'
  BY DEF LeaveInv
<1>1. PICK b \in calls : b.kind = "logout" /\ b.body = c.body
  BY DEF NoOther
<1>2. c.body.edits \in Nat /\ c.body.edits <= edits
  BY <1>1 DEF LeaveInv
<1> QED BY <1>2

LEMMA LeaveEdit == ASSUME EditorInv, LeaveInv, EditStep PROVE LeaveInv'
<1>1. PICK d, r, x : Edit(With(store, d, r, x))
  BY EditsAreSound DEF SoundEdit, EditedTo
<1>2. NoOther /\ edits' = edits + 1
  BY <1>1, NoneSent DEF Edit
<1> QED BY <1>2, NowInv, LeaveLater

LEMMA LeaveSend ==
  ASSUME LeaveInv, NEW k, NEW w, NEW b, k # "logout", Send(Call(k, w, b)) PROVE LeaveInv'
<1> DEFINE c == Call(k, w, b)
<1>1. c.kind # "logout"
  BY DEF Call
<1> HIDE DEF c
<1>2. Effects(store, calls \cup {c}) /\ UNCHANGED edits /\ url' = url
  BY DEF Send, page, c
<1>3. NoOther /\ Stays
  BY <1>1, <1>2, NoneSent DEF Stays
<1> QED BY <1>2, <1>3, LeaveStill

LEMMA LeaveLogout == ASSUME EditorInv, LeaveInv, handleLogout PROVE LeaveInv'
<1> DEFINE a == url \in Workflows /\ hasUnsavedWorkflowChanges(store)
           b == [from |-> url, edits |-> edits, asked |-> a]
           c == Call("logout", None, b)
<1>1. c.kind = "logout" /\ c.body = b
  BY DEF Call
<1>2. /\ b.edits = edits /\ b.from = url
      /\ url \notin {NewPage, Elsewhere} /\ store.draft # store.saved => b.asked
  <2>1. url \notin {NewPage, Elsewhere} => url \in Workflows
    BY DEF EditorInv, AddressInv
  <2> QED BY <2>1 DEF hasUnsavedWorkflowChanges
<1>3. Effects(store, calls \cup {c}) /\ UNCHANGED <<edits, url>>
  BY DEF handleLogout, Send, page
<1> HIDE DEF c, b
<1>4. store' = store /\ calls' \subseteq calls \cup {c} /\ UNCHANGED <<edits, url>>
  BY <1>3 DEF Effects
<1> SUFFICES ASSUME NEW e \in calls', e.kind = "logout"
    PROVE /\ e.body.edits \in Nat /\ e.body.edits <= edits
          /\ /\ e.body.edits = edits /\ ~ e.body.asked /\ e.body.from # NewPage
             /\ url # Elsewhere
             => store.draft = store.saved
  BY <1>4 DEF LeaveInv, hasUnsavedWorkflowChanges
<1>5. CASE e = c
  <2>1. e.body = b
    BY <1>1, <1>5
  <2> QED BY <1>2, <2>1, NowInv
<1>6. CASE e \in calls
  BY <1>6 DEF LeaveInv, hasUnsavedWorkflowChanges
<1> QED BY <1>4, <1>5, <1>6

LEMMA LeaveGo ==
  ASSUME LeaveInv, NEW u \in Workflows \cup {NewPage, Elsewhere}, goTo(u) PROVE LeaveInv'
<1>1. url' = u /\ UNCHANGED edits
  BY DEF goTo
<1>2. CASE u = Elsewhere
  <2>1. NoOther
    BY <1>2, NoneSent DEF goTo, StillWanted
  <2> QED BY <1>1, <1>2, <2>1, LeaveStill
<1>3. CASE u # Elsewhere
  <2> DEFINE n == IF u = NewPage THEN {} ELSE {Call("load", u, None)}
  <2>1. Effects(resetEditor, StillWanted \cup n) /\ \A c \in n : c.kind # "logout"
    BY <1>3 DEF goTo, Open, Call
  <2> HIDE DEF n
  <2>2. NoOther /\ store' = resetEditor
    BY <2>1, NoneSent DEF StillWanted
  <2>3. store'.draft = store'.saved
    BY <2>2, CleanAfter DEF hasUnsavedWorkflowChanges
  <2> QED BY <1>1, <2>2, <2>3, LeaveStill
<1> QED BY <1>2, <1>3

LEMMA LeaveLocale == ASSUME EditorInv, LeaveInv, setLocale PROVE LeaveInv'
<1> DEFINE n == IF url = NewPage THEN {} ELSE {Call("load", url, None)}
<1>1. /\ Effects(resetEditor, StillWanted \cup n) /\ \A c \in n : c.kind # "logout"
      /\ edits' = edits + 1
  BY DEF setLocale, Open, Call
<1> HIDE DEF n
<1>2. NoOther
  BY <1>1, NoneSent DEF StillWanted
<1> QED BY <1>1, <1>2, NowInv, LeaveLater

\* A result, or another node, leaves the drawing.
LEMMA DrawingStays ==
  ASSUME EditorInv, NEW r, NEW x
  PROVE  /\ [store EXCEPT !.results = r].draft = store.draft
         /\ [store EXCEPT !.results = r].saved = store.saved
         /\ [store EXCEPT !.selected = x].draft = store.draft
         /\ [store EXCEPT !.selected = x].saved = store.saved
<1>1. IsStore(store)
  BY NowInv DEF StoreInv
<1> QED BY <1>1 DEF IsStore

LEMMA LeaveUser == ASSUME EditorInv, LeaveInv, UserStep PROVE LeaveInv'
<1>1. ASSUME NEW s \in Slots \cup {None}, selectNode(s) PROVE LeaveInv'
  <2>1. Effects([store EXCEPT !.selected = s], calls) /\ UNCHANGED edits /\ url' = url
    BY <1>1 DEF selectNode, page
  <2>2. NoOther /\ store' = [store EXCEPT !.selected = s]
    BY <2>1, NoneSent
  <2>3. Stays
    BY <2>1, <2>2, DrawingStays DEF Stays
  <2> QED BY <2>1, <2>2, <2>3, LeaveStill
<1>2. ASSUME NEW s, handleTest(s) PROVE LeaveInv'
  BY <1>2, LeaveSend DEF handleTest
<1>3. CASE handleSave \/ handleToggleStatus \/ loadExecutionPreview
  BY <1>3, LeaveSend DEF handleSave, handleToggleStatus, loadExecutionPreview
<1>4. CASE openPreview
  BY <1>4, LeaveStill DEF openPreview, page, NoOther, Stays
<1> QED BY <1>1, <1>2, <1>3, <1>4, LeaveGo, LeaveLocale, LeaveLogout DEF UserStep

LEMMA LeaveAnswered ==
  ASSUME EditorInv, LeaveInv, NEW c \in calls, NEW a, Answer(c, a),
         UNCHANGED <<page, store, edits>>
  PROVE  LeaveInv'
<1> DEFINE e == [c EXCEPT !.answer = a]
<1>1. e.kind = c.kind /\ e.body = c.body
  <2>1. IsCall(c)
    BY NowInv DEF AskInv
  <2> QED BY <2>1 DEF IsCall
<1>2. calls' = (calls \ {c}) \cup {e}
  BY DEF Answer
<1> HIDE DEF e
<1>3. NoOther /\ Stays
  BY <1>1, <1>2 DEF NoOther, Stays, page
<1> QED BY <1>3, LeaveStill

LEMMA LeaveApi == ASSUME EditorInv, LeaveInv, ApiStep PROVE LeaveInv'
<1>1. ASSUME NEW c \in calls, apiFinds(c) PROVE LeaveInv'
  <2> DEFINE e == [c EXCEPT !.body = Row(c.wf, status[c.wf])]
  <2>1. e.kind # "logout"
    <3>1. IsCall(c) /\ c.kind = "load"
      BY <1>1, NowInv DEF AskInv, apiFinds
    <3> QED BY <3>1 DEF IsCall
  <2>2. calls' = (calls \ {c}) \cup {e} /\ UNCHANGED <<page, store, edits>>
    BY <1>1 DEF apiFinds
  <2> HIDE DEF e
  <2>3. NoOther /\ Stays
    BY <2>1, <2>2 DEF NoOther, Stays, page
  <2> QED BY <2>2, <2>3, LeaveStill
<1>2. ASSUME NEW c \in calls, apiLoads(c) PROVE LeaveInv'
  BY <1>2, LeaveAnswered DEF apiLoads
<1>3. ASSUME NEW c \in calls, apiReads(c) PROVE LeaveInv'
  BY <1>3, LeaveAnswered DEF apiReads
<1>4. ASSUME NEW c \in calls, apiSaves(c) PROVE LeaveInv'
  <2>1. PICK a : Answer(c, a)
    BY <1>4 DEF apiSaves
  <2> QED BY <1>4, <2>1, LeaveAnswered DEF apiSaves
<1>5. ASSUME NEW c \in calls, apiToggles(c) PROVE LeaveInv'
  <2>1. PICK a : Answer(c, a)
    BY <1>5 DEF apiToggles
  <2> QED BY <1>5, <2>1, LeaveAnswered DEF apiToggles
<1>6. ASSUME NEW w \in Workflows, handleRun(w) \/ otherTabSaves(w) PROVE LeaveInv'
  <2>1. UNCHANGED <<page, store, calls, edits>>
    BY <1>6 DEF handleRun, otherTabSaves
  <2>2. NoOther /\ Stays
    BY <2>1 DEF NoOther, Stays, page
  <2> QED BY <2>1, <2>2, LeaveStill
<1> QED BY <1>1, <1>2, <1>3, <1>4, <1>5, <1>6 DEF ApiStep

LEMMA LeaveArrives == ASSUME EditorInv, LeaveInv, AnswerStep PROVE LeaveInv'
<1>1. PICK c \in calls :
        loadAnswer(c) \/ toggleAnswer(c) \/ saveAnswer(c) \/ testAnswer(c)
          \/ previewAnswer(c) \/ logoutAnswer(c) \/ callFails(c)
  BY DEF AnswerStep
<1>2. CASE loadAnswer(c) \/ toggleAnswer(c)
  <2>1. Effects(loadWorkflow(c.answer.of), calls \ {c}) /\ UNCHANGED edits
    BY <1>2 DEF loadAnswer, toggleAnswer
  <2>2. NoOther /\ store' = loadWorkflow(c.answer.of)
    BY <2>1, NoneSent
  <2>3. store'.draft = store'.saved
    BY <2>2, CleanAfter DEF hasUnsavedWorkflowChanges
  <2> QED BY <2>1, <2>2, <2>3, LeaveStill
<1>3. CASE saveAnswer(c)
  <2> DEFINE n == Call("load", c.answer.of.id, None)
  <2>1. n.kind # "logout"
    BY DEF Call
  <2> HIDE DEF n
  <2>2. /\ UNCHANGED edits
        /\ \E st \in {loadWorkflow(c.answer.of), resetEditor},
              cs \in {calls \ {c}, (StillWanted \ {c}) \cup {n}} : Effects(st, cs)
    BY <1>3 DEF saveAnswer, n
  <2>3. PICK st \in {loadWorkflow(c.answer.of), resetEditor},
             cs \in {calls \ {c}, (StillWanted \ {c}) \cup {n}} : Effects(st, cs)
    BY <2>2
  <2>4. NoOther /\ store' = st
    BY <2>1, <2>3, NoneSent DEF StillWanted
  <2>5. store'.draft = store'.saved
    BY <2>4, CleanAfter DEF hasUnsavedWorkflowChanges
  <2> QED BY <2>2, <2>4, <2>5, LeaveStill
<1>4. CASE testAnswer(c)
  <2>1. PICK r : Effects([store EXCEPT !.results = r], calls \ {c})
    BY <1>4 DEF testAnswer
  <2>2. NoOther /\ store' = [store EXCEPT !.results = r]
    BY <2>1, NoneSent
  <2>3. UNCHANGED edits /\ url' = url
    BY <1>4 DEF testAnswer, page
  <2>4. Stays
    BY <2>2, <2>3, DrawingStays DEF Stays
  <2> QED BY <2>2, <2>3, <2>4, LeaveStill
<1>5. CASE previewAnswer(c)
  BY <1>5, LeaveStill DEF previewAnswer, page, NoOther, Stays
<1>6. CASE logoutAnswer(c)
  <2>1. /\ url' = Elsewhere /\ UNCHANGED edits
        /\ Effects(store, calls \ {c}) \/ Effects(store, StillWanted \ {c})
    BY <1>6 DEF logoutAnswer
  <2>2. NoOther
    BY <2>1, NoneSent DEF StillWanted
  <2> QED BY <2>1, <2>2, LeaveStill
<1>7. CASE callFails(c)
  <2>1. Effects(store, calls \ {c}) /\ UNCHANGED edits /\ url' = url
    BY <1>7 DEF callFails, page
  <2>2. NoOther /\ Stays
    BY <2>1, NoneSent DEF Stays
  <2> QED BY <2>1, <2>2, LeaveStill
<1> QED BY <1>1, <1>2, <1>3, <1>4, <1>5, <1>6, <1>7

LEMMA LeaveInit == Init => LeaveInv
BY DEF Init, LeaveInv, Call

LEMMA LeaveNext == EditorInv /\ LeaveInv /\ [Next]_vars => LeaveInv'
<1> SUFFICES ASSUME EditorInv, LeaveInv, [Next]_vars PROVE LeaveInv'
  OBVIOUS
<1>1. CASE UNCHANGED vars
  BY <1>1 DEF vars, page, LeaveInv, hasUnsavedWorkflowChanges
<1> QED BY <1>1, LeaveEdit, LeaveUser, LeaveApi, LeaveArrives DEF Next

-----------------------------------------------------------------------------
(* Drafts.                                                                 *)

Replaces ==
  \/ \E c \in calls : toggleAnswer(c) \/ saveAnswer(c)
  \/ \E c \in calls : c.wf = url /\ loadAnswer(c)
  \/ setLocale
  \/ \E u \in Workflows \cup {NewPage, Elsewhere} : goTo(u)
  \/ \E c \in calls :
       /\ logoutAnswer(c)
       /\ c.body.asked \/ c.body.from = NewPage \/ c.body.edits # edits

\* Another draft than by an edit comes with no results, in one of these ways.
DraftKept == store'.draft = store.draft \/ (store'.results = {} /\ Replaces)

LEMMA StoreIs ==
  ASSUME NEW st, NEW cs, Effects(st, cs)
  PROVE  store' = st
BY DEF Effects

LEMMA Emptied ==
  /\ resetEditor.results = {}
  /\ \A dto : loadWorkflow(dto).results = {}
BY DEF resetEditor, loadWorkflow

LEMMA UserKeeps == ASSUME EditorInv, UserStep PROVE DraftKept
<1>1. ASSUME NEW s \in Slots \cup {None}, selectNode(s) PROVE DraftKept
  <2>1. store' = [store EXCEPT !.selected = s]
    BY <1>1, StoreIs DEF selectNode
  <2>2. [store EXCEPT !.selected = s] = With(store, store.draft, store.results, s)
    BY BeforeEdit, WithSelected, Zenon
  <2>3. store' = With(store, store.draft, store.results, s)
    BY <2>1, <2>2
  <2> QED BY <2>3 DEF With, DraftKept
<1>2. ASSUME NEW c, Send(c) PROVE DraftKept
  BY <1>2, StoreIs DEF Send, DraftKept
<1>3. ASSUME NEW s, handleTest(s) PROVE DraftKept
  BY <1>2, <1>3 DEF handleTest
<1>4. CASE handleSave \/ handleToggleStatus \/ loadExecutionPreview \/ handleLogout
  BY <1>2, <1>4 DEF handleSave, handleToggleStatus, loadExecutionPreview, handleLogout
<1>5. CASE openPreview
  BY <1>5 DEF openPreview, DraftKept
<1>6. ASSUME NEW u \in Workflows \cup {NewPage, Elsewhere}, goTo(u) PROVE DraftKept
  <2>1. CASE u = Elsewhere
    BY <1>6, <2>1, StoreIs DEF goTo, DraftKept
  <2>2. CASE u # Elsewhere
    <3>1. store' = resetEditor
      BY <1>6, <2>2, StoreIs DEF goTo, Open
    <3>2. Replaces
      BY <1>6 DEF Replaces
    <3> QED BY <3>1, <3>2, Emptied DEF DraftKept
  <2> QED BY <2>1, <2>2
<1>7. CASE setLocale
  <2>1. store' = resetEditor
    BY <1>7, StoreIs DEF setLocale, Open
  <2> QED BY <1>7, <2>1, Emptied DEF DraftKept, Replaces
<1> QED BY <1>1, <1>3, <1>4, <1>5, <1>6, <1>7 DEF UserStep

LEMMA ApiKeeps == ASSUME ApiStep PROVE DraftKept
BY DEF ApiStep, apiFinds, apiLoads, apiReads, apiSaves, apiToggles, handleRun, otherTabSaves,
       DraftKept

LEMMA AnswerKeeps == ASSUME EditorInv, AnswerStep PROVE DraftKept
<1>1. PICK c \in calls :
        loadAnswer(c) \/ toggleAnswer(c) \/ saveAnswer(c) \/ testAnswer(c)
          \/ previewAnswer(c) \/ logoutAnswer(c) \/ callFails(c)
  BY DEF AnswerStep
<1>2. CASE loadAnswer(c)
  <2>1. store' = loadWorkflow(c.answer.of) /\ c.kind = "load"
    BY <1>2, StoreIs DEF loadAnswer, Arrives
  <2>2. c.wf = url
    BY <2>1, NowInv DEF AskInv
  <2> QED BY <1>2, <2>1, <2>2, Emptied DEF DraftKept, Replaces
<1>3. CASE toggleAnswer(c)
  <2>1. store' = loadWorkflow(c.answer.of)
    BY <1>3, StoreIs DEF toggleAnswer
  <2> QED BY <1>3, <2>1, Emptied DEF DraftKept, Replaces
<1>4. CASE saveAnswer(c)
  <2>1. store' = loadWorkflow(c.answer.of) \/ store' = resetEditor
    BY <1>4, StoreIs DEF saveAnswer
  <2> QED BY <1>4, <2>1, Emptied DEF DraftKept, Replaces
<1>5. CASE testAnswer(c)
  <2>1. PICK r : store' = [store EXCEPT !.results = r]
    BY <1>5, StoreIs DEF testAnswer
  <2>2. [store EXCEPT !.results = r] = With(store, store.draft, r, store.selected)
    BY BeforeEdit, WithResults, Zenon
  <2>3. store' = With(store, store.draft, r, store.selected)
    BY <2>1, <2>2
  <2> QED BY <2>3 DEF With, DraftKept
<1>6. CASE previewAnswer(c)
  BY <1>6 DEF previewAnswer, DraftKept
<1>7. CASE callFails(c)
  BY <1>7, StoreIs DEF callFails, DraftKept
<1>8. CASE logoutAnswer(c)
  BY <1>8, StoreIs DEF logoutAnswer, DraftKept
<1> QED BY <1>1, <1>2, <1>3, <1>4, <1>5, <1>6, <1>7, <1>8

LEMMA OthersKeep ==
  ASSUME EditorInv, [Next]_vars, ~ EditStep
  PROVE  DraftKept
<1>1. CASE UNCHANGED vars
  BY <1>1 DEF vars, DraftKept
<1> QED BY <1>1, UserKeeps, ApiKeeps, AnswerKeeps DEF Next

ResultsFitStill ==
  \A r \in store.results \cap store'.results :
    Fits(r, store.draft) => Fits(r, store'.draft)

VanishSo ==
  /\ hasUnsavedWorkflowChanges(store)
  /\ store'.draft # store.draft \/ (url # Elsewhere /\ url' # url)
  /\ ~ EditStep
  => Replaces

\* The page is left by a move, by what a create answers, or by logout.
LEMMA Leaves ==
  ASSUME EditorInv, LeaveInv, [Next]_vars, ~ EditStep, url # Elsewhere, url' # url,
         hasUnsavedWorkflowChanges(store)
  PROVE  Replaces
<1>1. ~ UNCHANGED vars /\ ~ ApiStep
  BY DEF vars, page, ApiStep, apiFinds, apiLoads, apiReads, apiSaves, apiToggles, handleRun,
         otherTabSaves
<1>2. CASE UserStep
  <2>1. \/ setLocale
        \/ \E u \in Workflows \cup {NewPage, Elsewhere} : goTo(u)
    BY <1>2 DEF UserStep, selectNode, handleTest, handleSave, handleToggleStatus, openPreview,
                loadExecutionPreview, handleLogout, Send, page
  <2> QED BY <2>1 DEF Replaces
<1>3. CASE AnswerStep
  <2>1. PICK c \in calls : saveAnswer(c) \/ logoutAnswer(c)
    BY <1>3 DEF AnswerStep, loadAnswer, toggleAnswer, testAnswer, previewAnswer, callFails, page
  <2>2. CASE logoutAnswer(c)
    <3>1. c.kind = "logout"
      BY <2>2 DEF logoutAnswer, Arrives
    <3>2. c.body.edits # edits \/ c.body.asked \/ c.body.from = NewPage
      BY <3>1 DEF LeaveInv
    <3> QED BY <2>2, <3>2 DEF Replaces
  <2> QED BY <2>1, <2>2 DEF Replaces
<1> QED BY <1>1, <1>2, <1>3 DEF Next

LEMMA StepKeepsItsOwn ==
  ASSUME EditorInv, LeaveInv, [Next]_vars
  PROVE  ResultsFitStill /\ VanishSo
<1>1. CASE EditStep
  BY <1>1, EditsAreSound, EditKeepsResultsFit DEF ResultsFitStill, VanishSo
<1>2. CASE ~ EditStep
  <2>1. DraftKept
    BY <1>2, OthersKeep
  <2> QED BY <1>2, <2>1, Leaves DEF DraftKept, ResultsFitStill, VanishSo
<1> QED BY <1>1, <1>2

-----------------------------------------------------------------------------
(* The theorems.                                                           *)

\* The editor's ids, versions, drawings and calls hang together in every run: a
\* draft is drawn on top of what was read as the version it names, the rows of one
\* version or of several, a load is for the address, an answer has what was read
\* of the server's versions, a save the nodes of its own workflow.
THEOREM EditorInvariance == Spec => []EditorInv
<1>1. Init => EditorInv
  BY InitInv
<1>2. EditorInv /\ [Next]_vars => EditorInv'
  BY NextInv
<1> QED BY <1>1, <1>2, PTL DEF Spec

\* However answers, edits, other tabs and moves between pages interleave: "no
\* unsaved changes" means the version that is named, or what a load read while
\* others saved; a PUT sends what was drawn on the workflow it replaces; and the
\* preview is the output of the step before.
THEOREM EditorIsTrue == Spec => []EditorShowsWhatIs
BY EditorInvariance, InvSaysIt, PTL

\* In every run a logout on its way that has not asked, from a workflow's address
\* and with no edit since, leaves nothing unsaved behind.
THEOREM LogoutLosesNothing == Spec => []LeaveInv
BY EditorInvariance, LeaveInit, LeaveNext, PTL DEF Spec

\* No edit of node, edge or name keeps a test result that has ceased to fit, and
\* nothing but the listed answers, a move that has asked, a change of language and
\* a logout that could not know replaces or leaves a draft with unsaved edits.
THEOREM DraftsStay == Spec => DraftKeepsItsOwn
<1>1. EditorInv /\ LeaveInv /\ [Next]_vars => [ResultsFitStill]_vars /\ [VanishSo]_vars
  BY StepKeepsItsOwn
<1>2. Spec => [][ResultsFitStill]_vars /\ [][VanishSo]_vars
  BY <1>1, EditorInvariance, LogoutLosesNothing, PTL DEF Spec
<1>3. Spec => ResultsKeepFitting
  BY <1>2 DEF ResultsFitStill, ResultsKeepFitting
<1>4. Spec => EditsVanishOnlySo
  BY <1>2 DEF VanishSo, EditsVanishOnlySo, Replaces
<1> QED BY <1>3, <1>4 DEF DraftKeepsItsOwn

-----------------------------------------------------------------------------
(* The web application, of which the editor is a page.                     *)

\* A step of the application is one of the editor, or leaves it as it is.
LEMMA EditorSteps ==
  (WebInit => Init) /\ ([WebNext]_webVars => [Next]_vars)
<1>1. WebInit => Init
  BY DEF WebInit
<1>2. [WebNext]_webVars => [Next]_vars
  BY DEF WebNext, webVars
<1> QED BY <1>1, <1>2

LEMMA EditorRuns == WebSpec => Spec
BY EditorSteps, PTL DEF WebSpec, Spec

\* The two, of the application that the run checks.
THEOREM WebEditorIsTrue == WebSpec => []EditorShowsWhatIs
BY EditorRuns, EditorIsTrue, PTL

THEOREM WebDraftsStay == WebSpec => DraftKeepsItsOwn
BY EditorRuns, DraftsStay, PTL
=============================================================================
