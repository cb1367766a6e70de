--------------------------- MODULE WorkflowEditor ---------------------------
(***************************************************************************)
(* One tab of the browser on the workflow editor, and the api it talks to. *)
(* The editor's store is global: it outlives the page, and the answers of  *)
(* requests the page has sent reach it whatever the user did meanwhile,    *)
(* typed, left, opened another workflow, or switched the language.         *)
(***************************************************************************)
EXTENDS Naturals, Sequences, FiniteSets, SequencesExt

CONSTANTS
  Slots,       \* the nodes a drawing can have
  Trigger,     \* the slot of its trigger; the others are actions
  None,        \* no node, no workflow, no answer yet
  Workflows,   \* workflows of the user, those to be created included
  Stored,      \* those there from the start
  NewPage,     \* the address /workflows/new
  Elsewhere,   \* any page that is not the editor
  MaxVersion,  \* bound: versions of a workflow
  MaxEdits,    \* bound: edits of the user
  MaxCalls,    \* bound: requests in flight
  MaxMounts,   \* bound: how often the page is left
  Habits       \* bound: what one behaviour has its user and others do

\* A node has an id, that of its slot with the save that gave it, and a config.
NodeIds == Slots \X (Workflows \cup {None}) \X Nat
Nodes == [id : NodeIds, config : {0, 1}]

ASSUME EditorAssumption ==
  /\ IsFiniteSet(Slots) /\ Trigger \in Slots
  /\ Stored \subseteq Workflows
  /\ None \notin Slots \cup Workflows \cup Nodes
  /\ {MaxVersion, MaxEdits, MaxCalls, MaxMounts} \subseteq Nat

VARIABLES
  habit,     \* what is done in this behaviour
  url,       \* the address: a workflow's edit page, NewPage or Elsewhere
  mount,     \* number of the page's mount
  store,     \* workflow-editor.store
  calls,     \* requests in flight
  preview,   \* executionData of usePreviewData, "closed" while not shown
  edits,     \* edits so far, and changes of the language
  server,    \* the versions of each workflow
  status,    \* its status
  lastRun    \* its latest successful execution: version and definition run

page == <<habit, url, mount>>
api == <<server, status, lastRun>>
vars == <<page, store, calls, preview, edits, api>>

-----------------------------------------------------------------------------
(* Drawings.                                                               *)

\* The node behind a's outgoing edge; a walk goes on until it ends or has taken
\* as many steps as there are slots.
After(d, a) ==
  IF \E b \in Slots : <<a, b>> \in d.edge
    THEN CHOOSE b \in Slots : <<a, b>> \in d.edge ELSE None

Walk(d, a) ==
  LET at[i \in 0..Cardinality(Slots)] ==
        IF i = 0 THEN a ELSE After(d, at[i - 1])
  IN  at

Downstream(d, a) == {Walk(d, a)[i] : i \in DOMAIN Walk(d, a)} \ {None}

\* The slots of the chain, by their distance from the trigger; none without one.
computeChainOrder(d) ==
  LET at == Walk(d, Trigger)
  IN  [i \in {j \in DOMAIN at : d.node[Trigger] # None /\ at[j] # None} |-> at[i]]

Present(d) == {s \in Slots : d.node[s] # None}

\* validateWorkflow finds no error (see LinearGraph for its rules).
Valid(d) == /\ Trigger \in Present(d) /\ Cardinality(Present(d)) > 1
            /\ Downstream(d, Trigger) = Present(d)

computeStructuralFingerprint(d) ==
  [ids |-> {d.node[s].id : s \in Present(d)}, edge |-> d.edge]

\* The node before s in the chain, None for the trigger and off the chain.
Previous(d, s) ==
  LET chain == computeChainOrder(d)
      behind == {i \in DOMAIN chain \ {0} : chain[i] = s}
  IN  IF behind # {} THEN chain[(CHOOSE i \in behind : TRUE) - 1] ELSE None

\* validateLinearConnection: actions only as targets, one edge in, one out,
\* and no way back.
MayConnect(d, a, b) ==
  /\ a # b /\ {a, b} \subseteq Present(d) /\ b # Trigger
  /\ \A e \in d.edge : e[1] # a /\ e[2] # b
  /\ a \notin Downstream(d, b)

Blank == [node |-> [s \in Slots |-> None], edge |-> {}, name |-> 0]

\* A node made by the client, or by the api for version v of w, has an id that
\* no other node has.
NewNode(s, w, v, config) == [id |-> <<s, w, v>>, config |-> config]

\* A chain through all slots.
First(w) ==
  LET chain == <<Trigger>> \o SetToSeq(Slots \ {Trigger}) IN
    [node |-> [s \in Slots |-> NewNode(s, w, 1, 0)], name |-> 0,
     edge |-> {<<chain[i], chain[i + 1]>> : i \in 1 .. Len(chain) - 1}]

-----------------------------------------------------------------------------
(* The store.                                                              *)

resetEditor ==
  [id |-> None, version |-> 0, status |-> "DRAFT", draft |-> Blank, stray |-> 0,
   saved |-> Blank, savedPrint |-> None, selected |-> None, results |-> {}]

\* A workflow as three SELECTs find it: its row with the name in version v, its
\* nodes in version k and its edges in version l.  Edges of a later version name
\* nodes that are not there: they connect nothing, and stay until the next load.
Drawn(versions, v, k, l) ==
  [versions[k] EXCEPT !.name = versions[v].name,
                      !.edge = IF k = l THEN @ ELSE {}]

Stray(k, l) == IF k = l THEN 0 ELSE l

\* The answer of the api for w whose row was read as row, and what loadWorkflow
\* makes of it.
toWorkflowDto(w, row, k, l) ==
  [id |-> w, version |-> row.version, status |-> row.status,
   draft |-> Drawn(server[w], row.version, k, l), stray |-> Stray(k, l)]

Row(w, st) == [version |-> Len(server[w]), status |-> st]

loadWorkflow(dto) ==
  [id |-> dto.id, version |-> dto.version, status |-> dto.status,
   draft |-> dto.draft, stray |-> dto.stray, saved |-> dto.draft,
   savedPrint |-> computeStructuralFingerprint(dto.draft),
   selected |-> None, results |-> {}]

hasUnsavedWorkflowChanges(st) == st.draft # st.saved

Forget(st, slots) ==
  {r \in st.results : \A s \in slots \cap Present(st.draft) :
                        r.node # st.draft.node[s].id}

ResultOf(st, s) ==
  {r \in st.results : st.draft.node[s] # None /\ r.node = st.draft.node[s].id}

\* The output of the step before s, if it has been tested with success.
previousStepOutput(st, s) ==
  LET p == Previous(st.draft, s) IN
    IF p \in {None, Trigger} THEN {}
                             ELSE {r \in ResultOf(st, p) : r.ok}

-----------------------------------------------------------------------------
(* Every change of the store is followed by the effects of the page: the   *)
(* preview of another node, drawing or version starts afresh, and what it  *)
(* has asked for is dropped.                                               *)

previewContextKey(st) ==
  <<st.id, st.selected, st.version, st.savedPrint, Previous(st.draft, st.selected),
    computeStructuralFingerprint(st.draft), st.stray>>

Shows(what) == [show |-> what, step |-> None, version |-> 0]

Effects(st, cs) ==
  LET same == /\ previewContextKey(st) = previewContextKey(store)
              /\ mount' = mount
      closed == st.selected # store.selected \/ mount' # mount
      polls == same /\ previousStepOutput(st, st.selected)
                         = previousStepOutput(store, store.selected)
  IN  /\ store' = st
      /\ preview' = IF closed \/ preview.show = "closed" THEN Shows("closed")
                    ELSE IF same THEN preview ELSE Shows("loading")
      /\ calls' = {c \in cs : c.kind = "preview" => polls}

\* What this mount of the page waits for: saving, statusUpdating, running.
Pending(kind) == {c \in calls : c.kind = kind /\ c.mount = mount}

Call(kind, w, body) ==
  [kind |-> kind, wf |-> w, mount |-> mount, body |-> body, answer |-> None]

MaySend == Cardinality(calls) < MaxCalls

Does(what) == what \in habit

Edit(st) ==
  /\ Does("edit") /\ url # Elsewhere /\ edits < MaxEdits
  /\ edits' = edits + 1
  /\ UNCHANGED <<page, api>>
  /\ Effects(st, calls)

Canvas == url # Elsewhere /\ Pending("load") = {}

setWorkflowName ==
  Edit([store EXCEPT !.draft.name = 1 - @])

selectNode(s) ==
  /\ Canvas
  /\ store.selected # s
  /\ s \in Present(store.draft) \cup {None}
  /\ UNCHANGED <<page, edits, api>>
  /\ Effects([store EXCEPT !.selected = s], calls)

addNode(s) ==
  /\ Does("draw")
  /\ Canvas
  /\ s \notin Present(store.draft)
  /\ Edit([store EXCEPT !.draft.node[s] = NewNode(s, None, edits, 0),
                        !.selected = s])

\* Mutation: the steps behind the node keep their results.
updateNodeConfigAlone(s) ==
  /\ s # None /\ s = store.selected
  /\ Edit([store EXCEPT !.draft.node[s].config = 1 - @,
                        !.results = Forget(store, {s})])

\* The config or the connection of the selected node.
updateNodeConfig(s) ==
  /\ s # None /\ s = store.selected
  /\ Edit([store EXCEPT !.draft.node[s].config = 1 - @,
                        !.results = Forget(store, Downstream(store.draft, s))])

removeNode(s) ==
  /\ s # None /\ s = store.selected
  /\ Edit([store EXCEPT
             !.results = Forget(store, Downstream(store.draft, s)),
             !.draft.node[s] = None,
             !.draft.edge = {e \in @ : e[1] # s /\ e[2] # s},
             !.selected = None])

\* React Flow's own Backspace removes the node and its edges unasked.
onNodesChange(s) ==
  /\ Does("draw")
  /\ s # None /\ s = store.selected /\ Canvas
  /\ LET own == {e \in store.draft.edge : e[1] = s \/ e[2] = s} IN
       Edit([store EXCEPT
               !.results = IF own = {} THEN @ ELSE {},
               !.draft.node[s] = None,
               !.draft.edge = @ \ own,
               !.selected = None])

onEdgesChange(e) ==
  /\ Does("draw")
  /\ Canvas
  /\ e \in store.draft.edge
  /\ Edit([store EXCEPT !.draft.edge = @ \ {e}, !.results = {}])

onConnect(a, b) ==
  /\ Does("draw")
  /\ Canvas
  /\ MayConnect(store.draft, a, b)
  /\ Edit([store EXCEPT !.draft.edge = @ \cup {<<a, b>>}, !.results = {}])

-----------------------------------------------------------------------------
(* The page sends requests; a control waits for the answer to its own.     *)

Send(c) ==
  /\ Does(c.kind) /\ MaySend
  /\ UNCHANGED <<page, edits, api>>
  /\ Effects(store, calls \cup {c})

\* Mutation: the address names the workflow that is saved.
handleSaveOfAddress ==
  /\ url # Elsewhere
  /\ Pending("save") = {}
  /\ Valid(store.draft) /\ store.stray = 0
  /\ Send(Call("save", IF url = NewPage THEN None ELSE url, store.draft))

\* validateWorkflow refuses an edge that names a node which is not there.
handleSave ==
  /\ url # Elsewhere
  /\ Pending("save") = {}
  /\ Valid(store.draft) /\ store.stray = 0
  /\ Send(Call("save", store.id, store.draft))

handleToggleStatus ==
  /\ url # Elsewhere /\ store.id # None
  /\ Pending("toggle") = {}
  /\ Send(Call("toggle", store.id,
               IF store.status = "ACTIVE" THEN "PAUSED" ELSE "ACTIVE"))

\* The selected action, with the config and the input it has at the click.  That
\* a test is running only its own section knows, and forgets when another node
\* is selected: tests of a node, and of several, may overlap.
handleTest(s) ==
  /\ url # Elsewhere /\ store.id # None
  /\ s # None /\ s = store.selected /\ s # Trigger
  /\ \E typed \in BOOLEAN :
       Send(Call("test", store.id,
                 [node |-> store.draft.node[s].id,
                  config |-> store.draft.node[s].config,
                  input |-> IF typed THEN {} ELSE previousStepOutput(store, s)]))

\* The workflow runs, from this page or a trigger.  startExecution reads the
\* version before the definition (see DefinitionSnapshot).
handleRun(w) ==
  /\ Does("preview")
  /\ server[w] # <<>>
  /\ \E v \in DOMAIN server[w] :
       /\ lastRun' = [lastRun EXCEPT ![w] =
                        [version |-> v, ran |-> Last(server[w])]]
       /\ lastRun'[w] # lastRun[w]
  /\ UNCHANGED <<page, store, calls, preview, edits, server, status>>

\* The preview of a message is opened, and its poll asks now and every 5 s.
openPreview ==
  /\ Does("preview")
  /\ preview.show = "closed"
  /\ Canvas /\ Previous(store.draft, store.selected) # None
  /\ preview' = Shows("loading")
  /\ UNCHANGED <<page, store, calls, edits, api>>

loadExecutionPreview ==
  /\ preview.show # "closed"
  /\ store.id # None /\ Previous(store.draft, store.selected) # None
  /\ previousStepOutput(store, store.selected) = {}
  /\ Pending("preview") = {}
  /\ Send(Call("preview", store.id, store.selected))

-----------------------------------------------------------------------------
(* Moving between pages.  useUnsavedChangesGuard asks before the address   *)
(* of a dirty draft changes: the move is the user's yes, a no is no step.  *)
(* Another language makes other messages, on which the load depends.       *)

\* Mutation: the load of the page before is not cancelled.
StillWantedAll == calls

StillWanted == {c \in calls : c.kind # "load"}

Open(u) ==
  Effects(resetEditor, StillWanted \cup
            (IF u = NewPage THEN {} ELSE {Call("load", u, None)}))

goTo(u) ==
  /\ Does("move") /\ u # url /\ MaySend
  /\ u \notin {NewPage, Elsewhere} => server[u] # <<>>
  /\ url' = u /\ UNCHANGED habit
  /\ IF u = Elsewhere
       THEN /\ mount < MaxMounts /\ mount' = mount + 1
            /\ Effects(store, StillWanted)
       ELSE /\ UNCHANGED mount /\ Open(u)
  /\ UNCHANGED <<edits, api>>

\* The header's buttons: the language, ...
setLocale ==
  /\ Does("move")
  /\ url # Elsewhere /\ MaySend /\ edits < MaxEdits
  /\ edits' = edits + 1
  /\ UNCHANGED <<page, api>>
  /\ Open(url)

\* Mutation: logout never asks.
handleLogoutUnasked ==
  Send(Call("logout", None, [from |-> url, edits |-> edits, asked |-> FALSE]))

\* ... and logout.  It asks at once, on addresses that end in /edit, and when the
\* api has answered it leaves past the guard.
handleLogout ==
  Send(Call("logout", None, [from |-> url, edits |-> edits,
         asked |-> url \in Workflows /\ hasUnsavedWorkflowChanges(store)]))

-----------------------------------------------------------------------------
(* The api answers, or the request or its answer is lost.                  *)

Answer(c, a) == calls' = (calls \ {c}) \cup {[c EXCEPT !.answer = a]}

\* Mutation: nodes keep the ids of the client.
assignServerNodeIdsKept(d, w, v) == d

assignServerNodeIds(d, w, v) ==
  [d EXCEPT !.node = [s \in Slots |->
     IF d.node[s] = None THEN None ELSE NewNode(s, w, v, d.node[s].config)]]

Put(w, d) ==
  /\ Len(server[w]) < MaxVersion
  /\ server' = [server EXCEPT ![w] =
                  Append(@, assignServerNodeIds(d, w, Len(@) + 1))]

\* The first SELECT of findOne; others may save before the next two.
apiFinds(c) ==
  /\ c.kind = "load" /\ c.body = None
  /\ calls' = (calls \ {c}) \cup {[c EXCEPT !.body = Row(c.wf, status[c.wf])]}
  /\ UNCHANGED <<page, store, preview, edits, api>>

apiLoads(c) ==
  /\ c.kind = "load" /\ c.body # None /\ c.answer = None
  /\ \E k, l \in c.body.version..Len(server[c.wf]) :
       k <= l /\ Answer(c, [of |-> toWorkflowDto(c.wf, c.body, k, l)])
  /\ UNCHANGED <<page, store, preview, edits, api>>

apiReads(c) ==
  /\ c.kind \in {"preview", "test", "logout"} /\ c.answer = None
  /\ \E a \in CASE c.kind = "preview" -> {lastRun[c.wf]}
                [] c.kind = "test" -> BOOLEAN
                [] c.kind = "logout" -> {None} :
       Answer(c, [of |-> a])
  /\ UNCHANGED <<page, store, preview, edits, api>>

apiSaves(c) ==
  /\ c.kind = "save" /\ c.answer = None
  /\ LET w == IF c.wf # None THEN c.wf
              ELSE CHOOSE x \in Workflows : server[x] = <<>>
     IN  /\ c.wf = None => \E x \in Workflows : server[x] = <<>>
         /\ Put(w, c.body)
         /\ Answer(c, [of |-> [id |-> w, version |-> Len(server'[w]),
                               draft |-> Last(server'[w]), stray |-> 0,
                               status |-> status[w]]])
  /\ UNCHANGED <<page, store, preview, edits, status, lastRun>>

\* Update and SELECTs are one transaction, and PUTs wait for the row it has
\* locked.
apiToggles(c) ==
  /\ c.kind = "toggle" /\ c.answer = None
  /\ status' = [status EXCEPT ![c.wf] = c.body]
  /\ LET v == Len(server[c.wf]) IN
       Answer(c, [of |-> toWorkflowDto(c.wf, Row(c.wf, c.body), v, v)])
  /\ UNCHANGED <<page, store, preview, edits, server, lastRun>>

\* Another tab saves the workflow: the last PUT wins.
otherTabSaves(w) ==
  /\ Does("share")
  /\ server[w] # <<>>
  /\ Put(w, [Last(server[w]) EXCEPT !.name = 1 - @])
  /\ UNCHANGED <<page, store, calls, preview, edits, status, lastRun>>

\* Toasts and error texts are left out: a call that fails is over, and so is a
\* test whose answer is that the api has no such route.
callFails(c) ==
  /\ UNCHANGED <<page, edits, api>>
  /\ Effects(store, calls \ {c})

-----------------------------------------------------------------------------
(* Answers reach the page.                                                 *)

Arrives(c, kind) == c.kind = kind /\ c.answer # None

loadAnswer(c) ==
  /\ Arrives(c, "load")
  /\ UNCHANGED <<page, edits, api>>
  /\ Effects(loadWorkflow(c.answer.of), calls \ {c})

toggleAnswer(c) ==
  /\ Arrives(c, "toggle")
  /\ UNCHANGED <<page, edits, api>>
  /\ Effects(loadWorkflow(c.answer.of), calls \ {c})

\* Mutation: the answer only tells that the draft is saved.
saveAnswerKeepsDraft(c) ==
  /\ Arrives(c, "save")
  /\ UNCHANGED <<page, edits, api>>
  /\ Effects([store EXCEPT !.id = c.answer.of.id, !.saved = store.draft,
                           !.version = c.answer.of.version], calls \ {c})

\* After a create the page goes to the new workflow's address, wherever the
\* user is by then; a page opened since may still ask.
saveAnswer(c) ==
  /\ Arrives(c, "save")
  /\ LET loaded == loadWorkflow(c.answer.of)
         new == Call("load", c.answer.of.id, None)
     IN  IF c.wf # None
           THEN UNCHANGED page /\ Effects(loaded, calls \ {c})
           ELSE \/ /\ url' = c.answer.of.id /\ UNCHANGED <<habit, mount>>
                   /\ Effects(IF url' = url THEN loaded ELSE resetEditor,
                              IF url' = url THEN calls \ {c}
                              ELSE (StillWanted \ {c}) \cup {new})
                \/ /\ c.mount # mount /\ hasUnsavedWorkflowChanges(store)
                   /\ UNCHANGED page /\ Effects(loaded, calls \ {c})
  /\ UNCHANGED <<edits, api>>

\* The result is filed under the node it was asked for, as it was then; most
\* calls that fail are filed as FAILED.
testAnswer(c) ==
  /\ c.kind = "test"
  /\ UNCHANGED <<page, edits, api>>
  /\ Effects([store EXCEPT !.results =
                {r \in @ : r.node # c.body.node} \cup
                {[node |-> c.body.node, config |-> c.body.config,
                  input |-> c.body.input,
                  ok |-> c.answer # None /\ c.answer = [of |-> TRUE]]}],
             calls \ {c})

previewAnswer(c) ==
  LET run == c.answer.of
      p == Previous(store.draft, store.selected)
  IN
  /\ Arrives(c, "preview")
  /\ preview' =
       IF run = None THEN Shows("no-data")
       ELSE IF run.version # store.version THEN Shows("version-mismatch")
       ELSE IF computeStructuralFingerprint(store.draft) # store.savedPrint
              THEN Shows("structural-change")
       ELSE IF p = Trigger
              THEN [show |-> "execution", step |-> None, version |-> run.version]
       ELSE IF run.ran.node[p] # None /\ run.ran.node[p].id = store.draft.node[p].id
              THEN [show |-> "execution", step |-> run.ran.node[p],
                    version |-> run.version]
       ELSE Shows("no-data")
  /\ calls' = calls \ {c}
  /\ UNCHANGED <<page, store, edits, api>>

logoutAnswer(c) ==
  /\ Arrives(c, "logout")
  /\ url' = Elsewhere /\ UNCHANGED <<habit, edits, api>>
  /\ IF url = Elsewhere
       THEN UNCHANGED mount /\ Effects(store, calls \ {c})
       ELSE /\ mount < MaxMounts /\ mount' = mount + 1
            /\ Effects(store, StillWanted \ {c})

-----------------------------------------------------------------------------

Init ==
  /\ habit \in Habits
  /\ url \in Stored \cup {NewPage} /\ mount = 0
  /\ store = resetEditor
  /\ calls = IF url = NewPage THEN {} ELSE {Call("load", url, None)}
  /\ preview = Shows("closed")
  /\ edits = 0
  /\ server = [w \in Workflows |-> IF w \in Stored THEN <<First(w)>> ELSE <<>>]
  /\ status = [w \in Workflows |-> "DRAFT"]
  /\ lastRun = [w \in Workflows |-> None]

EditStep ==
  \/ setWorkflowName
  \/ \E s \in Slots : addNode(s) \/ updateNodeConfig(s) \/ removeNode(s)
                        \/ onNodesChange(s)
  \/ \E a, b \in Slots : onEdgesChange(<<a, b>>) \/ onConnect(a, b)

UserStep ==
  \/ \E s \in Slots \cup {None} : selectNode(s) \/ handleTest(s)
  \/ handleSave \/ handleToggleStatus
  \/ openPreview \/ loadExecutionPreview
  \/ \E u \in Workflows \cup {NewPage, Elsewhere} : goTo(u)
  \/ setLocale \/ handleLogout

ApiStep ==
  \/ \E c \in calls : apiFinds(c) \/ apiLoads(c) \/ apiReads(c) \/ apiSaves(c) \/ apiToggles(c)
  \/ \E w \in Workflows : handleRun(w) \/ otherTabSaves(w)

AnswerStep ==
  \E c \in calls :
    loadAnswer(c) \/ toggleAnswer(c) \/ saveAnswer(c) \/ testAnswer(c)
      \/ previewAnswer(c) \/ logoutAnswer(c) \/ callFails(c)

Next == EditStep \/ UserStep \/ ApiStep \/ AnswerStep

Spec == Init /\ [][Next]_vars

-----------------------------------------------------------------------------
(* Properties.                                                             *)

\* What was read as version v while others saved.
ReadAs(d, stray, versions, v) ==
  \E k, l \in v..Len(versions) :
    k <= l /\ stray = Stray(k, l) /\ d = Drawn(versions, v, k, l)

\* "No unsaved changes" in the toolbar means that the draft is, to the last id,
\* the version of the workflow that the toolbar names; or, if others saved while
\* it was being loaded (workflow.service.ts:352-372), a newer one under the older
\* number and name, with its edges or, cut off by another save, without them.  The
\* newest number is never shown with another drawing.  And what a PUT sends was
\* drawn on top of a version of the very workflow it replaces, although answers
\* of another workflow can arrive under this one's address.
CleanMeansSaved ==
  /\ (store.id # None /\ ~ hasUnsavedWorkflowChanges(store)) =>
       ReadAs(store.draft, store.stray, server[store.id], store.version)
  /\ \A c \in calls : c.kind = "save" =>
       \A s \in Present(c.body) : c.body.node[s].id[2] \in {c.wf, None}

\* clearTestResultsForNodeAndDownstream and its callers: a result that was got
\* with the node's config, from an output got with the config of the step
\* before it, still is after any later edit, or it is gone.  (A result whose
\* answer comes after the edit may be wrong from the start: StepTestSection
\* files it unseen.)
Fits(r, d) ==
  \A s \in Present(d) : d.node[s].id = r.node =>
    /\ d.node[s].config = r.config
    /\ \A i \in r.input : LET p == Previous(d, s) IN
         p # None /\ d.node[p].id = i.node /\ d.node[p].config = i.config

ResultsKeepFitting ==
  [][\A r \in store.results \cap store'.results :
       Fits(r, store.draft) => Fits(r, store'.draft)]_vars

\* usePreviewData: what is shown as the input of the selected step from the last
\* execution was put out by the step before it as it was loaded, in the loaded
\* drawing, although the number an execution carries can be older than the
\* definition it ran, and the number of the draft older than the draft.
PreviewIsOfThePreviousStep ==
  preview.show = "execution" =>
    LET p == Previous(store.draft, store.selected) IN
      /\ p # None
      /\ computeStructuralFingerprint(store.draft) = store.savedPrint
      /\ preview.version = store.version
      /\ p # Trigger => preview.step = store.saved.node[p]

\* What the editor says of its draft, saved or fed from an execution, is true.
EditorShowsWhatIs == CleanMeansSaved /\ PreviewIsOfThePreviousStep

\* backlog.md:1633-1635: unsaved edits must not get lost, and leaving the page
\* asks.  Without a question they are lost by the answers of the page's own save
\* and toggle, by a change of the language, by the load if they were made while
\* this address was loading, and by logout (AppHeader.tsx:50) if it was clicked
\* on /workflows/new or they were made since; by nothing else.  The answer of a
\* load for another address never does it.
EditsVanishOnlySo ==
  [][/\ hasUnsavedWorkflowChanges(store)
     /\ store'.draft # store.draft \/ (url # Elsewhere /\ url' # url)
     /\ ~ EditStep
     => \/ \E c \in calls : toggleAnswer(c) \/ saveAnswer(c)
        \/ \E c \in calls : c.wf = url /\ loadAnswer(c)
        \/ setLocale
        \/ \E u \in Workflows \cup {NewPage, Elsewhere} : goTo(u)
        \/ \E c \in calls :
             /\ logoutAnswer(c)
             /\ c.body.asked \/ c.body.from = NewPage \/ c.body.edits # edits]_vars

\* A draft and the results of its tests change in the listed ways only.
DraftKeepsItsOwn == ResultsKeepFitting /\ EditsVanishOnlySo
=============================================================================
