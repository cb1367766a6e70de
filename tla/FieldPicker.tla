----------------------------- MODULE FieldPicker -----------------------------
(***************************************************************************)
(* The list from which the user picks a field of an earlier step.  The api *)
(* takes the fields from the newest of a few successful executions whose   *)
(* chain has the types of the stored one; the editor keeps the answer      *)
(* beside its own draft, which may be another chain than the stored one,   *)
(* and lays the outputs of step tests over it.  All pickers of the         *)
(* application share a cache and the request in flight.                    *)
(*                                                                         *)
(* A shape is a workflow's chain with the types of its steps.  Two shapes  *)
(* differ at the step of the picker: fields of one mean nothing in the     *)
(* other.  The pickers are those of one workflow.  An execution's version  *)
(* is taken for that of its definition: DefinitionSnapshot shows when it   *)
(* is another's.                                                           *)
(***************************************************************************)
EXTENDS Naturals, Sequences, SequencesExt

CONSTANTS
  Pickers,   \* the pickers on the page
  Shapes,    \* chains the workflow can have
  Nothing,   \* no answer
  Recent,    \* how many executions getAvailableFields reads
  MaxEvents  \* bound: what happens, but for answers

ASSUME PickerAssumption == Recent \in Nat \ {0} /\ MaxEvents \in Nat

VARIABLES
  stored,   \* shape of each version of the workflow, the last is stored
  runs,     \* successful executions, each of a version, with fields or none
  draft,    \* the editor's draft: its shape, saved shape, version, tests
  picker,   \* state of each picker
  cache,    \* the answer kept for the workflow
  requests, \* the requests in flight: who waits, and the answer once read
  events    \* history: what has happened so far

pickerVars == <<stored, runs, draft, picker, cache, requests, events>>

Happens == events < MaxEvents /\ events' = events + 1

-----------------------------------------------------------------------------
(* The api.                                                                *)

SameSignature(run) == stored[run.version] = stored[Len(stored)]

\* The newest executions, of them the compatible, of them those with fields.
Latest == {i \in DOMAIN runs : i + Recent > Len(runs)}
Compatible == {i \in Latest : SameSignature(runs[i])}
WithFields == {i \in Compatible : runs[i].fields}

emptyState ==
  CASE runs = <<>> -> "NO_EXECUTIONS"
    [] runs # <<>> /\ Compatible = {} -> "INCOMPATIBLE_EXECUTIONS"
    [] OTHER -> "NO_FIELDS"

\* "at" is history: when it was read.
getAvailableFields ==
  IF WithFields = {}
    THEN [version |-> 0, shape |-> Nothing, empty |-> emptyState, at |-> events]
    ELSE LET i == CHOOSE j \in WithFields : \A k \in WithFields : k <= j IN
           [version |-> runs[i].version, shape |-> stored[runs[i].version],
            empty |-> Nothing, at |-> events]

RunSucceeds(fields) ==
  /\ Happens
  /\ runs' = Append(runs, [version |-> Len(stored), fields |-> fields])
  /\ UNCHANGED <<stored, draft, picker, cache, requests>>

\* A save of another client.
SavedElsewhere(shape) ==
  /\ Happens
  /\ stored' = Append(stored, shape)
  /\ UNCHANGED <<runs, draft, picker, cache, requests>>

-----------------------------------------------------------------------------
(* The editor, see WorkflowEditor.  A test result goes with its step.      *)

Draw(shape) ==
  /\ Happens
  /\ shape # draft.shape
  /\ draft' = [draft EXCEPT !.shape = shape, !.tested = FALSE]
  /\ UNCHANGED <<stored, runs, picker, cache, requests>>

TestSucceeds ==
  /\ Happens
  /\ ~ draft.tested
  /\ draft' = [draft EXCEPT !.tested = TRUE]
  /\ UNCHANGED <<stored, runs, picker, cache, requests>>

\* The nodes have other ids then: the panel and its pickers open anew.
Save ==
  /\ Happens
  /\ stored' = Append(stored, draft.shape)
  /\ draft' = [shape |-> draft.shape, saved |-> draft.shape, version |-> Len(stored) + 1,
               tested |-> FALSE]
  /\ picker' = [p \in Pickers |-> [open |-> FALSE, data |-> cache, loading |-> FALSE,
                                   error |-> FALSE]]
  /\ requests' = [i \in DOMAIN requests |-> [requests[i] EXCEPT !.waiting = {}]]
  /\ UNCHANGED <<runs, cache>>

-----------------------------------------------------------------------------
(* fetchWithDedup and useAvailableFields.                                  *)

Asked(p) == [waiting |-> {p}, read |-> Nothing]

\* Mutation: each caller asks for itself.
fetchWithDedupNot(p) == requests' = Append(requests, Asked(p))

\* Who asks while a request is in flight waits for that one's answer.
fetchWithDedup(p) ==
  requests' = IF requests = <<>> THEN <<Asked(p)>>
              ELSE [requests EXCEPT ![1].waiting = @ \cup {p}]

doFetch(p, force, opened) ==
  LET pk == [picker[p] EXCEPT !.open = opened, !.error = FALSE] IN
    IF ~ force /\ cache # Nothing
      THEN /\ picker' = [picker EXCEPT ![p] = [pk EXCEPT !.data = cache]]
           /\ UNCHANGED <<cache, requests>>
      ELSE /\ picker' = [picker EXCEPT ![p] = [pk EXCEPT !.loading = TRUE]]
           /\ cache' = IF force THEN Nothing ELSE cache
           /\ fetchWithDedup(p)

\* The effect with which a picker begins, also with another language.
Shown(p) ==
  /\ Happens
  /\ ~ picker[p].loading
  /\ doFetch(p, FALSE, picker[p].open)
  /\ UNCHANGED <<stored, runs, draft>>

\* handleToggle, and the retry button.
Toggled(p) ==
  /\ Happens
  /\ ~ picker[p].open \/ picker[p].error
  /\ doFetch(p, TRUE, TRUE)
  /\ UNCHANGED <<stored, runs, draft>>

Closed(p) ==
  /\ Happens
  /\ picker[p].open
  /\ picker' = [picker EXCEPT ![p].open = FALSE]
  /\ UNCHANGED <<stored, runs, draft, cache, requests>>

Read(i) ==
  /\ requests[i].read = Nothing
  /\ requests' = [requests EXCEPT ![i].read = getAvailableFields]
  /\ UNCHANGED <<stored, runs, draft, picker, cache, events>>

\* Those who have gone still keep the answer.
Answered(i) ==
  /\ requests[i].read # Nothing
  /\ cache' = requests[i].read
  /\ picker' = [p \in Pickers |->
       IF p \in requests[i].waiting
         THEN [picker[p] EXCEPT !.data = requests[i].read, !.loading = FALSE]
         ELSE picker[p]]
  /\ requests' = RemoveAt(requests, i)
  /\ UNCHANGED <<stored, runs, draft, events>>

Failed(i) ==
  /\ Happens
  /\ picker' = [p \in Pickers |->
       IF p \in requests[i].waiting
         THEN [picker[p] EXCEPT !.error = TRUE, !.loading = FALSE] ELSE picker[p]]
  /\ requests' = RemoveAt(requests, i)
  /\ UNCHANGED <<stored, runs, draft, cache>>

-----------------------------------------------------------------------------
(* What the open picker offers for the step.                               *)

\* applyTestResultOverlay: of the step before, its test or else its execution.
Offered(p) ==
  IF draft.tested THEN [version |-> 0, shape |-> draft.shape]
  ELSE IF picker[p].data = Nothing THEN [version |-> 0, shape |-> Nothing]
  ELSE [version |-> picker[p].data.version, shape |-> picker[p].data.shape]

\* The warning that stands before the fields.  With a test laid over it the
\* answer keeps the version of its execution.
versionMismatch(p) ==
  /\ picker[p].data # Nothing
  /\ picker[p].data.version \notin {0, draft.version}

\* Mutation: fields are listed whatever has been drawn since the save.
hasUnsavedChangesNot == FALSE

hasUnsavedChanges == draft.shape # draft.saved /\ ~ draft.tested

Lists(p) ==
  /\ picker[p].open /\ ~ picker[p].loading /\ ~ hasUnsavedChanges
  /\ Offered(p).shape # Nothing

-----------------------------------------------------------------------------

PickerInit ==
  /\ \E shape \in Shapes :
       /\ stored = <<shape>>
       /\ draft = [shape |-> shape, saved |-> shape, version |-> 1, tested |-> FALSE]
  /\ runs = <<>>
  /\ picker = [p \in Pickers |-> [open |-> FALSE, data |-> Nothing, loading |-> FALSE,
                                  error |-> FALSE]]
  /\ cache = Nothing
  /\ requests = <<>>
  /\ events = 0

PickerNext ==
  \/ \E fields \in BOOLEAN : RunSucceeds(fields)
  \/ \E shape \in Shapes : SavedElsewhere(shape) \/ Draw(shape)
  \/ TestSucceeds \/ Save
  \/ \E p \in Pickers : Shown(p) \/ Toggled(p) \/ Closed(p)
  \/ \E i \in DOMAIN requests : Read(i) \/ Answered(i) \/ Failed(i)

PickerSpec == PickerInit /\ [][PickerNext]_pickerVars

-----------------------------------------------------------------------------
(* Properties.                                                             *)

\* Fields that are listed without a warning are those of the step before in the
\* chain as it is drawn: whatever was drawn, saved here or elsewhere, cached,
\* asked for again or not answered.
ListedFitTheDraft ==
  \A p \in Pickers :
    Lists(p) /\ ~ versionMismatch(p) => Offered(p).shape = draft.shape

\* What a picker or the cache holds is never replaced by an answer that was read
\* earlier: no more than one request is in flight.
FieldsNeverGoBack ==
  [][\A p \in Pickers :
       picker[p].data # Nothing /\ picker'[p].data # Nothing
         => picker'[p].data.at >= picker[p].data.at]_pickerVars
=============================================================================
