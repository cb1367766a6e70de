# Verification of mini-zapier

mini-zapier runs linear workflows: one trigger (webhook, inbound e-mail or
cron) followed by a chain of actions (HTTP, e-mail, Telegram, SQL, data
transform). This directory holds TLA+ modules translated from its source, the
configurations TLC checks them with, and proofs checked by TLAPS. Paths below
are relative to the repository unless they name a file of this directory.

To repeat a check: `tlc -config <name>.cfg <MC module>` for a run,
`tlapm <module>.tla` for a proof. `PROJECT.json` lists for every run its module
and configuration, and for every definition the source lines it translates.

## 1. The system

Three processes share two stores; the web application is a fourth, which sees
them only through answers that come late.

```
 browser ──HTTP──> api ──rows──> PostgreSQL <──rows── worker ──> outside world
 senders ──HTTP──>  │                                   ^
                    └──jobs, schedulers──> Redis ──jobs─┘
                              (BullMQ)  ──cron jobs──> api
```

| component | state it keeps | operations | talks to |
|---|---|---|---|
| execution intake (`execution.service.ts`) | `TriggerEvent`, `WorkflowExecution` rows | startExecution, retryExecution, cleanupFailedEnqueue | queue, PostgreSQL |
| workflow-execution queue (`queue.service.ts`, `workflow-execution.processor.ts`) | BullMQ jobs | add, remove, take, acknowledge, recover a stalled job | intake, engine |
| execution engine (`execution-engine.ts`, `log.service.ts`) | execution status, `ExecutionStepLog` rows, the data passed along the chain | execute, retries, timeouts, step logs, markExecutionFailed | actions, PostgreSQL |
| chain resolver and graph validation (`chain-resolver.ts`, `workflow.validation.ts`, `available-fields.util.ts`, the editor's store) | none | resolve, validateLinearWorkflowGraph, resolveChainPositions | engine, workflow service |
| auto-pause (part of the engine) | `Workflow.status` | count the latest five, pause | PostgreSQL |
| trigger controller, trigger service, cron strategy | job schedulers in Redis | handlers of the owner's changes, reconciliation at start, handleCronJob | intake, workflow service |
| workflow service | `Workflow`, nodes, edges, version | create, update, updateStatus, remove | triggers, PostgreSQL |
| connection service | `Connection` rows | create, update, remove, catalogue | PostgreSQL |
| step test (`queue.service.ts`, `step-test.processor.ts`, `step-test-engine.ts`) | a second queue | run one action and wait for its answer | worker, outside world |
| connection test and SQL previews (`connection-test.service.ts`, `introspection.service.ts`) | a session with a foreign database | testConnection, previewQuery, testMutation, tables and columns | outside world |
| action strategies, template interpolation | none | execute | outside world |
| server utilities | none | truncate, redact, field tree, encrypt | all |
| authentication | `User` rows, a signed cookie | register, login, me | PostgreSQL |
| editor (`workflow-editor.store.ts`, `WorkflowEditorPage.tsx`, `StepTestSection.tsx`) | the draft, step-test results, snapshot of what was saved | drawing, configuring, saving, activating, testing a step | api |
| previews and pickers (`usePreviewData.ts`, `FieldPicker.tsx`, `templated-input/`) | a preview, a cache of fields, an editable element | choose a field, show its value | api, editor |
| database form (`DbQueryConfig.tsx`) | a query builder, tables and columns, a trial's rows | build or write a query, try it | api, editor |
| execution history (`ExecutionHistoryPage.tsx`, `GlobalExecutionHistoryPage.tsx`) | one page of a list, one execution | filter, select, poll, retry | api |
| connections (`ConnectionsPage.tsx`, `ConnectionPicker.tsx`) | one page of the catalogue, dialogs | search, page, create, edit, delete, choose | api |
| dashboard (`dashboard.store.ts`, `DashboardPage.tsx`) | the last summary, a count of requests; filters, a dialog, one slot for the action that is out | run, toggle, delete, filter | api |
| statistics, health, shared types, bootstrap, deployment | none of interest | | |

What is hard in it:

- **Steps that are not one transaction.** Accepting an event is a transaction,
  an enqueue and an update; a failure in the middle is compensated, and the
  compensation runs while the worker may already have the job.
- **At-least-once delivery.** A job whose worker died is delivered again and
  the engine runs the whole chain again, whatever the rows say.
- **Two stores without a common transaction.** Whether a workflow is ACTIVE is
  in PostgreSQL, its scheduler is in Redis.
- **Timeouts without cancellation.** A timed-out action goes on; its retry runs
  beside it. A step test that has timed out keeps the one slot of its queue.
- **Reads before writes.** Handlers decide by what they read before the
  transaction: auto-pause, registration of schedulers, retry, deletion of
  connections, copying a definition.
- **Others' transactions.** A trial of SQL runs in a transaction that is rolled
  back, on a server that may answer late or never, in a process that may die.
- **Answers in any order.** Every page has requests in flight while its user
  goes on; an answer belongs to what was chosen when it was asked for.
- **Programs written twice.** Which graphs are chains is decided in the editor,
  in the api and in the worker by different code; so are which value a field
  reference names, and what an execution's output looks like once redacted.

What makes each component correct, in a sentence: the intake never has two
executions of a key and never loses one it acknowledged; the engine marks
SUCCESS only what ran whole, feeds each step what the one before returned, and
never takes a late answer for a current one; auto-pause pauses exactly after
rows of failures; schedulers follow the status or the difference is explained;
a stored definition can be run, and is run as it was at one moment; a trial
leaves nothing behind; a page shows what was chosen on it, and a draft is lost
only where the user was asked or in the ways the properties list.

`PROJECT.json` lists the hazards one by one at their lines, with the properties
that answer them.

## 2. The modules

| module | kind | models |
|---|---|---|
| `ExecutionIntake` | component | intake, workflow-execution queue, the worker as its other parties see it |
| `IdempotentIntake` | abstract | what the intake promises to senders: a registry of keys |
| `ExecutionEngine` | component | one execution in the worker, with every await a step |
| `ChainRun` | abstract | what running a chain means |
| `AutoPause` | component | markExecutionFailed over the executions of a workflow |
| `CronSync` | component | the owner's requests, the scheduler, the starting api, the occurrences |
| `LinearGraph` | component | the validators and walks of a workflow's graph |
| `DefinitionSnapshot` | component | the copy of a definition, PUTs and deletions of connections |
| `StepTest` | component | step tests, SQL previews, connection tests |
| `WorkflowEditor` | component | the editor's store and page, its previews, its api |
| `ExecutionPages` | component | the two execution lists and the detail of one execution |
| `ConnectionPages` | component | the connections page and the editor's picker |
| `Dashboard` | component | the dashboard's store and page |
| `FieldData` | component | redaction, field trees, references and their values |
| `Truncation` | component | the cut of what is stored of a payload |
| `TemplatedInput` | component | the text field with chips |
| `DbQueryForm` | component | the form of a database step |
| `FieldPicker` | component | the pickers of fields, their cache, getAvailableFields |
| `MC*` | instances | values for TLC |
| `*Proofs` | proofs | section 5 |

The modules meet at named steps. `ExecutionIntake` sees the engine as Find,
Start, Run and Complete, which `ExecutionEngine` refines into its awaits.
`CronSync`'s Create and Enqueue are the two halves of `ExecutionIntake`'s
startExecution with a key.
`AutoPause` expands the failure of `ExecutionEngine` into the transaction it is,
over many executions. `LinearGraph` says which graphs the `linear` flag of
`ExecutionEngine` can be false for, `DefinitionSnapshot` says why it can be
false at all, and why the version of an execution is not always that of the
definition it ran, which `WorkflowEditor` takes over for its previews.
`StepTest` has the answers that `WorkflowEditor` files under a step.
`ExecutionPages` reads the rows that `ExecutionEngine` writes, in the order in
which it writes them.

`MCWorkflow`, `MCData` and `MCWeb` hold several components that share no state.
A variable (`subject`, `tab`) says which of them a behaviour is about; the
others keep one initial state. Their properties are checked together, and a
counterexample of one is a counterexample of that component alone.

Each module contains, above the action concerned, operators marked "Mutation":
the slip of a plausible bug. The specification uses none; each property is
known to fail when one of them takes the place of the definition it mutates.

### ExecutionIntake

A call is one invocation of startExecution (`Posts`) or retryExecution
(`Retries`). A call creates at most one execution and one job, so rows and jobs
are functions of calls.

| variable | code |
|---|---|
| `workflow` | `Workflow.status`, or deleted |
| `pc`, `answer` | where the handler is; what its caller is told: created (202), duplicate (200), rejected (4xx), error (5xx), lost (the api died) |
| `execution`, `event` | rows of WorkflowExecution and TriggerEvent |
| `job`, `stalls` | the BullMQ job and its stalled counter |
| `worker`, `stage`, `runs` | the one worker slot, how far it is, how often each chain was run |

Actions follow the code: Receive/Reject (checks before the transaction),
Create/Duplicate/CreateFails (the transaction), Enqueue and EnqueueFails (which
may fail with the job in the queue: a lost reply), MarkProcessed (the second
update, with queueJobId), RemoveJob/RemoveJobFails (the catch block, which throws
when a worker holds the job), Cleanup. Take, Find, Start, Run, Complete are the
worker; WorkerCrash, RecoverStalled and ApiCrash the failures; ChangeStatus and
DeleteWorkflow the owner. The worker's last write may be applied and its reply lost:
the catch block then makes a SUCCESS FAILED.

### ExecutionEngine

One execution, up to `1 + MaxStalledCount` deliveries, a chain of `N` steps.
`pc` names the await that execute() is at. An attempt is named by its delivery,
step and number and its result is represented by that name, so a row shows where
its data came from. `inflight` holds the promises still pending, of timed-out attempts too; `performed` the attempts that took effect outside. Every write to
the database may fail, before it is applied or after (its reply is lost), and the code's
handling of each failure is an action of its own (OpenLogFails, StoreFails,
StepFailedFails, GiveUpFails, SucceedFails). StoreFails needs no fault: markStepSuccess
refuses an output with an undefined inside, which a data transformation makes of a
reference that is missing (`normalizeJsonValue`), and the step is FAILED with retries left.

### AutoPause

Executions are numbered by createdAt. Create and Enqueue are the api's, in any order
between calls; Withdraw is the clean-up of startExecution and retryExecution, which
deletes the row whatever its status and may leave the job. Take makes any row RUNNING
that is there, one a delivery before has ended too. Succeed and CommitFailure may be
applied with the reply lost. The failure transaction is three steps at READ COMMITTED:
Fail (the update of its own row, which others do not see), Count (the read of the latest
`Threshold`) and CommitFailure (with the guarded update of the workflow); RollBack is its
failure, after which the outer catch block of execute() tries once more (`outer`). Crash
is the worker's death, with one redelivery. Activate and Pause are the owner's.
`excused` remembers since the last count what `StreakIsPaused` excepts.

### CronSync

`db` is the workflow's row with its trigger, `scheduler` what Redis holds. A
handler reads the workflow, writes it, and then makes the calls that
handleWorkflowDefinitionUpdated or handleWorkflowStatusChanged choose from the
two reads (`AfterPut`, `AfterStatus`). An occurrence passes from Tick over
TakeJob and Check (the ACTIVE check of handleCronJob) to Create and Enqueue, the
transaction of startExecution and the call of the queue after it; the api may die
between the two, and then the job that is delivered again meets the key of its own
execution, which nothing runs (`Stranded`). `history` holds what the properties look
back at: whether no two requests have been in flight together so far (`apart`), whether
a handler was cut short (`missed`), whether an auto-pause or a removal left a scheduler
behind (`abandoned`), whether the last reconciliation is still current (`fresh`), and
for each occurrence whether the workflow was active while its job was in hand
(`active`).

### LinearGraph

A state is a graph a client may send. ServerAccepts, EditorErrors, Resolve and
ChainPositions translate the four functions with the maps they build, which give the
edges of a node by their positions in the request; walks are functions over steps.

### DefinitionSnapshot

Definitions are numbered by `Workflow.version`, which the transaction of PUT
increments together with the nodes it writes. Execution reads the row, the
nodes and the edges in three steps (Prisma issues one SELECT per relation and
the default isolation is READ COMMITTED). CountUsage and Delete are the two
statements of ConnectionService.remove; Check and Commit those of PUT.

### StepTest

A call is a step test (`Tests`), a preview or trial of SQL (`Previews`) or a
connection test (`Pings`). `Mixes` says which calls a behaviour has beside each
other, with the deaths and failures that may happen to them.

| variable | code |
|---|---|
| `answer` | what the caller of the api is told |
| `job`, `stalls`, `slot` | the job in the step-test queue, the worker's one slot |
| `stage`, `outcome` | how far the code that serves the call is: credentials, connect, the session, its transaction, its end |
| `row` | what its SQL did to a table: nothing, pending in a transaction, kept |
| `attempt`, `effects` | a request to the outside and how often it was acted on |
| `connection` | whether the connection is still there |

waitUntilFinished with its 35 s is Timeout, the 30 s race of
executeActionWithTimeout is ActionTimesOut (DB_QUERY bypasses it), the 10 s of a
connection test PingTimeout. A session (connect, BEGIN, the statement, the end of the
transaction, the close) may hang at any answer of the database: the client sets no timer
for them. TakeEffect is the outside acting on what was sent, after a timeout too. An SQL of kind "chain" ends the
transaction around it; the api's previews refuse it, a step test does not.

### WorkflowEditor

One tab. `store` is the global store: the draft, its saved copy and fingerprint,
the selection, the results of step tests. `url` and `mount` are the page; `calls`
the requests in flight, each with what it was sent and, once the api has read or
written, its answer; a load is three SELECTs (row, nodes, edges), between which other
tabs may save, so that a draft may have an older number and name than its nodes, and
edges cut off (`stray`), which validateWorkflow refuses to save; `preview` the state of usePreviewData; `server`, `status`
and `lastRun` what the api keeps. A drawing has a slot per node and edges between
slots; a node carries its identity (which save gave it) and its configuration.
loadAnswer, saveAnswer, toggleAnswer, testAnswer and previewAnswer are the code
behind each `await`; goTo, setLocale and the mount counter decide which answers the
page still takes. goTo from an unsaved draft is the user's yes to the guard's question (a
no is no step). handleLogout asks at the click only, and only on addresses that end in
`/edit`; its answer leaves past the guard (logoutAnswer). Tests may overlap, each
section having a state of its own. `habit` bounds what one
behaviour does, because every action with every other is out of TLC's reach;
between them the habits pair editing with every kind of answer.

### ExecutionPages

`rows` is the executions by createdAt, each with its status and whether its last
log is open; `view` the page (`flow = "all"` is the page of all workflows);
`asked` the requests whose answers it still takes: a new request of a kind
supersedes the one before it, as listRequestRef and detailRequestRef do. The api
answers by several statements (rows, then count; execution, then logs), each an
action of its own. Poll repeats every 5 s while something is in progress. Of the worker
a row knows that it ends (EndRow), or fails with a log left open (EndRowUnclosed) or after
a SUCCESS whose reply was lost (EndIsDoubted), and that its job may be delivered again
whatever its status (Redelivered), which gives it the next `run`.

### ConnectionPages

`conns` is the catalogue by updatedAt; `pg` and `picker` the page and the picker,
of which a behaviour has one (`screen`); `reqs` the requests someone waits for;
otherTab what others do to the catalogue. A catalogue answer remembers for which
search, order and page it is, and how often the catalogue had changed (`stamp`).
Search and filters are one flag of a connection, `hit`: whether they match it.

### Dashboard

`board` is the store: the list, the count of requests, the sign of loading, and of
what age the list is. It outlives the page, `dash`: filters, search, dialog, error,
and `busy`, the one slot `pendingAction` for all rows. A trip is an action (run,
toggle, delete) on its way to the api, which goes on as the refresh that follows
it, or a load by itself when the page is opened; a summary's answer replaces the
list whatever was answered before. `known` holds what the properties look back at:
the newest change this tab was told it had made, what it was told it had deleted,
whether the summary shown was overtaken (`late`), and a failure nobody was there
to see (`unheard`). Statistics and recent executions come with the same answer and
are not told apart from the list; sorting and paging are left out.

### FieldData, Truncation, TemplatedInput

A document is a function from paths to kinds of values; a reference's text is cut at dots again, so a key may be several segments (`SegmentsOf`), and parseInt may
read a key as another index (`IndexOf`). What the editor is shown of a step's data
depends on where it has it from (`Origins`): a step log is redacted, and of a large one
only the cut text is left; a step test's answer is redacted unless the step is a database
query's, and what triggered an execution is shown as it came, credentials included. An element is the sequence of nodes a
contentEditable holds; a payload a string of UTF-16 code units. The three grow
step by step, and the functions are evaluated in each state. A block is one line
of the text field and none is inside another, which is what browsers make of Enter
in it; so the recursion of serializeFromDom, here a function of its stages, goes one
level deep.

### DbQueryForm

`config` is what the step stores (query and `_builderState`), `form` the state of
the React component, `calls` the requests its effects have not cancelled, `since`
what has changed since the query was stored or tried ("edit"; "metadata", when
tables or columns came or went; "unseen", a change that does not take the trial's
rows away). A query is its kind, table, columns set and columns filtered by, with
the connection it was made for.

### FieldPicker

`stored` and `runs` are the workflow's versions and its successful executions,
`draft` what the editor has, `cache` and `requests` the module-level cache and the
request in flight that all pickers share. A shape is a chain with the types of its
steps.

## 3. The runs

All bounds are constants; no configuration replaces a definition. Deadlock is
not checked: every instance stops when its calls, crashes and faults are used up.

| run | question | instance | answer |
|---|---|---|---|
| `intake_safety` | can rows, jobs and answers contradict each other? | two posts of one key and a retry, one crash of each process, two faults | 346 thousand states; all hold, among them the refinement of `IdempotentIntake` (`KeepsPromise`) |
| `intake_liveness` | is accepted work finished, is every caller answered? | a keyed post and a manual run, one crash of each process, one fault | hold under `FairSpec` |
| `intake_effects` | is a second post of a key a no-op? | two posts, one fault | **violated**: finding 1 |
| `engine` | is a run whole, logged and ended, through retries, timeouts, redelivery and failing writes? | two steps, one retry each, the first timed; two crashes, two faults, one redelivery | 61 thousand states; all hold, among them the refinement of `ChainRun` (`RunsTheChain`) |
| `workflow` | is what runs one definition with its connection; does the pause follow failures and only them? | two PUTs, two deletions, two executions, two connections; or threshold 3, four executions, one activation, two faults | 1.3 million states, hold |
| `auto_pause_burst` | do five failures in a row always pause? | the same threshold and executions, no faults | **violated**: finding 2 |
| `cron` | does the scheduler follow the workflow, what starts from what is left in Redis, what does a restart repair? | three requests by two handlers, one occurrence, one auto-pause, one fault, one crash, two valid expressions and one rejected one | 539 thousand states, hold, liveness included |
| `cron_paused` | is a PAUSED workflow's scheduler removed? | three requests by one handler, one auto-pause, no fault | **violated**: finding 3 |
| `step_test` | does a trial leave nothing behind, is its caller told the truth, does the queue move? | eight mixes of up to two calls, with deaths, faults and a deleted connection | hold, liveness included |
| `editor_data` | do the editor's readings of graphs, documents and queries agree with those of the api and the worker? | see below | 537 thousand states, hold |
| `db_unfiltered` | is the owner warned of an UPDATE or DELETE without a filter? | two edits of a saved DELETE | **violated**: finding 4 |
| `web` | does a page show what was chosen on it, whatever order answers come in? | see below | 2.0 million states, hold |

What the properties say:

- `KeyHasItsExecution`: a key has at most one execution, which is that of its
  event. `CreatedIsKept`: an execution somebody was told of is not taken away.
  `RunsAreAccounted`: when a key's actions ran twice, a caller had been told of
  an error; when a chain ran twice, its job had been redelivered.
  `TerminalLeftOnlyByRedelivery`: a finished execution is left for a redelivered job only,
  but for a SUCCESS whose reply was lost, which the engine makes FAILED.
  `AcceptedRunsToEnd`, `EveryCallEnds`: accepted work ends, callers are answered.
- `LogsTellTheChain`, `AttemptsAreTold`, `EndIsTold`, `RowsAreFinal`: section 5.
  `EndsOrHangs`: a job ends unless an untimed action never answers.
- `StreakIsPaused`: once the queue is empty, a row of failures has paused the
  workflow, unless since the last count its owner activated it, an execution was deleted,
  or the transaction of the count was lost. `PauseIsJustified`: what pauses is
  executions in a row that failed, at the moment of the commit (one may have been deleted
  since it was counted).
- `RunsOneDefinition`, `LostConnectionWasReplaced`: a run has the nodes and edges
  of one PUT; it misses a connection only when its definition was replaced.
- `ScheduleFollowsStatus`: as long as requests do not overlap, an ACTIVE cron workflow has
  its scheduler with its expression, and each scheduler without such a workflow has a
  named cause. `OccurrenceStarts`: without faults an occurrence's execution is enqueued,
  unless the api died between its transaction and the enqueue. `RestartSchedules`: the
  schedule is back after a restart. `OncePerOccurrence`,
  `StartedWhileActive`: whatever is in Redis, an occurrence starts one execution
  at most, and none of a workflow that was not active while its job was in hand.
  `ReconciledIsScheduled`: a restart puts the schedule right.
- `NothingIsLeft`: no trial keeps what it wrote (a step test whose SQL ends the
  transaction itself is excepted: only the previews refuse such SQL).
  `AnswerToldTheEffect`: an answer of success means one effect outside, a refusal
  none. `CallsEnd`: every call is answered and the slot becomes free, unless the session
  in it hangs at an answer of the database.
- `ReadingsAgree`: the api accepts a graph iff it is a chain, the worker runs what
  the api accepts, the editor tells the same. `OfferedFieldsResolve`: a field the
  picker offers resolves to that field in the worker, if no key holds a dot or
  blanks. `PreviewIsWhatIsSent`: what is previewed of a reference is what the worker
  will send, or nothing of it; where credentials are masked (step logs and tests, but for
  those of a query) none is shown.
  `NormalizingKeepsText`, `CutIsLongestPrefix`: of the text field and of
  truncation. `FormShowsWhatIs`: the query a database step stores, the form's
  state and its trial agree. `ListedFitTheDraft`, `FieldsNeverGoBack`: fields shown
  are those of the steps before, and never older than those shown before.
- `EditorShowsWhatIs`: the editor's draft, its saved copy, its results and its preview belong to the workflow and the version that is open; a load between
  whose SELECTs others saved shows newer nodes under the older number, and nothing else does. `ListsShowTheChosen`:
  lists, details, catalogues and dialogs belong to the filter, page and row chosen, and an
  ended execution is shown whole until its job is delivered again.
  `DashboardShowsWhatIs`: the dashboard loads while something is out, shows its own
  actions once all is answered, keeps away what it deleted, disables a row while
  its action is out, and its cards count their lists; each with its exceptions. `DraftKeepsItsOwn`: a draft loses an edit
  only by a cause the property names, a logout among them. `LoadingSignsEnd`: a loading sign goes away
  when its request ends, except in the cases it names.

Why the bounds are enough. The intake's contradictions need two calls of one key
and at most a failure in each of them; the retry adds the second way to create.
Two steps distinguish "first", "not first" and "last", one retry distinguishes
an attempt that is the last from one that is not, one redelivery separates rows of
two deliveries; two crashes exceed what BullMQ redelivers. A threshold of 3
separates "none", "some" and "all" of a window, four executions move the window past a
row of failures, and two faults are a clean-up and a lost reply, or a death. Two handlers and two expressions are what overwriting an
expression needs, and three requests leave one to follow two that overlapped. A PUT needs the definition before it, its own, and a second PUT
between two SELECTs.

`editor_data`: every graph of up to four nodes and four edges, with missing ends,
loops and duplicates (a trigger, a chain of two, and a node beside it or a second
trigger); every document of three members, with a key that holds a dot, one that
reads as an index and one that looks like a token; every element of five nodes
(two blocks, a chip, text and a break); every string of six code units, with
characters of one to four bytes; three edits of a database step, which is one to
change the query, one to undo it and one while an answer is out; five events
around two pickers.

`web`: on the editor two versions on the server, two edits, two requests, one
remount, and of saving, toggling, leaving and logging out two at a time (two kinds of answer in
flight are what an overtaking takes); on the history pages of one row, two executions, two
clicks, or one redelivery (it counts for two: what it does to the page needs no click
beside it); on the
connections three connections and three moves of the user; on the dashboard two
workflows, three clicks, one change by others and one lost request, with the filters
tried on every first row beside one that is paused after a failure. Each overtaking is one of two
requests, and each stale closure needs a click between a request and its answer.

`PROJECT.json` names for each property a mutation of the code that makes its run
fail; without the mutation it passes.

### Findings

1. **A key can run twice** (`intake_effects`). When the enqueue fails after
   Redis has stored the job (a lost reply), or the update after it fails, the
   catch block of startExecution deletes the event and the execution although the
   worker may already have run them. The caller is told of an error and posts
   again; the key is free and the actions run again. `test-checklist.md:26`
   says a second post of a key is a no-op. What does hold is
   `RunsAreAccounted`: the first caller was told of an error.
2. **A burst hides a row of failures** (`auto_pause_burst`). markExecutionFailed
   looks at the latest five executions by creation, finished or not.
   `test-checklist.md:44` and `spec-v1.md:26` speak of five FAILED in a row.
   What holds is `StreakIsPaused`.
3. **A paused workflow keeps its schedule** (`cron_paused`). The auto-pause of
   markExecutionFailed writes the row and never reaches CronTriggerStrategy.unregister,
   and reconcileCronTriggers only adds: the scheduler stays in Redis and every occurrence
   makes a job that handleCronJob skips. `test-checklist.md:54` says of PAUSED that the
   repeatable job is removed. What holds is `ScheduleFollowsStatus`, which names the
   cause, and `StartedWhileActive`: the jobs start nothing.
4. **A DELETE loses its filter** (`db_unfiltered`). The form makes the stored query
   from the columns loaded at that moment. Pressing the tab of the operation that
   is already chosen before they have arrived stores the query without its WHERE;
   afterwards the form's preview, which is made anew, shows the WHERE, and its
   warning is silent.

### More of what the models show

None of this contradicts a document that the runs could quote, or a run of its own
would say no more than the property that excepts it.

- *Intake.* A duplicate may be answered for an execution that is then cleaned up.
- *Engine.* A transformation with a missing reference makes an output that cannot be
  stored: the step is FAILED after an attempt that succeeded, and not retried. A SUCCESS
  whose reply is lost becomes FAILED.
- *Schedules.* When the api dies between the transaction of an occurrence and its enqueue,
  the occurrence never runs: its job is delivered again and answered 'duplicate' by the
  key of the PENDING execution. The same crash leaves a webhook's execution PENDING. A
  status change that
  overlaps a PUT may leave an ACTIVE workflow with an old scheduler or none
  (`test-checklist.md:53`, `:55`); a restart repairs it.
- *Auto-pause.* `StreakIsPaused` fails with two worker slots: each of two
  transactions misses the other's failure. The deployment has one slot
  (`deploy/docker-compose.prod.yml`).
- *Editor.* Changing the language loads the workflow again and discards the draft
  without a question. Logging out asks only at the click and only on
  addresses that end in `/edit` (`backlog.md:1635` speaks of every unsaved draft). A load
  between whose SELECTs another tab saves shows the newer nodes under the older number as
  saved, or with dangling edges, which the editor refuses to save and cannot show. The answer of a save or of a
  toggle replaces what was edited meanwhile. A workflow whose load failed is an
  empty editor, whose Save creates another workflow. The answer of a create takes
  the user from whatever page he has gone to. React Flow's Backspace deletes a
  node without the dialog.
- *History.* A poll that supersedes a load in the foreground leaves its loading
  sign for ever. A retry's answer reloads the list of the filter at the time of
  the click. Answers slower than 5 s supersede each other for ever. A
  redelivered job reopens an execution that the page shows as ended and no longer asks
  about; an execution can be FAILED with a log that is RUNNING for ever. A detail whose
  execution and logs straddle its end shows RUNNING in a row that is over, and is
  not polled again (`backlog.md:428`, `:437`).
- *Connections.* A save's reload that overtakes the first load leaves the page
  loading. A reload after a save asks for the search at the time of the click. The
  late answer of an edit replaces a dialog opened since.
- *Pickers.* "Load more" can append to the result of another search; paging by
  offset misses a connection that moves. A forced refresh joins a request that is
  already out, whose answer is older.
- *Dashboard.* One slot names the action that is out: an action that ends frees the
  buttons, or unlocks the deletion dialog, of another that is still out. A summary
  that was asked for before an action and answered after its refresh shows the state
  before it, until the next. A refresh that fails after the user has left and come
  back is told nowhere. The card of failures is shown active while a status filter
  is on beside it, above a list that may be empty; a filter stays on when its card
  has gone.
- *Data.* The test of a query and the data that triggered an execution are shown with
  their credentials, which step logs mask. A key with a dot or blanks at its ends is offered and does not resolve,
  or resolves to another field. A cut may fall between two surrogates. The text
  after a first block is joined to it without a line break. Emptying a key of a
  mapping, or typing through one that exists, loses an entry.
- *Database form.* After a change of the connection the rows of a trial that was
  still out are shown as those of the new one. A failed load of tables leaves the
  old tables. An edit of the JSON leaves the trial's rows.

## 4. Fairness

- `ExecutionIntake`: a call in flight goes on, the worker works, BullMQ's check
  for stalled jobs repeats. These are sockets and timers of live processes; the
  containers restart (`restart: unless-stopped`). No sender has to post, no owner
  has to act, no crash or fault has to happen. `AcceptedRunsToEnd` is limited to
  crashes that BullMQ's counter allows, and to a database that did not fail the
  worker: else the execution does stay RUNNING.
- `ExecutionEngine`: the engine's own steps and its timers. An action is *not*
  obliged to answer, which is why `EndsOrHangs` has its second disjunct: an
  action without timeoutMs may hold the worker.
- `CronSync`: restart of the api, its reconciliation, handlers and jobs that have
  begun. The scheduler need not tick, no request is owed.
- `StepTest`: the api's steps and its timer, the worker's steps and its timers, the
  check for stalled jobs (weak); the taking of a waiting job by a free slot
  (strong: between two takes the slot is busy). No step of a session with a database
  (connect, BEGIN, the statement, the end of the transaction, the close) is promised, since
  the client sets no timer for it, nor that an action comes back.

The other modules state safety only: what a user clicks is never owed, and that an
answer comes is the network's affair.

## 5. The proofs

All are for arbitrary sets of calls, requests, runs and connections, chains of any
length, and arbitrary bounds; the assumptions are the `ASSUME`s of the modules,
which the runs evaluate.

**ExecutionIntakeProofs.** `TypeCorrect`, `KeyHeld` (`KeyHasItsExecution`), `CreatedKept`,
`Accounted` (`RunsAreAccounted`), `TerminalKept`, and `Refinement`: the intake
implements `IdempotentIntake`. None of the invariants
is inductive by itself: that a clean-up does not take away an acknowledged
execution depends on where the call is, on its rows and on its job. `IInv` adds
`CallInv` (place of a call against what it has created), `RowInv` (a row is
deleted only with its workflow or by its own call, which answers "error"),
`JobInv` (lock of the job, deliveries against runs) and `SecondInv` (a second
execution of a key means an error was told). Each action has a lemma. The
refinement maps `owner` to the call whose execution is in the database; each
transaction is an Accept, Ignore or Withdraw, each answer a Confirm or Refuse,
and everything of the worker stutters. `CallsGoForward` is described below.

**ExecutionEngineProofs.** `LogsCorrect` (`LogsTellTheChain`: SUCCESS stands for a
whole chain, each step fed with what the one before returned in the same
delivery), `AttemptsCorrect` (`AttemptsAreTold`: an output is that of the last attempt made, which was awaited and took effect; a step is given up after all its
attempts, before the first, or after one that returned and could not be stored), `EndCorrect` (`EndIsTold`), `RowsStayFinal`
(`RowsAreFinal`) and `Refinement` (`RunsTheChain`). A row alone does not say
why it is right, so `IInv` says for each place of execute() what the rows and the
data are there: `JobInv` (job and status), `PastInv` (what is deleted and what
is to come has no rows), `LoopInv` (in the loop, the steps before are SUCCESS,
those after have no row, and `context` is the output of the step before),
`AfterInv` (after the loop), `CallInv` (the attempts called are 0 to the current
one, or the one before it) and `AwaitedInv`, `TriedInv` (the two halves of
`AttemptsAreTold` by attempts instead of sets). Each part has a lemma with a step
per action. Late answers of timed-out attempts are harmless because `CallInv`
knows the result that is stored to be the current attempt's, and a redelivery
because `PastInv` gives it rows of its own. The refinement maps `done` to the steps
that are SUCCESS in the delivery in hand; `LoopInv` makes them a prefix, which is
what ChainRun's Advance and Succeed ask for.

**CronSyncProofs.** `TypeCorrect`, `StartsActive` (`StartedWhileActive`) and
`StartsOnce` (`OncePerOccurrence`), for any number of overlapping requests,
crashes and faults. Of these the invariants needed are `CheckedInv`, a job between the check
and the start was checked while the workflow was active, and `StartedInv`, a job between
the transaction and the enqueue has its one execution. The first is kept because what the history forgets about a job it forgets only when the job leaves the hand of
handleCronJob. `ReconcileRepairs` (`ReconciledIsScheduled`) needs
`Booted`: until the start is over no handler is under way, and what it has found
ACTIVE the row still says. `ScheduleFollows` (`ScheduleFollowsStatus`) is for any set of
requests, as long as no two have been in flight together: then what a handler read before
its write is what its write replaced, but for an auto-pause (`Knows`), and `Scheduled` says
that whenever none has a call to make the schedule is the workflow's. Once they overlap it
is false, and the property does not claim it.

**WorkflowProofs, definitions.** `SnapshotTypeCorrect`, `OneDefinition`
(`RunsOneDefinition`), `LostWasReplaced`, and `Held`: the connection of the
current definition exists. The invariant orders the versions a run has read
(row ≤ nodes ≤ edges ≤ current) and states that what was written is never
rewritten.

**WorkflowProofs, auto-pause.** `PauseTypeCorrect` and `PauseInvariance` are for any number of
worker slots: a row exists once it is created, a job is of one that was (`QueueInv`); what
a slot has in hand does not wait, is nobody else's, and is there while its transaction is
open, which locks it (`HandInv`); a count is held only between the read and the commit
(`CountInv`). `Justified` (`PauseIsJustified`) and `OneSlotHeeds` (`StreakIsPaused`) assume
one slot, as is deployed, and any threshold. A row of failures that the slot has counted is
still one when it commits (`Counted`): nobody else takes a FAILED row up again, what is
deleted leaves the others next to each other, and what is created is newer. And the last
failure of a row is counted by a transaction that has seen the others, because no other
was open beside it.

**StepTestProofs.** `LeavesNothing` (`NothingIsLeft`) and `AnswersTell`
(`AnswerToldTheEffect`), for any number of tests, previews and connection tests and
any deaths and failures. `RowInv` ties what a call's SQL did to the stage of the
code that serves it (a row is pending only while the transaction of a write is open,
kept only by a test of a chain),
`EffectInv` the effects outside to attempts and deliveries, `RunInv` the slot and
the answers to the state of the job.

**Nothing goes on for ever.** `ExecutionsEnd` of ExecutionEngineProofs and
`CallsGoForward` of ExecutionIntakeProofs and of StepTestProofs are the part of the
liveness properties that needs no fairness. Each gives a rank, a tuple of naturals in
lexicographic order, which is well-founded (`IsWellFoundedOn(Lower, Ranks)`), and
proves what steps do to it. For an execution the rank has nine parts: whether it
is there, the deliveries BullMQ has left, the job's state, the stage of execute(),
the steps left, the awaits before the first attempt, the attempts left, the awaits of
one attempt, and the promises of timed-out attempts that are still out; every
step of the behaviour lowers it, a crash because it costs a delivery or ends the job, a late answer
because those promises are finitely many (`PendingInv`). For a call, of the intake
(four parts) or a step test, preview or connection test (five), every step taken for
it lowers its rank, and no other step changes it unless it lowers it. The bounds on crashes and
faults play no part: it is BullMQ's count of stalled deliveries that limits them. So
retries, redeliveries, timeouts and late answers cannot chase each other for ever, and
what `EndsOrHangs`, `AcceptedRunsToEnd`, `EveryCallEnds` and `CallsEnd` still need is
that the steps which are possible are taken. That, and the inference from a rank that falls
to a behaviour that stops, is left to TLC.

**EditorProofs.** `EditorIsTrue` (`EditorShowsWhatIs`) and `DraftsStay`
(`DraftKeepsItsOwn`), for drawings of any size and any number of workflows, versions,
edits and requests in flight; `WebEditorIsTrue` and `WebDraftsStay` state them of the
web application. The invariant is `EditorInv`. `ServerInv`: version v of w is a
drawing in which every node has one way in and out at most (`Linear`), with the ids of
that save and no others. `StoreInv`: what was saved is what
three SELECTs find of the version it names while others save (`ReadAs`), and the draft is
drawn with ids of that workflow's saves or the client's own. `AskInv`: a load in flight is for
the address and holds the row of a version there is, a save carries nodes of the workflow it replaces, an answer has a
version of the server's. `PreviewAskInv` and `PreviewInv`: a preview is asked for, and
shown, for a step with another before it. That the preview is right although
an execution can carry an older version than the definition it ran follows from the ids:
two drawings with a node of one id are one version (`SameIdSameVersion`).

`LogoutLosesNothing` is the part of `WebDraftsStay` about leaving: a logout that did not
ask, and was clicked on a stored workflow's page, has no unsaved edits to lose unless they
were made since (`LeaveInv`).

For the results of tests every edit is shown to be sound (`SoundEdit`): it leaves a
linear drawing and drops every result that could cease to fit. This rests on lemmas
about walks along edges, proved by the least place where two walks differ
(`WalksAgree`, `WalkGoesOn`): the step before a node is the one whose edge leads to it
(`PreviousIsBefore`), it does not change when the edges do not (`SamePrevious`), and
when a node is taken out it changes for the nodes downstream of it at most
(`PreviousWithout`). Nothing else changes a draft and keeps results (`DraftKept`). The
module assumes of its constants that there are finitely many slots and that None is
no slot, workflow or node (`EditorAssumption`).

**EditorDataProofs, graphs.** `ReadingsAlwaysAgree` (`ReadingsAgree`), for any set of
node ids and graphs of any size. It needs no invariant but the types: the work is in
the algorithms. An accepted graph is walked through all its nodes in as many steps as
there are nodes, so each step finds another one (`WalkInRow`, by cardinalities), every
edge lies between neighbours of that walk (`OrderIsDrawn`), and edges are one less
than nodes (`EdgesCounted`): it is a chain. The other way round the edges of a chain
are in bijection with its pairs of neighbours (`ChainIs`), which gives the degrees
(`ChainEdges`) and, at the least place where it could differ, the walk
(`ChainWalked`). What the worker resolves and what the fields are offered along are
that walk after the trigger (`ResolvedIs`, `PositionsAre`): one takes the first edge of
a node and the other the last, of one. And the editor, which goes on after
an error where the api stops, looks at the same edges when there is no error
(`GoodAreAll`).

**EditorDataProofs, field picker.** `ListedFit` (`ListedFitTheDraft`) and `NeverBack`
(`FieldsNeverGoBack`), for any number of pickers, versions and executions. Neither is
inductive. `AnswersInv` says that an answer, wherever it is held (by a request, by the
cache, by a picker), was read by now and has the chain of the version it names;
`VersionsInv` that the draft was saved as the version it names. `OrderInv` is what
sharing one request is for: there is one at most, and what it will bring is no older
than the cache, which is no older than what any picker shows.

**EditorDataProofs, database form.** `FormIsTrue` (`FormShowsWhatIs`), from `DbInv`:
the builder and the stored query are of the connection chosen (`OfTheConnection`),
columns are asked for the table chosen (`AskedInv`), and one trial at most is out, of
the query as it stands unless that was changed meanwhile (`TrialInv`). The lemmas about
generateSql say which fields of the builder the text depends on, so that an action
which leaves them leaves the text. The module assumes of its constants that NoTable
is no table (`TableAssumption`).

**EditorDataProofs, documents.** `OfferedAlwaysResolve` (`OfferedFieldsResolve`) and
`PreviewAlwaysWhatIsSent` (`PreviewIsWhatIsSent`), for any keys, any text of them and
documents of any depth and size. `DocInv` says that a document is a tree: what a value is in
is there, an object or an array, and an array's members are under indices. So a path's
own keys lead to it (`OwnKeysLead`), and the text of a path whose keys have no dots is the
path (`PathHas`). What redaction does to one segment (`SameMember`: the same
member, or none once a credential has been passed) goes on along the whole reference by the
least segment where it could fail (`SameValue`), and a value with no credential on its
way or within is left whole (`SameWhole`). Of a text that was cut no reference has a value,
and what is shown as it came is what is sent. The module assumes of its constants what
parsing gives: an index reads as itself, a segment is a key, undefined is neither a key
nor a path (`FieldAssumption`).

**EditorDataProofs, truncation.** `CutIsAlwaysLongest` (`CutIsLongestPrefix`), for any
limit and string. The search by halves needs that a prefix of a prefix that fits
does, and the bytes of prefixes are not those of the whole: cut through a
surrogate pair, a prefix counts 3 for the half where the whole counts 4 for both. They
grow all the same. No invariant is needed; the search is followed down to where low
meets high, by the least distance between the two at which it could go wrong.

**EditorDataProofs, text field.** `NormalizingAlwaysKeepsText`
(`NormalizingKeepsText`), for elements of any number of nodes and lines of any length.
`InputInv` says that no block is inside another. From there the text is followed node
by node: unwrapping a node of a long field adds to the text what the node itself would
have added (`UnwrapLong`), because the br put before a line is put exactly where
serializeFromDom ends one; of a short field it adds the same without line ends
(`UnwrapShort`, `ShortLine`, `WithoutJoined`). An element without blocks is its text
node for node, so that pasting inserts what is pasted (`LineCut`, `Pasted`).

**PagesProofs, history.** `HistoryIsTrue` (`HistoryShowsTheChosen`) and
`HistorySignsEnd` (`LoadingIsLostOnlyToRefresh`), for any number of executions, filters
and clicks. In `HistoryInv`, `RequestInv` says that a request that can still be
taken is for the controls and the selection as they are, which is what listRequestRef and
detailRequestRef keep up. It and `ViewInv` say that what is held of an execution as ended
has ended, in that run of its job (`IsOver`), and the logs held with it are the last: an
execution that has ended keeps its logs, an open one too, until its job is delivered again
(`RowGoesOn`), and the execution is read before them. `ListAwaited` and
`DetailAwaited`: what is shown of an older choice is about to be replaced, or an error
is shown.

**PagesProofs, connections.** `CatalogIsTrue` (`CatalogShowsTheChosen`) and
`LocksEnd` (`LocksAreLostOnlySo`), for any number of connections and any limit. On the
page, `OneEach` says that requestIdRef lets one list at most be taken, and
`CurrentInv` that it is for the controls as they are and has its sign of loading. In
the picker, `MergedInv` says that pages read of one unchanged list are its first
page * Limit connections. It is preserved because the list has no doubles
(`ConnsInv`), and by `NextPage`: mergeCatalogItems of the beginning of a list and its
next page is the longer beginning. `KeptOnce` and `KeptAll` say of the operator that
filters a sequence what that needs.

**PagesProofs, dashboard.** `DashboardIsTrue` (`DashboardShowsWhatIs`), for any number
of workflows, clicks, changes by others and losses. The count of requests is the
cardinality of the trips that are waited for, so that trips are numbered
(`Numbered`) and each step says how many of them set out or end. `ToldInv` follows
the newest action that was told of: a summary that is as new, or will fail, is on
its way, or the list is, or the page, or `known`, says why not. `GoneInv` says the
same of deletions: no summary that is as new as one has the workflow in it.
`BusyInv` adds that actions of one page that did not overlap are one at most. That
the cards count their lists holds of every list.

`ListsAreTrue` (`ListsShowTheChosen`), `SignsEnd` (`LoadingSignsEnd`) and
`WebDashboardIsTrue` put the pages together for the web application: a step of it is a
step of a page or leaves the page alone (`PageSteps`), so that its behaviours are
behaviours of each (`PagesRun`).

The modules are written so that this could be proved: the items of the history's
list are a set, since no property is about their order; `Kept` picks the
matching connections by counting, and the editor's chain is a function of the distance
from the trigger; `LinearGraph` gives the edges of a node by their positions; and the walk along a
reference, the bytes of prefixes, the search by halves and the text of an element are
functions of all their stages, whose existence is a lemma by the least stage where
there is none (`PathWalkIsThere`, `CountIsThere`, `ResultIsThere`, `UnwrappedIsThere`,
`KeptIsThere`). The
prover knows no facts about SelectSeq.

**Only model-checked**: the liveness properties, since the prover does not handle fairness and ENABLED;
that nothing goes on for ever is proved (above). Every invariant and action property of the passing runs is a
theorem. `StreakIsPaused` and `PauseIsJustified` are proved, and checked, for
one worker slot: with two the first is false. `ScheduleFollowsStatus` is claimed as long as
requests do not overlap.

## 6. Abstractions to know of

- A transaction of PostgreSQL is one step, except where its isolation level
  matters (`AutoPause`, `DefinitionSnapshot`) or where it is open across awaits
  (`StepTest`).
- Redis does not lose what it has acknowledged; BullMQ's internals are modelled by
  how the code uses them (one attempt, one redelivery of a stalled job).
- Data are names: payloads, keys, expressions and credentials are compared, never
  built. Truncation, redaction and references are operators in `Truncation` and
  `FieldData`; TLC evaluates them over short strings and small documents.
- A query is its kind, its table and its filters, a drawing its slots and edges: no
  SQL text, no coordinates.
- Time passes only as timers that may fire: no property depends on a duration.
- An expression of `CronSync` stands for expression and timezone; the key of an
  occurrence is its own.
- `AutoPause` has the set `Workers`, although one is deployed, so that the effect
  of a second can be looked at.
- The web modules have one tab; other tabs and users are actions of the server.
- `FieldPicker` takes an execution's version for that of the definition it ran;
  `DefinitionSnapshot` shows when it is not, in which case the picker's warning of
  an older version may be missing.

## 7. Not modelled, and the plan

Out of scope: rendering, texts and formatting; authentication (a signed cookie, and
one statement guarded by a unique index); statistics and health (read-only); the form
of a data transformation; encryption; bootstrap and deployment; what a foreign server
answers.

Left for later: sorting and paging of the dashboard's list; the listing of workflows.
