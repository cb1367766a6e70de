----------------------------- MODULE DbQueryForm -----------------------------
(***************************************************************************)
(* The form of a database step.  It builds the step's query from a table   *)
(* and rows of filters and values, or lets the user write it, and runs it  *)
(* on trial.  The query is made from what the form knows at that moment of *)
(* the tables and columns behind the connection, which arrive late, for    *)
(* another connection or table, or not at all; it is stored with the step  *)
(* when the user edits, and shown as it would be made now.                 *)
(*                                                                         *)
(* A filter or a value is the column it is for; rows that are incomplete,  *)
(* the list of selected columns, the order and the limit are left out.     *)
(***************************************************************************)
EXTENDS Naturals, FiniteSets

CONSTANTS
  Dbs,        \* connections of the type of the step
  NoDb,       \* no connection
  TablesOf,   \* the tables behind a connection
  ColumnsOf,  \* the columns of a table
  NoTable,    \* no table
  NoQuery,    \* an empty query; also no builder and no result
  MaxEdits    \* bound: edits, trials and failed requests

ASSUME DbAssumption == NoDb \notin Dbs /\ MaxEdits \in Nat

\* The empty name that stands for no table is the name of none.
ASSUME TableAssumption == NoTable \notin UNION {TablesOf[c] : c \in Dbs}

VARIABLES
  config,  \* the step's query and _builderState
  db,      \* its connectionId
  form,    \* the state of the form
  calls,   \* requests in flight whose answers the form still takes
  since,   \* history: what has changed since the query was stored or tried
  edits    \* edits, trials and failures so far

dbVars == <<config, db, form, calls, since, edits>>

Tables == UNION {TablesOf[c] : c \in Dbs}
OPERATIONS == {"select", "insert", "update", "delete"}

-----------------------------------------------------------------------------
(* The query.  "of" is the connection for which it was built or written.   *)

EMPTY_BUILDER == [operation |-> "select", table |-> NoTable, filters |-> {},
                  setValues |-> {}, of |-> NoDb]

UsesFilters(op) == op # "insert"
UsesValues(op) == op \in {"insert", "update"}

generateSql(builder, tables, columns) ==
  LET values == IF UsesValues(builder.operation) THEN builder.setValues \cap columns ELSE {}
      where == IF UsesFilters(builder.operation) THEN builder.filters \cap columns ELSE {}
  IN  IF builder.table \notin tables \/ (UsesValues(builder.operation) /\ values = {})
        THEN NoQuery
        ELSE [kind |-> builder.operation, table |-> builder.table, set |-> values,
              where |-> where, of |-> builder.of]

Written(kind) == [kind |-> kind, table |-> NoTable, set |-> {}, where |-> {}, of |-> db]

classifyQuery(query) ==
  CASE query = NoQuery -> NoQuery
    [] query.kind \in {"select", "read"} -> "read"
    [] query.kind \in {"insert", "update", "delete", "mutation"} -> "mutation"
    [] OTHER -> NoQuery

usingVisualPath(f) == f.mode = "visual" /\ ~ f.unavailable
sqlPreview(f) == IF usingVisualPath(f) THEN generateSql(f.builder, f.tables, f.columns)
                                       ELSE NoQuery

\* What a trial runs.
Tried(f) == IF usingVisualPath(f) THEN sqlPreview(f) ELSE config.query

mutationWarning(f) ==
  /\ usingVisualPath(f)
  /\ f.builder.operation \in {"update", "delete"} /\ f.builder.table # NoTable
  /\ sqlPreview(f) = NoQuery \/ sqlPreview(f).where = {}

-----------------------------------------------------------------------------
(* The effects.  A request of an effect is dropped when the effect runs    *)
(* again or the form goes, and then does not end its loading flag.         *)

Call(slot, c, table) == [slot |-> slot, db |-> c, table |-> table, query |-> NoQuery]

Drop(cs, slots) == {c \in cs : c.slot \notin slots}

\* The slots whose effect asks, of those that run.
Asking(f, slots) == {s \in slots : s = "columns" => f.builder.table # NoTable}

Asks(f, cs, c, slots) ==
  LET asking == Asking(f, slots) IN
    /\ form' = [f EXCEPT !.tablesLoading = @ \/ "tables" \in asking,
                         !.columnsLoading = @ \/ "columns" \in asking,
                         !.metaError = FALSE,
                         !.columns = IF f.builder.table = NoTable THEN {} ELSE @]
    /\ calls' = Drop(cs, slots) \cup {Call(s, c, f.builder.table) : s \in asking}

\* Mutation: the rows of the trial before stay.
clearTestResultsNot(f) == [f EXCEPT !.testError = FALSE]

clearTestResults(f) == [f EXCEPT !.rows = NoQuery, !.testError = FALSE]

\* An edit while a trial runs does not stop the trial.
Edited(f) == IF f.testRunning THEN {"edit"} ELSE {}

\* The form as it opens on what the step has.
Opened(cfg) ==
  [mode |-> IF cfg.builder # NoQuery \/ cfg.query = NoQuery THEN "visual" ELSE "raw",
   builder |-> IF cfg.builder # NoQuery THEN cfg.builder ELSE EMPTY_BUILDER,
   tables |-> {}, columns |-> {}, tablesLoading |-> FALSE, columnsLoading |-> FALSE,
   metaError |-> FALSE, unavailable |-> FALSE, paramsError |-> FALSE,
   rows |-> NoQuery, testRunning |-> FALSE, testError |-> FALSE,
   testUnavailable |-> FALSE]

Open(cfg, c) ==
  IF c = NoDb THEN form' = Opened(cfg) /\ calls' = {}
              ELSE Asks(Opened(cfg), {}, c, {"tables", "columns"})

-----------------------------------------------------------------------------
(* The user.                                                               *)

Edit == edits < MaxEdits /\ edits' = edits + 1

\* Another step and back, or a save, after which the steps have other ids.
Reopen ==
  /\ Edit
  /\ Open(config, db)
  /\ since' = {"metadata"}
  /\ UNCHANGED <<config, db>>

\* Mutation: the builder stays as it is.
FreshAsBefore(builder) == builder

Fresh(builder) == EMPTY_BUILDER

\* Clearing what was built for the connection before.  The effect of the table
\* runs once with the old table and is dropped with its loading flag left.
SelectConnection(c) ==
  /\ Edit
  /\ c # db
  /\ db' = c
  /\ IF c = NoDb
       THEN /\ form' = [form EXCEPT !.tables = {}, !.columns = {}, !.unavailable = FALSE,
                                    !.testUnavailable = FALSE]
            /\ calls' = Drop(calls, {"tables", "columns"})
            /\ since' = since \cup {"metadata", "unseen"}
            /\ UNCHANGED config
       ELSE /\ Asks([clearTestResults(form) EXCEPT
                       !.mode = "visual", !.builder = Fresh(@), !.unavailable = FALSE,
                       !.testUnavailable = FALSE,
                       !.columnsLoading = @ \/ form.builder.table # NoTable],
                    calls, c, {"tables", "columns"})
            /\ config' = [query |-> NoQuery, builder |-> Fresh(form.builder)]
            /\ since' = Edited(form)

pushBuilderToConfig(builder) ==
  [query |-> generateSql(builder, form.tables, form.columns), builder |-> builder]

\* With the effect of another table.
updateBuilder(builder) ==
  /\ usingVisualPath(form)
  /\ config' = pushBuilderToConfig(builder)
  /\ since' = Edited(form)
  /\ UNCHANGED db
  /\ LET f == [clearTestResults(form) EXCEPT !.builder = builder] IN
       IF builder.table = form.builder.table \/ db = NoDb
         THEN form' = f /\ UNCHANGED calls
         ELSE Asks(f, calls, db, {"columns"})

\* Also with the operation there is, and for the limit, which is left out.
PickOperation(op) ==
  /\ Edit
  /\ updateBuilder(IF op = form.builder.operation THEN form.builder
                   ELSE [form.builder EXCEPT !.operation = op, !.filters = {},
                                             !.setValues = {}])

PickTable(t) ==
  /\ Edit
  /\ db # NoDb /\ ~ form.tablesLoading
  /\ t \in (form.tables \cup {NoTable}) \ {form.builder.table}
  /\ updateBuilder([form.builder EXCEPT !.table = t, !.filters = {}, !.setValues = {},
                                        !.of = db])

\* A row is completed, or taken away.
EditFilter(c) ==
  /\ Edit
  /\ UsesFilters(form.builder.operation) /\ form.builder.table # NoTable
  /\ form.columns # {} /\ c \in form.columns \cup form.builder.filters
  /\ updateBuilder([form.builder EXCEPT !.filters =
                      IF c \in @ THEN @ \ {c} ELSE @ \cup {c}])

EditSetValue(c) ==
  /\ Edit
  /\ UsesValues(form.builder.operation) /\ form.builder.table # NoTable
  /\ form.columns # {} /\ c \in form.columns \cup form.builder.setValues
  /\ updateBuilder([form.builder EXCEPT !.setValues =
                      IF c \in @ THEN @ \ {c} ELSE @ \cup {c}])

ToRaw(query) ==
  /\ config' = [query |-> query, builder |-> NoQuery]
  /\ since' = Edited(form)
  /\ UNCHANGED <<db, calls>>

switchToRawEditing ==
  /\ Edit
  /\ usingVisualPath(form)
  /\ ToRaw(config.query)
  /\ form' = [clearTestResults(form) EXCEPT !.mode = "raw"]

handleQueryChange(query) ==
  /\ Edit
  /\ ToRaw(query)
  /\ form' = [clearTestResults(form) EXCEPT !.mode = "raw"]

\* The params are left out but for what is no JSON array.
handleParamsChange(valid) ==
  /\ Edit
  /\ ToRaw(config.query)
  /\ form' = [clearTestResults(form) EXCEPT !.mode = "raw", !.paramsError = ~ valid]

\* The step as JSON: another query, with or without the builder.  The form
\* follows what it has not written itself.
EditJson(query, keep) ==
  /\ Edit
  /\ config' = [query |-> query, builder |-> IF keep THEN config.builder ELSE NoQuery]
  /\ since' = Edited(form) \cup {"metadata", "unseen"}
  /\ UNCHANGED <<db, calls>>
  /\ form' = IF config.builder = NoQuery THEN form
             ELSE [clearTestResults(form) EXCEPT
                     !.mode = IF keep \/ query = NoQuery THEN "visual" ELSE "raw"]

\* Both effects depend on the messages.
SwitchLanguage ==
  /\ Edit
  /\ db # NoDb
  /\ Asks([form EXCEPT !.unavailable = FALSE], calls, db, {"tables", "columns"})
  /\ since' = since \cup IF form.unavailable THEN {"metadata", "unseen"} ELSE {}
  /\ UNCHANGED <<config, db>>

testDisabled(f) ==
  \/ f.testRunning \/ f.testUnavailable
  \/ Tried(f) = NoQuery
  \/ ~ usingVisualPath(f) /\ (f.paramsError \/ classifyQuery(config.query) = NoQuery)

handleTest ==
  /\ Edit
  /\ db # NoDb /\ ~ testDisabled(form)
  /\ form' = [clearTestResults(form) EXCEPT !.testRunning = TRUE, !.testUnavailable = FALSE]
  /\ calls' = calls \cup {[Call("test", db, NoTable) EXCEPT !.query = Tried(form)]}
  /\ since' = since \ {"edit", "unseen"}
  /\ UNCHANGED <<config, db>>

-----------------------------------------------------------------------------
(* The answers.                                                            *)

Moved(f) ==
  IF f.tables = form.tables /\ f.columns = form.columns /\ f.unavailable = form.unavailable
    THEN {} ELSE {"metadata", "unseen"}

Answer(c, f) ==
  /\ c \in calls
  /\ calls' = calls \ {c}
  /\ form' = f
  /\ since' = since \cup Moved(f)
  /\ UNCHANGED <<config, db>>

Fails(c, f) == Edit /\ Answer(c, f)

introspectTables(c) ==
  /\ c.slot = "tables"
  /\ LET f == [form EXCEPT !.tablesLoading = FALSE] IN
       \/ Answer(c, [f EXCEPT !.tables = TablesOf[c.db], !.unavailable = FALSE]) /\ UNCHANGED edits
       \/ Fails(c, [f EXCEPT !.metaError = TRUE])
       \/ Fails(c, [f EXCEPT !.tables = {}, !.columns = {}, !.unavailable = TRUE])

introspectColumns(c) ==
  /\ c.slot = "columns"
  /\ LET f == [form EXCEPT !.columnsLoading = FALSE]
         columns == IF c.table \in TablesOf[c.db] THEN ColumnsOf[c.table] ELSE {}
     IN  \/ Answer(c, [f EXCEPT !.columns = columns, !.unavailable = FALSE]) /\ UNCHANGED edits
         \/ Fails(c, [f EXCEPT !.metaError = TRUE])
         \/ Fails(c, [f EXCEPT !.columns = {}, !.unavailable = TRUE])

testDbQuery(c) ==
  /\ c.slot = "test"
  /\ LET f == [form EXCEPT !.testRunning = FALSE] IN
       \/ Answer(c, [f EXCEPT !.rows = c.query]) /\ UNCHANGED edits
       \/ Fails(c, [f EXCEPT !.testError = TRUE])
       \/ Fails(c, [f EXCEPT !.testUnavailable = TRUE])

-----------------------------------------------------------------------------
\* A new step, a saved step that deletes some rows, a saved step with a query.
Saved ==
  {<<[query |-> NoQuery, builder |-> NoQuery], NoDb>>} \cup
  UNION {UNION {UNION {
    LET builder == [operation |-> "delete", table |-> t, filters |-> {x},
                    setValues |-> {}, of |-> c]
    IN  {<<[query |-> generateSql(builder, TablesOf[c], ColumnsOf[t]),
            builder |-> builder], c>>,
         <<[query |-> [kind |-> "read", table |-> NoTable, set |-> {}, where |-> {},
                       of |-> c], builder |-> NoQuery], c>>}
    : x \in ColumnsOf[t]} : t \in TablesOf[c]} : c \in Dbs}

DbInit ==
  /\ \E saved \in Saved :
       /\ config = saved[1] /\ db = saved[2]
       /\ LET f == Opened(config)
              slots == IF db = NoDb THEN {} ELSE Asking(f, {"tables", "columns"})
          IN  /\ form = [f EXCEPT !.tablesLoading = "tables" \in slots,
                                  !.columnsLoading = "columns" \in slots]
              /\ calls = {Call(s, db, f.builder.table) : s \in slots}
  /\ since = {"metadata"}
  /\ edits = 0

Queries == {NoQuery} \cup {Written(k) : k \in {"read", "mutation", "other"}}

DbUser ==
  \/ Reopen \/ switchToRawEditing \/ SwitchLanguage \/ handleTest
  \/ \E c \in Dbs \cup {NoDb} : SelectConnection(c)
  \/ \E op \in OPERATIONS : PickOperation(op)
  \/ \E t \in Tables \cup {NoTable} : PickTable(t)
  \/ \E x \in UNION {ColumnsOf[t] : t \in Tables} : EditFilter(x) \/ EditSetValue(x)
  \/ \E q \in Queries : handleQueryChange(q)
  \/ \E q \in Queries \cup {config.query}, keep \in BOOLEAN : EditJson(q, keep)
  \/ \E valid \in BOOLEAN : handleParamsChange(valid)

DbAnswers ==
  \E c \in calls : introspectTables(c) \/ introspectColumns(c) \/ testDbQuery(c)

DbNext == DbUser \/ DbAnswers

DbSpec == DbInit /\ [][DbNext]_dbVars

-----------------------------------------------------------------------------
(* Properties.                                                             *)

\* "Clear config query/params so stale SQL cannot be tested against the new
\* connection": what runs on trial was built or written for the connection it
\* runs on, whatever was typed, dropped and chosen again before.
NoStaleSqlTested == \A c \in calls : c.slot = "test" => c.query.of = c.db

\* What the step has stored is what the form shows as its query, unless tables
\* or columns have come or gone since the last edit.
StoredIsShown ==
  usingVisualPath(form) /\ "metadata" \notin since => config.query = sqlPreview(form)

\* Rows shown as a trial's are those of the query as it stands, unless it was
\* edited while the trial ran, or changed since in a way that takes no rows away:
\* by tables or columns that came or went, or in the JSON of a raw step.
RowsAreOfTheQuery ==
  form.rows # NoQuery /\ since \cap {"edit", "unseen"} = {} => form.rows = Tried(form)

\* Columns offered are those of the chosen table of the chosen connection, or
\* the form says that it is loading them or could not.
ColumnsAreOfTheTable ==
  form.columns # {} =>
    \/ form.columnsLoading \/ form.metaError
    \/ form.builder.table \in Tables /\ form.columns = ColumnsOf[form.builder.table]

\* What the form shows is what there is: the query that is stored, the columns
\* of the table, the rows of the trial.
FormShowsWhatIs ==
  NoStaleSqlTested /\ StoredIsShown /\ RowsAreOfTheQuery /\ ColumnsAreOfTheTable

\* The form warns of an UPDATE or a DELETE without a filter ("DELETE without a
\* filter will affect all rows"): whenever the step has one, it says so.
UnfilteredIsWarnedOf ==
  usingVisualPath(form) /\ config.query # NoQuery =>
    (config.query.kind \in {"update", "delete"} /\ config.query.where = {}
       => mutationWarning(form))
=============================================================================
