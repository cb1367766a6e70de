------------------------------- MODULE MCData -------------------------------
(* What the editor knows of chains and of data, one part of it in each     *)
(* behaviour: two parts share no state.                                    *)
EXTENDS LinearGraph, FieldData, TemplatedInput, Truncation, DbQueryForm, FieldPicker

CONSTANTS n1, n2, n3, n4, c, d, t, u, x, y, left, right, A, B

VARIABLE subject

textVars == <<fieldVars, inputVars, payloadVars>>
dataVars == <<subject, vars, textVars, dbVars, pickerVars>>

Same == Permutations({n1, n2, n3, n4})

\* A key with a dot, one that parseInt takes for an index, a credential's.
TheIndices == <<"0", "1">>
TheSegments == [k \in Keys |-> IF k = "a.0" THEN <<"a", "0">> ELSE <<k>>]
TheIndexOf == [k \in Keys |->
  CASE k \in {"0", "1"} -> k [] k = "0th" -> "0" [] OTHER -> NoValue]

\* The databases share a table's name; a table that only one of them has.
TheTables == (c :> {t, u}) @@ (d :> {t})
TheColumns == (t :> {x}) @@ (u :> {y})

\* A part that is not the subject has one state.
DataInit ==
  /\ subject \in {"graph", "doc", "element", "payload", "db", "picker"}
  /\ Init
  /\ FieldInit /\ InputInit /\ PayloadInit
  /\ DbInit /\ (subject # "db" => db = NoDb)
  /\ PickerInit /\ (subject # "picker" => stored = <<A>>)

DataNext ==
  /\ UNCHANGED subject
  /\ \/ subject = "graph" /\ Next /\ UNCHANGED <<textVars, dbVars, pickerVars>>
     \/ /\ subject = "doc" /\ FieldNext
        /\ UNCHANGED <<vars, inputVars, payloadVars, dbVars, pickerVars>>
     \/ /\ subject = "element" /\ InputNext
        /\ UNCHANGED <<vars, fieldVars, payloadVars, dbVars, pickerVars>>
     \/ /\ subject = "payload" /\ PayloadNext
        /\ UNCHANGED <<vars, fieldVars, inputVars, dbVars, pickerVars>>
     \/ subject = "db" /\ DbNext /\ UNCHANGED <<vars, textVars, pickerVars>>
     \/ subject = "picker" /\ PickerNext /\ UNCHANGED <<vars, textVars, dbVars>>

DataSpec == DataInit /\ [][DataNext]_dataVars
=============================================================================
