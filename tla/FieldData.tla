------------------------------ MODULE FieldData ------------------------------
(***************************************************************************)
(* What a step's data means to those who only see a part of it.  The       *)
(* worker stores a step's output redacted, and as the beginning of its     *)
(* text if it is large; the answer of a step test is redacted unless the   *)
(* step is a query's; what triggered an execution is stored as it came.    *)
(* The editor offers the fields of the redacted output as references and   *)
(* shows a reference's value in what it has been given; the worker         *)
(* resolves the references in the output itself.                           *)
(*                                                                         *)
(* A document is a function from its paths to the kind of the value there. *)
(* A path is a sequence of keys, an array's being its indices.  In the     *)
(* text of a reference a path is joined by dots and cut at dots again, so  *)
(* that a key is one segment only if it has no dot and no blanks around.   *)
(***************************************************************************)
EXTENDS Naturals, Sequences, FiniteSets, SequencesExt

CONSTANTS
  Keys,        \* keys of objects and indices of arrays
  Indices,     \* the indices among them, in order
  Sensitive,   \* keys that isSensitiveKey takes for a credential's
  SegmentsOf,  \* the segments of a key's text
  IndexOf,     \* parseInt of a key's text
  NoValue,     \* undefined
  MaxDepth,    \* maxDepth of buildFieldTree
  MaxMembers   \* bound: values of a document

ASSUME FieldAssumption ==
  /\ Range(Indices) \subseteq Keys /\ Sensitive \subseteq Keys \ Range(Indices)
  /\ SegmentsOf \in [Keys -> Seq(Keys)]
  /\ IndexOf \in [Keys -> Keys \cup {NoValue}]
  /\ \A i \in Range(Indices) : SegmentsOf[i] = <<i>> /\ IndexOf[i] = i
  /\ NoValue \notin Keys /\ NoValue \notin Seq(Keys)
  /\ {MaxDepth, MaxMembers} \subseteq Nat

VARIABLE doc  \* the data of a step

fieldVars == <<doc>>

-----------------------------------------------------------------------------
(* Redaction and the tree of fields.                                       *)

Parent(p) == SubSeq(p, 1, Len(p) - 1)
IsSecret(d, p) == p # <<>> /\ d[Parent(p)] = "object" /\ Last(p) \in Sensitive
IsBeneathSecret(d, p) == \E n \in 1..Len(p) - 1 : IsSecret(d, SubSeq(p, 1, n))

\* Mutation: what is in an array is left as it is.
redactValueOfObjects(d) ==
  LET open(p) == \E n \in 1..Len(p) - 1 : d[SubSeq(p, 1, n)] = "array" IN
  [p \in {q \in DOMAIN d : open(q) \/ ~ IsBeneathSecret(d, q)} |->
     IF IsSecret(d, p) /\ ~ open(p) THEN "masked" ELSE d[p]]

redactValue(d) ==
  [p \in {q \in DOMAIN d : ~ IsBeneathSecret(d, q)} |->
     IF IsSecret(d, p) THEN "masked" ELSE d[p]]

\* What the preview of a step may be given of the data it will be sent: a step
\* log of an execution, the answer of a step test, or what triggered it.
Origins == {"log", "large log", "test", "query test", "trigger"}

\* truncatePayload makes a text of a document that is too large: which one is,
\* its values tell, which are not told apart here.
CutText == [p \in {<<>>} |-> "leaf"]

Given(origin, d) ==
  CASE origin \in {"log", "test"}           -> redactValue(d)
    [] origin = "large log"                 -> CutText
    [] origin \in {"query test", "trigger"} -> d

\* The paths of the nodes: of an array its first member alone.
buildFieldTree(d) ==
  {p \in DOMAIN d \ {<<>>} :
     /\ Len(p) - 1 <= MaxDepth
     /\ \A n \in DOMAIN p :
          d[SubSeq(p, 1, n - 1)] = "array" => p[n] = Indices[1]}

\* The path as text, cut into segments again.
PathText(p) == FlattenSeq([n \in DOMAIN p |-> SegmentsOf[p[n]]])

-----------------------------------------------------------------------------
(* References, in the worker and in the editor's preview.                  *)

\* Mutation: arrays are walked like objects.
MemberByKey(d, p, segment) ==
  IF p # NoValue /\ d[p] = "object" /\ Append(p, segment) \in DOMAIN d
    THEN Append(p, segment) ELSE NoValue

Member(d, p, segment) ==
  LET key == IF d[p] = "array" THEN IndexOf[segment] ELSE segment
  IN  IF p # NoValue /\ d[p] \in {"object", "array"} /\ Append(p, key) \in DOMAIN d
        THEN Append(p, key) ELSE NoValue

\* currentValue after each segment.
PathWalk(d, segments) ==
  LET at[n \in 0..Len(segments)] ==
        IF n = 0 THEN <<>> ELSE Member(d, at[n - 1], segments[n])
  IN  at

resolveInputPath(d, segments) == PathWalk(d, segments)[Len(segments)]

\* A value, with what is in it; a leaf is told from others by its path.
ValueAt(d, p) == {<<q, d[q]>> : q \in {r \in DOMAIN d : IsPrefix(p, r)}}

stringifyInterpolatedValue(d, p) ==
  IF p = NoValue \/ d[p] = "null" THEN <<>> ELSE <<ValueAt(d, p)>>

\* A template is a sequence of texts (NoValue) and references (segments).
\* One that is a reference and nothing else keeps the value's type.
interpolateValue(template, d) ==
  IF Len(template) = 1 /\ template[1] # NoValue
    THEN LET p == resolveInputPath(d, template[1]) IN
           [text |-> FALSE, is |-> IF p = NoValue THEN <<>> ELSE <<ValueAt(d, p)>>]
    ELSE [text |-> TRUE, is |-> FlattenSeq([n \in DOMAIN template |->
            IF template[n] = NoValue THEN <<"text">>
            ELSE stringifyInterpolatedValue(d, resolveInputPath(d, template[n]))])]

\* The editor shows a reference without a value as it is written.
resolveTemplateSegments(template, d) ==
  [n \in DOMAIN template |->
     IF template[n] = NoValue THEN [type |-> "text", is |-> <<"text">>]
     ELSE LET p == resolveInputPath(d, template[n]) IN
       IF p = NoValue THEN [type |-> "raw", is |-> template[n]]
       ELSE [type |-> "ref", is |-> stringifyInterpolatedValue(d, p)]]

-----------------------------------------------------------------------------
(* Every state is some document: another step's data, any JSON value built *)
(* member by member.                                                       *)

FieldInit == doc = [p \in {<<>>} |-> "object"]

\* The document with a value of a type at a path.
Put(d, p, type) == [q \in DOMAIN d \cup {p} |-> IF q = p THEN type ELSE d[q]]

AddMember(p, k, type) ==
  /\ Cardinality(DOMAIN doc) <= MaxMembers
  /\ doc[p] \in {"object", "array"} /\ Append(p, k) \notin DOMAIN doc
  /\ doc[p] = "array" => \E i \in DOMAIN Indices :
       k = Indices[i] /\ \A j \in 1..i - 1 : Append(p, Indices[j]) \in DOMAIN doc
  /\ doc' = Put(doc, Append(p, k), type)

FieldNext ==
  \E p \in DOMAIN doc, k \in Keys, type \in {"object", "array", "leaf", "null"} :
    AddMember(p, k, type)

FieldSpec == FieldInit /\ [][FieldNext]_fieldVars

-----------------------------------------------------------------------------
(* Properties.                                                             *)

References(d) == {PathText(p) : p \in DOMAIN d}

IsPlain(p) == \A n \in DOMAIN p : SegmentsOf[p[n]] = <<p[n]>>

\* The fields offered for a step are read off the redacted output, and their
\* references are resolved in the output itself.  A field whose keys have no
\* dots and no blanks around resolves to the very value that was offered.
OfferedFieldsResolve ==
  \A p \in buildFieldTree(redactValue(doc)) :
    IsPlain(p) => resolveInputPath(doc, PathText(p)) = p

\* What the editor previews of a reference is what the worker will send, or
\* nothing: nothing of what is within a credential, where credentials are masked,
\* nor of any part of an output that was too large.  Where they are masked, a
\* credential shows as a mask, wherever it is.  And where the whole is shown, or
\* no credential is on the way or within, what is shown is what is sent, to the
\* last member; a query's test and a trigger's data are shown whole, credentials
\* included.
Hides(origin, sent, segments) ==
  CASE origin \in {"log", "test"} -> IsBeneathSecret(doc, sent)
    [] origin = "large log"       -> segments # <<>>
    [] OTHER                      -> FALSE

\* No credential is on the way to a value or within.
IsOpen(sent) ==
  \A q \in DOMAIN doc : IsSecret(doc, q) => ~ IsPrefix(q, sent) /\ ~ IsPrefix(sent, q)

ShowsWhole(origin, sent) ==
  \/ origin \in {"query test", "trigger"}
  \/ origin \in {"log", "test"} /\ IsOpen(sent)

PreviewIsWhatIsSent ==
  \A origin \in Origins, segments \in References(doc) :
    LET given == Given(origin, doc)
        sent == resolveInputPath(doc, segments)
        shown == resolveInputPath(given, segments)
        texts == resolveTemplateSegments(<<segments, NoValue>>, given)
        run == interpolateValue(<<segments, NoValue>>, doc)
    IN  /\ shown = (IF sent # NoValue /\ Hides(origin, sent, segments) THEN NoValue
                     ELSE sent)
        /\ origin \in {"log", "test"} /\ shown # NoValue /\ IsSecret(doc, shown)
             => given[shown] = "masked"
        /\ sent # NoValue /\ ShowsWhole(origin, sent)
             => run.is = texts[1].is \o texts[2].is
=============================================================================
