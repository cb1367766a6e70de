--------------------------- MODULE TemplatedInput ---------------------------
(***************************************************************************)
(* The text field of the editor whose text holds references.  It is a      *)
(* contentEditable element in which a reference is a chip; what browsers   *)
(* make of it is normalized at each input and read back as text.           *)
(***************************************************************************)
EXTENDS Naturals, Sequences, SequencesExt

CONSTANT MaxItems  \* bound: nodes of an element

ASSUME ItemsAssumption == MaxItems \in Nat

VARIABLE element  \* its nodes, each text, chip, br or block

inputVars == <<element>>

-----------------------------------------------------------------------------
(* The element and its text, in which a chip is its reference.             *)

Node(tag, kids) == [tag |-> tag, kids |-> kids]
IsBlock(node) == node.tag = "block"
Br == Node("br", <<>>)

\* What a node other than a block adds to the text.
Text(node) == IF node.tag = "br" THEN "newline" ELSE node.tag

\* A block's own text: what is in it is no block.
LineText(kids) == [n \in DOMAIN kids |-> Text(kids[n])]

\* A block begins a line, unless the text before it has ended one.
Joined(text, node) ==
  IF ~ IsBlock(node) THEN Append(text, Text(node))
  ELSE (IF text # <<>> /\ Last(text) # "newline" THEN Append(text, "newline") ELSE text)
         \o LineText(node.kids)

\* result after each node.
ResultAfter(nodes) ==
  LET result[n \in 0..Len(nodes)] ==
        IF n = 0 THEN <<>> ELSE Joined(result[n - 1], nodes[n])
  IN  result

serializeFromDom(nodes) == ResultAfter(nodes)[Len(nodes)]

\* Mutation: a block becomes its children.
UnwrapBare(done, node, multiline) ==
  done \o (IF IsBlock(node) THEN node.kids ELSE <<node>>)

\* A block becomes its children, after a br if they do not begin a line.
Unwrap(done, node, multiline) ==
  IF ~ IsBlock(node) THEN Append(done, node)
  ELSE (IF multiline /\ done # <<>> /\ Last(done).tag # "br"
          THEN Append(done, Br) ELSE done) \o node.kids

UnwrappedAfter(nodes, multiline) ==
  LET done[n \in 0..Len(nodes)] ==
        IF n = 0 THEN <<>> ELSE Unwrap(done[n - 1], nodes[n], multiline)
  IN  done

\* A sequence without an element, wherever it is.
Without(s, e) ==
  LET kept[n \in 0..Len(s)] ==
        IF n = 0 THEN <<>>
        ELSE IF s[n] = e THEN kept[n - 1] ELSE Append(kept[n - 1], s[n])
  IN  kept[Len(s)]

normalizeDom(nodes, multiline) ==
  LET flat == UnwrappedAfter(nodes, multiline)[Len(nodes)]
  IN  IF multiline THEN flat ELSE Without(flat, Br)

\* A text as nodes: pieces of text and chips, line ends in a long field only.
renderSegmentsToDom(text, multiline) ==
  [n \in DOMAIN text |->
     IF text[n] = "newline" /\ multiline THEN Br ELSE Node(text[n], <<>>)]

\* What is pasted into a short field has its line ends replaced.
PasteText(text, multiline) ==
  IF multiline THEN text
  ELSE [n \in DOMAIN text |-> IF text[n] = "newline" THEN "text" ELSE text[n]]

handlePaste(nodes, at, text, multiline) ==
  normalizeDom(SubSeq(nodes, 1, at)
                 \o renderSegmentsToDom(PasteText(text, multiline), multiline)
                 \o SubSeq(nodes, at + 1, Len(nodes)), multiline)

insertChipAtCaret(nodes, at, multiline) ==
  handlePaste(nodes, at, <<"chip">>, multiline)

-----------------------------------------------------------------------------
(* Every state is some element.                                            *)

InputInit == element = <<>>

Size == FoldLeft(LAMBDA n, node : n + 1 + Len(node.kids), 0, element)

\* What browsers do to an element: nodes at its end, or at the end of its last
\* block.  A block is a line of the field: none is in another.
Leaves == {Node(tag, <<>>) : tag \in {"text", "chip", "br"}}

Grown(node) ==
  {Append(element, node)} \cup
    IF element = <<>> \/ ~ IsBlock(Last(element)) \/ IsBlock(node) THEN {}
    ELSE {Append(Front(element), Node("block", Append(Last(element).kids, node)))}

Mutated(node) ==
  /\ Size < MaxItems
  /\ element' \in Grown(node)

InputNext == \E node \in Leaves \cup {Node("block", <<>>)} : Mutated(node)

InputSpec == InputInit /\ [][InputNext]_inputVars

-----------------------------------------------------------------------------
(* Properties.                                                             *)

\* normalizeDom changes the nodes under the user's hands at each input: in a
\* long field it must not change the text they stand for, in a short one it
\* takes the line ends from it and nothing else.  What is rendered reads back as
\* the text it was rendered from, and what is pasted at a place is inserted there
\* and nothing else.
NormalizingKeepsText ==
  LET text == serializeFromDom(element)
      flat(multiline) == normalizeDom(element, multiline)
      isFlat == \A n \in DOMAIN element : ~ IsBlock(element[n])
  IN  /\ serializeFromDom(flat(TRUE)) = text
      /\ serializeFromDom(flat(FALSE)) = Without(text, "newline")
      /\ \A multiline \in BOOLEAN :
           serializeFromDom(renderSegmentsToDom(text, multiline)) = text
      /\ isFlat => \A at \in 0..Len(element), n \in 0..Len(text) :
           LET pasted == handlePaste(element, at, SubSeq(text, 1, n), TRUE) IN
             serializeFromDom(pasted) =
               SubSeq(text, 1, at) \o SubSeq(text, 1, n) \o SubSeq(text, at + 1, Len(text))
      /\ isFlat => \A at \in 0..Len(element) :
           serializeFromDom(insertChipAtCaret(element, at, TRUE)) =
             SubSeq(text, 1, at) \o <<"chip">> \o SubSeq(text, at + 1, Len(text))
=============================================================================
