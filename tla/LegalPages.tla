------------------------------- MODULE LegalPages -------------------------------
(***************************************************************************)
(* How GET /legal/{version} turns a document's lines into blocks           *)
(* (_render_blocks of api/legal.py).  A line is [kind, text]; its kind     *)
(* is what the regular expressions make of it: "indented" and "text" are   *)
(* lines of words, with and without leading space.                         *)
(***************************************************************************)
EXTENDS Integers, Sequences, SequencesExt

CONSTANT Texts   \* what a line can say

LineKinds == {"blank", "heading", "rule", "item", "indented", "text"}

Lines == [kind : LineKinds, text : Texts]

Block(kind, texts) == [kind |-> kind, texts |-> texts]
Start == [blocks |-> <<>>, paragraph |-> <<>>, items |-> <<>>]

FlushParagraph(s) ==
  IF s.paragraph = <<>> THEN s
  ELSE [s EXCEPT !.blocks = Append(@, Block("p", s.paragraph)), !.paragraph = <<>>]

\* flush: the paragraph, then the list.
Flush(s) ==
  LET t == FlushParagraph(s)
  IN IF t.items = <<>> THEN t
     ELSE [t EXCEPT !.blocks = Append(@, Block("ul", t.items)), !.items = <<>>]

\* Mutant: words after a list do not end it.
Words_Loose(s, line) ==
  IF s.items # <<>> /\ line.kind = "indented"
  THEN [s EXCEPT !.items = Append(@, line.text)]
  ELSE [s EXCEPT !.paragraph = Append(@, line.text)]

\* An indented line goes on with the list's last item; other words end a list.
Words(s, line) ==
  IF s.items # <<>> /\ line.kind = "indented"
  THEN [s EXCEPT !.items = Append(@, line.text)]
  ELSE LET t == IF s.items = <<>> THEN s ELSE Flush(s)
       IN [t EXCEPT !.paragraph = Append(@, line.text)]

RenderLine(s, line) ==
  CASE line.kind = "blank" -> Flush(s)
    [] line.kind = "heading" ->
         LET t == Flush(s) IN [t EXCEPT !.blocks = Append(@, Block("h", <<line.text>>))]
    [] line.kind = "rule" ->
         LET t == Flush(s) IN [t EXCEPT !.blocks = Append(@, Block("hr", <<>>))]
    [] line.kind = "item" ->
         LET t == FlushParagraph(s) IN [t EXCEPT !.items = Append(@, line.text)]
    [] line.kind \in {"indented", "text"} -> Words(s, line)

RenderBlocks(lines) ==
  LET after[n \in 0..Len(lines)] ==
        IF n = 0 THEN Start ELSE RenderLine(after[n - 1], lines[n])
  IN Flush(after[Len(lines)]).blocks

\* The page says what the document says: every line's words once, in order.
NothingIsLost(lines) ==
  LET shown == RenderBlocks(lines)
      words(line) == IF line.kind \in {"blank", "rule"} THEN <<>> ELSE <<line.text>>
  IN FlattenSeq([n \in DOMAIN shown |-> shown[n].texts]) =
       FlattenSeq([n \in DOMAIN lines |-> words(lines[n])])
=============================================================================
