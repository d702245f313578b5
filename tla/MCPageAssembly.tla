--------------------------- MODULE MCPageAssembly ---------------------------
(* The pages PageAssembly is checked on: ruled tables with missing rules   *)
(* and words, tables without rules, and text around pictures.              *)
EXTENDS PageAssembly

CONSTANTS MaxMissing   \* words or rules that may be missing from a page

At(l, c) == [line |-> l, col |-> c, shift |-> 0]
Indented(l, c) == [line |-> l, col |-> c, shift |-> 10]
Grid(ls, cs) == {At(l, c) : l \in ls, c \in cs}
AllBut(S, k) == {S} \cup {S \ Range(lost) : lost \in [1 .. k -> S]}

NoInk == [h |-> {}, v |-> {}]

(* Pages are rendered at 150 dpi or more, so that an A4 page has twice as   *)
(* many pixels as points, or more; a small scan may fit into A4.            *)
A4Sizes == {<<(Spot * Cols) \div k, (Spot * Rows) \div k>> : k \in {1, 2}}

(* Rules of a table of two columns on the lines from top to bottom.        *)
InnerH(top, bottom) == (top + 1 .. bottom) \X (0 .. 1)
OuterH(top, bottom) == {top, bottom + 1} \X (0 .. 1)
InnerV(top, bottom) == {1} \X (top .. bottom)
OuterV(top, bottom) == {0, 2} \X (top .. bottom)

(* The table is on the upper lines, or on the lower ones under some text.  *)
RuledPages(top, bottom) ==
  {[words |-> ws \cup Grid((0 .. Rows - 1) \ (top .. bottom), {0}), ink |-> ink, pictures |-> {},
    numeric |-> {}, a4 |-> a4, wordRows |-> TRUE] :
     ws \in AllBut(Grid(top .. bottom, 0 .. 1), MaxMissing), a4 \in A4Sizes,
     ink \in {[h |-> OuterH(top, bottom) \cup h, v |-> OuterV(top, bottom) \cup v] :
                h \in AllBut(InnerH(top, bottom), 1), v \in AllBut(InnerV(top, bottom), 1)}}

(* Only columns are ruled, with or without a frame; the frame may run out  *)
(* over the margin, where a note stands.                                   *)
ColumnRuledPages ==
  {[words |-> ws \cup {At(1, 2)}, ink |-> [h |-> h, v |-> OuterV(0, Rows - 2) \cup InnerV(0, Rows - 2)],
    pictures |-> {}, numeric |-> {}, a4 |-> a4, wordRows |-> TRUE] :
     ws \in SUBSET Grid(0 .. Rows - 2, 0 .. 1), a4 \in A4Sizes,
     h \in {{}, OuterH(0, Rows - 2), OuterH(0, Rows - 2) \cup {<<0, 2>>}}}

(* Words that reach over the left side of a frame, or stand beside it.     *)
MarginPages ==
  {[words |-> Grid(0 .. Rows - 2, 1 .. 2) \cup {Indented(l, 0) : l \in over} \cup Grid(beside \ over, {0}),
    ink |-> [h |-> h \X (1 .. 2), v |-> v \X (0 .. Rows - 2)],
    pictures |-> {}, numeric |-> {}, a4 |-> <<Spot * Cols, Spot * Rows>>, wordRows |-> TRUE] :
     over \in SUBSET (0 .. Rows - 2), beside \in SUBSET (0 .. Rows - 2),
     h \in {{}, {0, Rows - 1}, 0 .. Rows - 1}, v \in {{1, 3}, {1, 2, 3}}}

(* Aligned text with a column of numbers, some words missing or indented.  *)
BorderlessPages ==
  {[words |-> (ws \ shifted) \cup {Indented(w.line, w.col) : w \in shifted \cap ws},
    ink |-> NoInk, pictures |-> {}, numeric |-> Grid(0 .. Rows - 1, {2}), a4 |-> a4, wordRows |-> rows] :
     ws \in AllBut(Grid(0 .. Rows - 1, 0 .. Cols - 1), MaxMissing), a4 \in A4Sizes, rows \in BOOLEAN,
     shifted \in {{}, Grid(1 .. Rows - 1, {0})} \cup {{At(l, c)} : l \in 0 .. Rows - 1, c \in {0, 2}}}

(* Text around pictures.                                                   *)
SpotsBox(c, l, w, h) == Box(Spot * c, Spot * l, Spot * Smaller(c + w, Cols), Spot * Smaller(l + h, Rows))
Rectangles == {SpotsBox(c, l, w, h) : c \in 0 .. Cols - 1, l \in 0 .. 2, w \in 1 .. Cols, h \in 1 .. 3}
PicturePages ==
  {[words |-> ws, ink |-> NoInk, pictures |-> ps, numeric |-> {}, a4 |-> <<Spot * Cols, Spot * Rows>>, wordRows |-> rows] :
     ws \in SUBSET Grid(0 .. 2, 0 .. 1), rows \in BOOLEAN,
     ps \in {{g} : g \in Rectangles} \cup {{g, SpotsBox(1, 1, 2, 2)} : g \in Rectangles}}

(* As many stamps as a page may have, or one more, some of them over words. *)
Stamps == {Box(Spot * c + 20, Spot * l + 20, Spot * c + 50, Spot * l + 50) : c \in 0 .. 2, l \in 0 .. 2}
StampPages ==
  {[words |-> ws \cup {At(4, 0)}, ink |-> NoInk, pictures |-> ps \cup other, numeric |-> {},
    a4 |-> <<Spot * Cols, Spot * Rows>>, wordRows |-> rows] :
     ws \in SUBSET Grid({3}, 0 .. 2) \cup {Grid({2}, {0})}, rows \in BOOLEAN,
     ps \in AllBut(Stamps, 1), other \in {{}, {SpotsBox(1, 3, 2, 1)}}}

TablePages == StampPages \cup MarginPages \cup (RuledPages(0, Rows - 2) \cup RuledPages(2, Rows - 1))
MCPages == PicturePages \cup (BorderlessPages \cup (ColumnRuledPages \cup TablePages))
=============================================================================
