---------------------------- MODULE PageAssembly ----------------------------
(* One page on its way from recognised words to the exported files: tables *)
(* are detected, the rest is grouped into text blocks and pictures, both   *)
(* become the page's JSON, an editor may merge table rows, and the Excel,  *)
(* Word and searchable PDF exporters read the JSON.                        *)
EXTENDS TableRecovery

CONSTANT Pages   \* the pages tried: words, ink, pictures, numeric, a4, wordRows

(* A shift leaves a word in its spot, pictures do not reach over the edge. *)
InPage(b) == /\ b.x1 \in Nat /\ b.x2 \in b.x1 + 1 .. Spot * Cols
             /\ b.y1 \in Nat /\ b.y2 \in b.y1 + 1 .. Spot * Rows
ASSUME PagesAssumption ==
  \A p \in Pages :
    /\ IsFiniteSet(p.words)
    /\ \A w \in p.words : w.line \in 0 .. Rows - 1 /\ w.col \in 0 .. Cols - 1 /\ w.shift \in 0 .. 11
    /\ p.ink.h \subseteq (0 .. Rows) \X (0 .. Cols - 1)
    /\ p.ink.v \subseteq (0 .. Cols) \X (0 .. Rows - 1)
    /\ p.pictures \subseteq [x1 : Nat, y1 : Nat, x2 : Nat, y2 : Nat]
    /\ IsFiniteSet(p.pictures) /\ \A g \in p.pictures : InPage(g)
    /\ p.wordRows \in BOOLEAN /\ p.a4 \in Nat \X Nat

VARIABLES
  page,      \* the page as recognised
  tables,    \* its detected tables
  blocks,    \* its JSON: text, picture and table blocks
  exports,   \* what the Excel, Word and searchable PDF files hold of it
  stage

vars == <<page, tables, blocks, exports, stage>>

-----------------------------------------------------------------------------
(* Layout                                                                  *)

(* Mutants: the crop forgets pictures; a merged area reaches one row too   *)
(* far.                                                                    *)
BoxesOfWords(p, bs) == {WordBox(w) : w \in p.words}
SpanTooFar(c, rows) == (c.row .. Smaller(c.row + c.rowspan, Len(rows) - 1)) \X (c.column .. c.column + c.colspan - 1)

FreeWords(p, ts) == {w \in p.words : ~\E t \in ts : CenterIn(WordBox(w), t.box)}

LineBox(l, ws) == Hull({WordBox(w) : w \in LineWords(l, ws)})

(* A line goes on with a block when it is close under its last line and    *)
(* shares some of its width.                                               *)
Continues(l, last, ws) ==
  LET a == LineBox(l, ws)  b == LineBox(last, ws)
      common == Larger(0, Smaller(a.x2, b.x2) - Larger(a.x1, b.x1))
  IN /\ 10 * (a.y1 - b.y2) <= 9 * (a.y2 - a.y1)
     /\ 100 * common > 15 * (Larger(a.x2, b.x2) - Smaller(a.x1, b.x1))

TextBlocks(ws) ==
  LET lines == {w.line : w \in ws}
      above(l) == {k \in lines : k < l}
      opens == {l \in lines : above(l) = {} \/ ~Continues(l, Max(above(l)), ws)}
      block(o) == {w \in ws : w.line >= o /\ \A p \in opens : ~(o < p /\ p <= w.line)}
  IN {[kind |-> "text", words |-> block(o), box |-> Hull({WordBox(w) : w \in block(o)})] : o \in opens}

(* A picture counts unless it lies in one that counts; larger ones come    *)
(* first, and of two as large the one the scan of the page meets first.    *)
WithPicture(kept, g) ==
  IF \E k \in kept : OverlapAtLeast(g, k, 60) THEN kept ELSE kept \cup {g}
LargerFirst(g, h) ==
  \/ Area(g) > Area(h)
  \/ /\ Area(g) = Area(h)
     /\ \/ g.y1 < h.y1
        \/ g.y1 = h.y1 /\ (g.x1 < h.x1 \/ (g.x1 = h.x1 /\ g.x2 < h.x2))

(* Small and about as wide as high: a rubber stamp.  A page with more of   *)
(* them than is plausible shows unread digits, and loses them all.         *)
Stamp(g) == LET w == g.x2 - g.x1  h == g.y2 - g.y1
            IN 6 * h <= 10 * w /\ 10 * w <= 16 * h /\ 100 * w < 18 * Spot * Cols
MaxStamps == 8   \* MAX_PLAUSIBLE_STAMPS_PER_PAGE
NoExcessStamps(regions) ==
  LET stamps == {g \in regions : Stamp(g)}
  IN IF Cardinality(stamps) > MaxStamps THEN regions \ stamps ELSE regions

(* Solid regions that are neither specks nor the page, are not taken by a  *)
(* table or text, and are not mostly text; a larger one stands for those   *)
(* in it.                                                                  *)
GraphicRegions(p, excluded) ==
  LET wordsIn(g) == {w \in p.words : CenterIn(WordBox(w), g)}
      pageArea == Spot * Rows * Spot * Cols
      region(g) == /\ 1000 * Area(g) >= 2 * pageArea /\ 100 * Area(g) <= 35 * pageArea
                   /\ ~\E e \in excluded : 2 * Shared(g, e) > Area(g)
                   /\ 100 * 36 * 36 * Cardinality(wordsIn(g)) <= 35 * Area(g)
      found == InOrder(NoExcessStamps({g \in p.pictures : region(g)}), LargerFirst)
      kept[n \in 0 .. Len(found)] ==
        IF n = 0 THEN {} ELSE WithPicture(kept[n - 1], found[n])
  IN kept[Len(found)]

(* Text that lies in a picture is dropped: the picture's pixels show it.   *)
Layout(p, ts) ==
  LET text == TextBlocks(FreeWords(p, ts))
      pictures == GraphicRegions(p, {t.box : t \in ts} \cup {b.box : b \in text})
  IN {b \in text : ~\E g \in pictures : OverlapAtLeast(b.box, g, 60)}
       \cup {[kind |-> "table", box |-> t.box, table |-> t] : t \in ts}
       \cup {[kind |-> "picture", box |-> g] : g \in pictures}

-----------------------------------------------------------------------------
(* Page JSON and the exporters                                             *)

(* Cells by their place, those of one place as the scan met them.          *)
ScannedBefore(p, q) == p[1] < q[1] \/ (p[1] = q[1] /\ p[2] < q[2])
ReadBefore(c, d) ==
  \/ c.row < d.row
  \/ /\ c.row = d.row
     /\ c.column < d.column \/ (c.column = d.column /\ ScannedBefore(c.first, d.first))

(* Only rows in which a cell starts are rows of the JSON.                  *)
JsonRows(cells) ==
  LET starts == Increasing({c.row : c \in cells})
  IN [i \in DOMAIN starts |-> InOrder({c \in cells : c.row = starts[i]}, ReadBefore)]

ToJson(bs) == {IF b.kind = "table" THEN [kind |-> "table", box |-> b.box, rows |-> JsonRows(b.table.cells)]
               ELSE b : b \in bs}

CellsIn(rows) == UNION {Range(rows[i]) : i \in DOMAIN rows}
ColumnCount(rows) == Max({c.column + c.colspan : c \in CellsIn(rows)})
CellsInReach(rows) == InOrder({c \in CellsIn(rows) : c.row < Len(rows)}, ReadBefore)
Place(c) == <<c.row, c.column>>
Span(c, rows) == (c.row .. Smaller(c.row + c.rowspan, Len(rows)) - 1)
                   \X (c.column .. Smaller(c.column + c.colspan, ColumnCount(rows)) - 1)
Put(f, at, ws) == [p \in DOMAIN f \cup {at} |-> IF p = at THEN ws ELSE f[p]]

(* Merging an area clears all but its first cell; writing into the cleared *)
(* part raises, and the table is not indexed.                              *)
SheetCell(s, c, rows) ==
  LET at == Place(c)  area == Span(c, rows) \ {at}
      put == Put(s.text, at, c.words)
  IN IF s.failed \/ at \in s.covered THEN [s EXCEPT !.failed = TRUE]
     ELSE IF area = {} \/ at \in s.merged THEN [s EXCEPT !.text = put]
     ELSE [s EXCEPT !.text = Restrict(put, DOMAIN put \ area),
                    !.covered = @ \cup area, !.merged = @ \cup {at}]
Sheet(rows) ==
  LET cells == CellsInReach(rows)
      sheet[n \in 0 .. Len(cells)] ==
        IF n = 0 THEN [text |-> <<>>, covered |-> {}, merged |-> {}, failed |-> FALSE]
        ELSE SheetCell(sheet[n - 1], cells[n], rows)
  IN sheet[Len(cells)]

(* In Word a cell of a merged area is the area's first cell; a merge takes *)
(* the texts of the area together, and fails when it would cut an earlier  *)
(* one.                                                                    *)
WordCell(d, c, rows) ==
  LET at == Place(c)
      owner == IF at \in DOMAIN d.owner THEN d.owner[at] ELSE at
      put == Put(d.text, owner, c.words)
      area == Span(c, rows)
      cut == \E p \in DOMAIN d.owner : (p \in area) # (d.owner[p] \in area)
      held == UNION {put[p] : p \in area \cap DOMAIN put}
  IN IF d.failed THEN d
     ELSE IF Cardinality(area) = 1 THEN [d EXCEPT !.text = put]
     ELSE IF cut THEN [d EXCEPT !.text = put, !.failed = TRUE]
     ELSE [d EXCEPT !.text = Put(Restrict(put, DOMAIN put \ area), at, held),
                    !.owner = [p \in DOMAIN @ \cup area |-> IF p \in area THEN at ELSE @[p]]]
WordTable(rows) ==
  LET cells == CellsInReach(rows)
      document[n \in 0 .. Len(cells)] ==
        IF n = 0 THEN [text |-> <<>>, owner |-> <<>>, failed |-> FALSE]
        ELSE WordCell(document[n - 1], cells[n], rows)
  IN document[Len(cells)]

(* The invisible text of the searchable PDF: the recognised words or, when *)
(* their rows are missing, the texts of the JSON at their block or cell.   *)
LayerWords(p, bs) ==
  LET texts == {b \in bs : b.kind = "text"}
      cells == UNION {CellsIn(b.rows) : b \in {b \in bs : b.kind = "table"}}
  IN IF p.wordRows THEN {[word |-> w, box |-> WordBox(w)] : w \in p.words}
     ELSE (UNION {{[word |-> w, box |-> b.box] : w \in b.words} : b \in texts})
            \cup (UNION {{[word |-> w, box |-> c.box] : w \in c.words} : c \in cells})

ContentBoxes(p, bs) == {l.box : l \in LayerWords(p, bs)} \cup {b.box : b \in {b \in bs : b.kind = "picture"}}

(* The page is cropped to its words and pictures, unless they cover less   *)
(* than a tenth of its width or height.                                    *)
Margin == 15
Crop(p, bs) ==
  LET full == Box(0, 0, Spot * Cols, Spot * Rows)
      boxes == ContentBoxes(p, bs)
      b == Hull(boxes)
      cropped == Box(Larger(0, b.x1 - Margin), Larger(0, b.y1 - Margin),
                     Smaller(full.x2, b.x2 + Margin), Smaller(full.y2, b.y2 + Margin))
  IN IF boxes = {} THEN full
     ELSE IF \/ 10 * (cropped.x2 - cropped.x1) < full.x2
             \/ 10 * (cropped.y2 - cropped.y1) < full.y2 THEN full
     ELSE cropped

(* Words are clipped to the crop, and left out when nothing remains.       *)
TextLayer(p, bs) == {l.word : l \in {l \in LayerWords(p, bs) : Shared(l.box, Crop(p, bs)) > 0}}

-----------------------------------------------------------------------------
NotYet == {}

Init ==
  /\ page \in Pages
  /\ tables = NotYet /\ blocks = NotYet /\ exports = NotYet
  /\ stage = "recognized"

DetectTables ==
  /\ stage = "recognized"
  /\ \E ruled \in {RuledTables(page)} : tables' = ruled \cup UnruledTables(page, ruled)
  /\ stage' = "tables"
  /\ UNCHANGED <<page, blocks, exports>>

BuildPageJson ==
  /\ stage = "tables"
  /\ blocks' = ToJson(Layout(page, tables))
  /\ stage' = "built"
  /\ UNCHANGED <<page, tables, exports>>

(* The editor merges all cells of two rows: the first one takes the area   *)
(* and the texts, the others are deleted, and the JSON rows are rebuilt.   *)
Merged(cells) ==
  LET r0 == Min({c.row : c \in cells})  r1 == Max({c.row + c.rowspan : c \in cells})
      c0 == Min({c.column : c \in cells})  c1 == Max({c.column + c.colspan : c \in cells})
      anchor == InOrder(cells, ReadBefore)[1]
  IN [anchor EXCEPT !.row = r0, !.column = c0, !.rowspan = r1 - r0, !.colspan = c1 - c0,
                    !.words = UNION {c.words : c \in cells}]

MergeRows(b, r) ==
  LET cells == CellsIn(b.rows)
      chosen == {c \in cells : c.row \in {r, r + 1}}
  IN /\ stage = "built" /\ Cardinality(chosen) > 1
     /\ blocks' = (blocks \ {b}) \cup {[b EXCEPT !.rows = JsonRows((cells \ chosen) \cup {Merged(chosen)})]}
     /\ stage' = "edited"
     /\ UNCHANGED <<page, tables, exports>>

Export ==
  /\ stage \in {"built", "edited"}
  /\ exports' = [xlsx |-> [b \in {b \in blocks : b.kind = "table"} |-> Sheet(b.rows)],
                 docx |-> [b \in {b \in blocks : b.kind = "table"} |-> WordTable(b.rows)],
                 searchable |-> [crop |-> Crop(page, blocks), words |-> TextLayer(page, blocks)]]
  /\ stage' = "exported"
  /\ UNCHANGED <<page, tables, blocks>>

Next ==
  \/ DetectTables \/ BuildPageJson \/ Export
  \/ \E b \in {b \in blocks : b.kind = "table"}, r \in 0 .. Rows : MergeRows(b, r)

Spec == Init /\ [][Next]_vars

-----------------------------------------------------------------------------
(* Properties                                                              *)

TableBlocks == {b \in blocks : b.kind = "table"}
CellsOf(b) == CellsIn(b.rows)
SpotsOf(c) == (c.row .. c.row + c.rowspan - 1) \X (c.column .. c.column + c.colspan - 1)
Disjoint(cells) == \A c, d \in cells : c # d => SpotsOf(c) \cap SpotsOf(d) = {}

(* Cells of tables, detected or in the page's JSON, start in a row and a    *)
(* column, span at least one, and lie in the page.                         *)
TypeOK ==
  /\ stage \in {"recognized", "tables", "built", "edited", "exported"}
  /\ IsFiniteSet(tables) /\ IsFiniteSet(blocks)
  /\ \A b \in blocks : b.kind \in {"text", "table", "picture"}
  /\ \A c \in UNION ({t.cells : t \in tables} \cup {CellsOf(b) : b \in TableBlocks}) :
       /\ c.row \in Nat /\ c.column \in Nat /\ c.rowspan \in Nat \ {0} /\ c.colspan \in Nat \ {0}
       /\ InPage(c.box)

TextOf(w) == {b \in blocks : b.kind = "text" /\ w \in b.words}
CellsWith(w) == UNION {{<<b.box, c>> : c \in {c \in CellsOf(b) : w \in c.words}} : b \in TableBlocks}
Pictured(w) == \E b \in blocks : b.kind = "picture" /\ CenterIn(WordBox(w), b.box)

(* The words the code is known to give up: in the place of a table without *)
(* rules, those of a line too short to be a row and those left of the      *)
(* first column; and the rest of a text that mostly lies in a picture.     *)
InRuled(w) == \E t \in tables : t.method = "opencv_lines" /\ CenterIn(WordBox(w), t.box)
ShortLine(w) ==
  LET others == {v \in page.words : ~InRuled(v)}
  IN \E t \in tables : /\ t.method = "ocr_fallback" /\ CenterIn(WordBox(w), t.box)
                       /\ \/ Cardinality(LineWords(w.line, others)) < MinCols
                          \/ \A c \in t.cells : WordBox(w).x1 < c.box.x1 - 5
TextOfPicture(w) ==
  \E b \in TextBlocks(FreeWords(page, tables)) :
    w \in b.words /\ \E g \in blocks : g.kind = "picture" /\ OverlapAtLeast(b.box, g.box, 60)

(* A table whose cells reach beyond A4 was scaled down, and no longer       *)
(* stands where its cells are: a word that only its new place covers        *)
(* belongs to no cell of it, and a word of a cell outside the new place is  *)
(* free to be used again.                                                   *)
CellsBox(t) == Hull({c.box : c \in t.cells})
Oversized(t) == CellsBox(t).x2 > page.a4[1] \/ CellsBox(t).y2 > page.a4[2]
Stranded(w) ==
  \E t \in tables : /\ Oversized(t) /\ CenterIn(WordBox(w), t.box)
                    /\ ~CenterIn(WordBox(w), CellsBox(t))
Outgrown(w) ==
  \E t \in tables : /\ Oversized(t) /\ ~CenterIn(WordBox(w), t.box)
                    /\ \E c \in t.cells : w \in c.words

OnAnEdge(w) ==
  \E b \in TableBlocks : \E c \in CellsOf(b) :
    /\ w \in c.words
    /\ \/ WordBox(w).x1 + WordBox(w).x2 \in {2 * c.box.x1, 2 * c.box.x2}
       \/ WordBox(w).y1 + WordBox(w).y2 \in {2 * c.box.y1, 2 * c.box.y2}

(* Every word is in a cell or available to the paragraph grouper, never    *)
(* neither (tables/opencv_engine.py), but for the words known to be given   *)
(* up and those stranded by the scaling of a table to A4; and no word is    *)
(* shown twice, as a cell and as text or in two cells, unless missing rules *)
(* left cells that overlap, an edge between two cells runs through its      *)
(* middle, or its table was scaled away from it.                            *)
EachWordOnce ==
  stage = "built" =>
    \A w \in page.words :
      /\ \/ CellsWith(w) # {} \/ TextOf(w) # {} \/ Pictured(w)
         \/ ShortLine(w) \/ TextOfPicture(w) \/ Stranded(w)
      /\ (\A b \in TableBlocks : Disjoint(CellsOf(b))) /\ ~OnAnEdge(w) /\ ~Outgrown(w)
           => Cardinality(CellsWith(w)) + Cardinality(TextOf(w)) <= 1

(* Where only the columns and perhaps a frame around the text are ruled,   *)
(* values of three or more lines never share a cell: the defect the text   *)
(* boundaries were added against.  The boundaries of lines of very uneven  *)
(* distances are merged, so no distance is a quarter more than another.    *)
UnruledRowsStayApart ==
  LET inside == {w \in page.words : Overlaps(WordBox(w), Region(page.ink))}
      lines == {w.line : w \in inside}
      apart(p) == p[2] - p[1]
  IN \A t \in tables :
       /\ t.method = "opencv_lines" /\ Cardinality(lines) > 2
       /\ Cardinality({s[1] : s \in page.ink.h}) <= 2
       /\ \A s \in page.ink.h : s[1] <= Min(lines) \/ s[1] > Max(lines)
       /\ \A p, q \in Neighbours(lines) : 4 * apart(p) <= 5 * apart(q)
       => \A c \in t.cells : Cardinality({w.line : w \in c.words}) <= 1

(* When the cells do not overlap and each row starts one, both exports     *)
(* hold exactly the words of each cell at its place.                       *)
ExportsHoldTables ==
  stage = "exported" =>
    \A b \in TableBlocks :
      LET cells == CellsOf(b)
          held == [p \in {<<c.row, c.column>> : c \in cells} |->
                     (CHOOSE c \in cells : p = <<c.row, c.column>>).words]
      IN Disjoint(cells) /\ {c.row : c \in cells} = 0 .. Len(b.rows) - 1
           => /\ exports.xlsx[b].text = held /\ ~exports.xlsx[b].failed
              /\ exports.docx[b].text = held /\ ~exports.docx[b].failed

(* The page of the searchable PDF shows every text and picture that was    *)
(* kept and all that is written in a table, though not always the table's  *)
(* empty rows and columns or its rules, which the crop does not look at;   *)
(* and every word it shows can be found.                                   *)
SearchableHoldsPage ==
  stage = "exported" =>
    LET crop == exports.searchable.crop
        within(b) == /\ crop.x1 <= b.x1 /\ b.x2 <= crop.x2 /\ crop.y1 <= b.y1 /\ b.y2 <= crop.y2
    IN /\ \A b \in blocks : b.kind # "table" => within(b.box)
       /\ \A b \in TableBlocks : \A c \in CellsOf(b) : \A w \in c.words :
            within(IF page.wordRows THEN WordBox(w) ELSE c.box)
       /\ \A w \in page.words : CellsWith(w) # {} \/ TextOf(w) # {} => w \in exports.searchable.words
=============================================================================
