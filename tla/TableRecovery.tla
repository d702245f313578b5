--------------------------- MODULE TableRecovery ---------------------------
(* How tables are recovered from one page: from the ruling lines seen in   *)
(* the image, completed by the rows and columns the text falls into, and   *)
(* from the text alone where nothing is ruled.  Pure functions of a page.  *)
(*                                                                         *)
(* A page is a grid of spots, Spot pixels wide and high, with at most one  *)
(* word in the middle of each.  Words of one spot row form a line of text, *)
(* far enough from the next for every clustering threshold of the code;    *)
(* words of one column start at the same x unless they are shifted by more *)
(* than its tolerances.  Ink is a set of ruling-line segments, one spot    *)
(* long and two pixels thick, and is one connected component.              *)
EXTENDS Integers, Sequences, FiniteSets, FiniteSetsExt, SequencesExt

CONSTANTS Rows, Cols   \* spots of a page, down and across

ASSUME SpotsAssumption == Rows \in Nat \ {0} /\ Cols \in Nat \ {0}

Spot == 60
Box(x1, y1, x2, y2) == [x1 |-> x1, y1 |-> y1, x2 |-> x2, y2 |-> y2]
Larger(a, b) == IF a > b THEN a ELSE b
Smaller(a, b) == IF a < b THEN a ELSE b
Distance(a, b) == IF a > b THEN a - b ELSE b - a

(* A word: the line and column of its spot, and how far it is indented.    *)
WordBox(w) == Box(Spot * w.col + 12 + w.shift, Spot * w.line + 12,
                  Spot * w.col + 48 + w.shift, Spot * w.line + 48)

Hull(boxes) == Box(Min({b.x1 : b \in boxes}), Min({b.y1 : b \in boxes}),
                   Max({b.x2 : b \in boxes}), Max({b.y2 : b \in boxes}))
CenterAcross(b, c) == 2 * c.x1 <= b.x1 + b.x2 /\ b.x1 + b.x2 <= 2 * c.x2
CenterDown(b, c) == 2 * c.y1 <= b.y1 + b.y2 /\ b.y1 + b.y2 <= 2 * c.y2
CenterIn(b, c) == CenterAcross(b, c) /\ CenterDown(b, c)
Area(b) == Larger(1, (b.x2 - b.x1) * (b.y2 - b.y1))
Shared(a, b) == Larger(0, Smaller(a.x2, b.x2) - Larger(a.x1, b.x1))
                  * Larger(0, Smaller(a.y2, b.y2) - Larger(a.y1, b.y1))

(* The part of a that lies in b, in percent, reaches a threshold.          *)
OverlapAtLeast(a, b, percent) == 100 * Shared(a, b) >= percent * Area(a)
Overlaps(a, b) == Shared(a, b) > 0 /\ OverlapAtLeast(a, b, 30)

NoTable == [method |-> "none"]

(* The elements of S, each after those that are before it.                 *)
InOrder(S, Before(_, _)) ==
  [i \in 1 .. Cardinality(S) |-> CHOOSE x \in S : Cardinality({y \in S : Before(y, x)}) = i - 1]
Increasing(S) == InOrder(S, <)

-----------------------------------------------------------------------------
(* Ruled tables                                                            *)

(* The region of the ruling lines, with the slack the dilation leaves.     *)
Region(ink) ==
  LET h == {Box(Spot * s[2], Spot * s[1], Spot * s[2] + Spot, Spot * s[1]) : s \in ink.h}
      v == {Box(Spot * s[1], Spot * s[2], Spot * s[1], Spot * s[2] + Spot) : s \in ink.v}
      b == Hull(h \cup v)
  IN Box(Larger(0, b.x1 - 14), Larger(0, b.y1 - 14),
         Smaller(Spot * Cols, b.x2 + 14), Smaller(Spot * Rows, b.y2 + 14))

(* Positions closer than gap to the next one are one boundary, their mean. *)
ClusterPositions(S, gap) ==
  LET starts == {p \in S : \A q \in S : ~(q < p /\ p - q <= gap)}
      cluster(p) == {q \in S : q >= p /\ \A s \in starts : ~(p < s /\ s <= q)}
      mean(c) == (2 * SumSet(c) + Cardinality(c)) \div (2 * Cardinality(c))
  IN {mean(cluster(p)) : p \in starts}

(* Boundaries with ink along more than 40% of what the longest has.        *)
Ruled(segments, n) ==
  LET length(k) == Cardinality({s \in segments : s[1] = k})
      longest == Max({length(k) : k \in 0 .. n})
  IN {Spot * k : k \in {k \in 0 .. n : 10 * length(k) > 4 * longest}}

Next1(S, x) == Min({y \in S : y > x})
Neighbours(S) == {<<x, Next1(S, x)>> : x \in S \ {Max(S)}}

(* Between two lines of text, and above the first and below the last one.  *)
RowTextBounds(ws) ==
  LET lines == {w.line : w \in ws}
      mid(p) == (Spot * p[1] + 48 + Spot * p[2] + 12) \div 2
  IN IF Cardinality(lines) < 2 THEN {}
     ELSE {Spot * Min(lines) + 12, Spot * Max(lines) + 48} \cup {mid(p) : p \in Neighbours(lines)}

(* A column is trusted when three quarters of at least four lines start a  *)
(* word there.                                                             *)
ColumnTextBounds(ws) ==
  LET lines == {w.line : w \in ws}
      starts == {WordBox(w).x1 : w \in ws}
      hits(x) == Cardinality({l \in lines : \E w \in ws : w.line = l /\ WordBox(w).x1 = x})
      good == {x \in starts : hits(x) >= Larger(3, (75 * Cardinality(lines)) \div 100)}
      mid(p) == (p[1] + p[2]) \div 2
  IN IF Cardinality(lines) < 4 \/ Cardinality(good) < 2 THEN {}
     ELSE {Min(good), Max({WordBox(w).x2 : w \in ws})} \cup {mid(p) : p \in Neighbours(good)}

(* Mutants: text boundaries that are no separators; a table as large as    *)
(* its region.                                                             *)
SupplementUnforced(lineBounds, textBounds) ==
  [bounds |-> ClusterPositions(lineBounds \cup textBounds, 8), forced |-> {}]
WholeRegion(x, y, ink) == Region(ink)

(* The table takes the place its cells cover, and no more.                 *)
TableBox(x, y, ink) == Box(x[1], y[1], x[Len(x)], y[Len(y)])

(* When the text falls into at least two bands more than the lines show,   *)
(* both sets of boundaries are merged.  A boundary that no line backs is a *)
(* separator by itself.                                                    *)
Bands(S) == Larger(0, Cardinality(S) - 1)
TypicalGap(all) ==
  LET starts == all \ {Max(all)}
      gap(p) == Next1(all, p) - p
      upTo(g) == {p \in starts : gap(p) <= g}
  IN Min({g \in {gap(p) : p \in starts} : 2 * Cardinality(upTo(g)) > Cardinality(starts)})
MergeGap(all) == Larger(8, (4 * TypicalGap(all)) \div 10)
Supplement(lineBounds, textBounds) ==
  LET all == lineBounds \cup textBounds
      mergeGap == MergeGap(all)
      final == ClusterPositions(all, mergeGap)
  IN IF Bands(textBounds) <= Bands(lineBounds) + 1
     THEN [bounds |-> lineBounds, forced |-> {}]
     ELSE [bounds |-> final,
           forced |-> {b \in final : \A l \in lineBounds : Distance(b, l) > mergeGap}]

(* Ink within three pixels of the boundary, along a third of the span.     *)
LinePresent(segments, at, from, to) ==
  LET near == {s \in segments : Distance(Spot * s[1], at) <= 3}
      inked(s) == Larger(0, Smaller(Spot * s[2] + Spot, to) - Larger(Spot * s[2], from))
  IN to > from /\ 100 * MapThenSumSet(inked, near) >= 33 * (to - from)

(* The base cells united with p: those reached over missing separators.    *)
Reached(known, adjacent) ==
  known \cup {e[2] : e \in {e \in adjacent : e[1] \in known}}
        \cup {e[1] : e \in {e \in adjacent : e[2] \in known}}
United(p, adjacent) ==
  LET grow[n \in 0 .. Cardinality(adjacent)] ==
        IF n = 0 THEN {p} ELSE Reached(grow[n - 1], adjacent)
  IN grow[Cardinality(adjacent)]

(* The base cell of a group that the scan of the grid meets first.         *)
FirstOf(g) == CHOOSE p \in g : \A q \in g : p[1] < q[1] \/ (p[1] = q[1] /\ p[2] <= q[2])

CellWords(ws, box) == {w \in ws : CenterIn(WordBox(w), box)}

(* The boundaries of rows and columns, and those that no line backs.  Words *)
(* centred outside the region suggest none; the others lie in it, so that  *)
(* nothing needs to be clipped.                                            *)
Boundaries(ink, ws) ==
  LET down == {w \in ws : CenterDown(WordBox(w), Region(ink))}
      across == {w \in ws : CenterAcross(WordBox(w), Region(ink))}
      rows == Supplement(Ruled(ink.h, Rows), RowTextBounds(down))
      cols == Supplement(Ruled(ink.v, Cols), ColumnTextBounds(across))
  IN [y |-> Increasing(rows.bounds), x |-> Increasing(cols.bounds),
      forcedY |-> rows.forced, forcedX |-> cols.forced]

(* Base cells side by side or one below the other, with nothing between.   *)
BaseCells(grid) == (1 .. Len(grid.y) - 1) \X (1 .. Len(grid.x) - 1)
Unseparated(grid, ink) ==
  LET y == grid.y
      x == grid.x
      base == BaseCells(grid)
      beside == {e \in base \X base :
                   /\ e[2] = <<e[1][1], e[1][2] + 1>>
                   /\ x[e[2][2]] \notin grid.forcedX
                   /\ ~LinePresent(ink.v, x[e[2][2]], y[e[1][1]], y[e[1][1] + 1])}
      below == {e \in base \X base :
                  /\ e[2] = <<e[1][1] + 1, e[1][2]>>
                  /\ y[e[2][1]] \notin grid.forcedY
                  /\ ~LinePresent(ink.h, y[e[2][1]], x[e[1][2]], x[e[1][2] + 1])}
  IN beside \cup below

CellOf(g, grid, ws) ==
  LET r0 == Min({p[1] : p \in g})  r1 == Max({p[1] : p \in g})
      c0 == Min({p[2] : p \in g})  c1 == Max({p[2] : p \in g})
      box == Box(grid.x[c0], grid.y[r0], grid.x[c1 + 1], grid.y[r1 + 1])
  IN [row |-> r0 - 1, column |-> c0 - 1, rowspan |-> r1 - r0 + 1, colspan |-> c1 - c0 + 1,
      box |-> box, words |-> CellWords(ws, box), first |-> FirstOf(g)]

MaxBaseCells == 2000
Structure(grid, ink, ws) ==
  LET adjacent == Unseparated(grid, ink)
      groups == {United(p, adjacent) : p \in BaseCells(grid)}
      cells == {CellOf(g, grid, ws) : g \in groups}
  IN IF \/ Len(grid.y) < 2 \/ Len(grid.x) < 2
        \/ (Len(grid.y) - 1) * (Len(grid.x) - 1) > MaxBaseCells THEN NoTable
     ELSE IF 100 * Cardinality({g \in groups : CellOf(g, grid, ws).words # {}}) < 35 * Cardinality(groups)
     THEN NoTable
     ELSE [method |-> "opencv_lines", cells |-> cells, box |-> TableBox(grid.x, grid.y, ink)]

-----------------------------------------------------------------------------
(* Tables without rules                                                    *)

MinRows == 4
MinCols == 3
LineWords(l, ws) == {w \in ws : w.line = l}

(* Lines with fewer words than a table has columns take no part.           *)
TableRows(ws) == {l \in {w.line : w \in ws} : Cardinality(LineWords(l, ws)) >= MinCols}

(* x-positions at which nearly every row starts a word.                    *)
SharedBands(rows, ws) ==
  LET inRows == {w \in ws : w.line \in rows}
      hits(x) == Cardinality({l \in rows : \E w \in LineWords(l, ws) : WordBox(w).x1 = x})
  IN {x \in {WordBox(w).x1 : w \in inRows} :
        hits(x) >= Larger(2, (85 * Cardinality(rows)) \div 100)}

HasNumericColumn(rows, bands, ws, numeric) ==
  \E x \in bands :
    LET at(l) == {w \in LineWords(l, ws) : WordBox(w).x1 = x}
        hits == {l \in rows : at(l) # {}}
    IN /\ Cardinality(hits) >= Larger(2, (6 * Cardinality(rows)) \div 10)
       /\ 10 * Cardinality({l \in hits : at(l) \subseteq numeric}) >= 6 * Cardinality(hits)

(* Rows are taken in as long as enough bands remain shared.                *)
Runs(ws) ==
  LET order == Increasing(TableRows(ws))
      n == Len(order)
      part(i, j) == {order[k] : k \in i .. j}
      end(i) == Max({j \in i .. n : \A k \in i + 1 .. j :
                       Cardinality(SharedBands(part(i, k), ws)) >= MinCols})
      starts[i \in 1 .. n] == i = 1 \/ \E k \in 1 .. i - 1 : starts[k] /\ end(k) + 1 = i
  IN IF n < MinRows THEN {} ELSE {part(i, end(i)) : i \in {i \in 1 .. n : starts[i]}}

(* A cell takes the words of its row from its band up to the next one.     *)
FromRows(rows, bands, ws) ==
  LET line == Increasing(rows)
      left == Increasing(bands)
      all == {w \in ws : w.line \in rows}
      hull == Hull({WordBox(w) : w \in all})
      right(c) == IF c = Len(left) THEN hull.x2 + 1 ELSE left[c + 1]
      cell(r, c) ==
        [row |-> r - 1, column |-> c - 1, rowspan |-> 1, colspan |-> 1, first |-> <<r, c>>,
         box |-> Box(left[c], Spot * line[r] + 12, right(c), Spot * line[r] + 48),
         words |-> {w \in LineWords(line[r], ws) : left[c] - 5 <= WordBox(w).x1
                                                      /\ WordBox(w).x1 < right(c) - 5}]
  IN [method |-> "ocr_fallback", box |-> hull,
      cells |-> {cell(r, c) : r \in DOMAIN line, c \in DOMAIN left}]

BorderlessTables(ws, numeric) ==
  {FromRows(rows, SharedBands(rows, ws), ws) :
     rows \in {rows \in Runs(ws) :
       LET bands == SharedBands(rows, ws)
       IN /\ Cardinality(rows) >= MinRows /\ Cardinality(bands) >= MinCols
          /\ HasNumericColumn(rows, bands, ws, numeric)}}

-----------------------------------------------------------------------------
(* Both, without detecting a table twice                                   *)

(* A box that reaches beyond A4, taken in points, is scaled down; the      *)
(* cells keep their places in pixels.                                      *)
ClampToA4(t, a4) ==
  LET b == t.box
      byWidth == a4[1] * b.y2 <= a4[2] * b.x2
      scaled(v) == IF byWidth THEN (v * a4[1]) \div b.x2 ELSE (v * a4[2]) \div b.y2
  IN IF b.x2 <= a4[1] /\ b.y2 <= a4[2] THEN t
     ELSE [t EXCEPT !.box = Box(scaled(b.x1), scaled(b.y1),
                                Smaller(a4[1], scaled(b.x2)), Smaller(a4[2], scaled(b.y2)))]

RuledTables(page) ==
  LET inside == {w \in page.words : Overlaps(WordBox(w), Region(page.ink))}
      found == {Structure(grid, page.ink, inside) : grid \in {Boundaries(page.ink, inside)}}
  IN IF page.ink.h \cup page.ink.v = {} THEN {}
     ELSE {ClampToA4(t, page.a4) : t \in found \ {NoTable}}

(* What the text shows besides the ruled tables.                           *)
UnruledTables(page, ruled) ==
  LET claimed(t) == \E u \in ruled : Overlaps(t.box, u.box)
      rest == {w \in page.words : ~\E u \in ruled : CenterIn(WordBox(w), u.box)}
      plain == {t \in BorderlessTables(rest, page.numeric) : ~claimed(t)}
  IN {t \in {ClampToA4(t, page.a4) : t \in plain} : ~claimed(t)}
=============================================================================
