-------------------------- MODULE TableEditsProofs --------------------------
(***************************************************************************)
(* Proofs about TableEdits, for any tables, handlers and numbers of edits: *)
(* what edits keep of the text in the rows and of the shape of the grid,   *)
(* and that the page JSON follows the rows.                                *)
(***************************************************************************)
EXTENDS TableEdits, FiniteSetTheorems, WellFoundedInduction, TLAPS

-----------------------------------------------------------------------------
(* Finite sets                                                             *)

(* A finite set of numbers has a least and a greatest element: a smallest  *)
(* set without them would leave, after losing an element, a smaller one.   *)
LEMMA Extremes ==
    ASSUME NEW S \in SUBSET Int, IsFiniteSet(S), S # {}
    PROVE  /\ Min(S) \in S /\ \A y \in S : Min(S) <= y
           /\ Max(S) \in S /\ \A y \in S : Max(S) >= y
<1> DEFINE Has(T) == \E l, m \in T : \A y \in T : l <= y /\ m >= y
           Bad == {T \in FiniteSubsetsOf(S) : T # {} /\ ~Has(T)}
<1>1. Bad = {}
  <2> SUFFICES ASSUME Bad # {}  PROVE FALSE
    OBVIOUS
  <2>1. PICK T \in Bad : \A U \in Bad : <<U, T>> \notin StrictSubsetOrdering(S)
    <3>1. Bad \subseteq FiniteSubsetsOf(S)
      OBVIOUS
    <3> HIDE DEF Bad
    <3> QED
      BY <3>1, FS_StrictSubsetOrderingWellFounded, WFMin
  <2>2. PICK x \in T : x \in Int
    BY DEF FiniteSubsetsOf
  <2>3. T \ {x} \in FiniteSubsetsOf(S) /\ T \subseteq S
    BY FS_RemoveElement DEF FiniteSubsetsOf
  <2>4. <<T \ {x}, T>> \in StrictSubsetOrdering(S)
    BY <2>2, <2>3 DEF StrictSubsetOrdering
  <2>5. CASE T \ {x} = {}
    BY <2>1, <2>2, <2>5
  <2>6. CASE Has(T \ {x})
    <3>1. PICK l \in T \ {x}, m \in T \ {x} : \A y \in T \ {x} : l <= y /\ m >= y
      BY <2>6
    <3>2. l \in Int /\ m \in Int /\ \A y \in T : y \in Int
      BY <2>3
    <3>3. \E u \in T : \A y \in T : u <= y
      BY <2>2, <3>1, <3>2
    <3>4. \E v \in T : \A y \in T : v >= y
      BY <2>2, <3>1, <3>2
    <3> QED
      BY <2>1, <3>3, <3>4
  <2> QED
    BY <2>1, <2>3, <2>4, <2>5, <2>6
<1>2. Has(S)
  BY <1>1 DEF FiniteSubsetsOf
<1> QED
  BY <1>2 DEF Min, Max

LEMMA FiniteImage ==
    ASSUME NEW f, IsFiniteSet(DOMAIN f)
    PROVE  IsFiniteSet({f[x] : x \in DOMAIN f})
<1> DEFINE T == {f[x] : x \in DOMAIN f}
           g == [x \in DOMAIN f |-> f[x]]
<1>1. g \in Surjection(DOMAIN f, T)
  BY DEF Surjection
<1> QED
  BY <1>1, FS_Surjection

(* The names of the cells of a new row or column.                          *)
LEMMA NewNames ==
    ASSUME NEW k \in Int, NEW n \in Nat
    PROVE  IsFiniteSet({<<k, c>> : c \in 0 .. n - 1}) /\ {<<k, c>> : c \in 0 .. n - 1} \subseteq Name
<1> DEFINE f == [c \in 0 .. n - 1 |-> <<k, c>>]
<1>1. IsFiniteSet({f[c] : c \in DOMAIN f})
  <2>1. IsFiniteSet(DOMAIN f)
    BY FS_Interval
  <2> HIDE DEF f
  <2> QED
    BY <2>1, FiniteImage
<1>2. {f[c] : c \in DOMAIN f} = {<<k, c>> : c \in 0 .. n - 1}
  OBVIOUS
<1> QED
  BY <1>1, <1>2 DEF Name

-----------------------------------------------------------------------------
(* The edits as functions of a table                                       *)

(* From g to g2 cells that stay keep their text; only names of k are new.  *)
KeepsText(g, g2, k) ==
    \A i \in DOMAIN g2.cells :
       IF i \in DOMAIN g.cells THEN g2.cells[i].text = g.cells[i].text ELSE i[1] = k

LEMMA RowAdded ==
    ASSUME NEW g, IsGrid(g), NEW at \in Int,
           NEW k \in Int, \A i \in DOMAIN g.cells : i[1] # k
    PROVE  LET g2 == AddRow(g, at, k)
           IN /\ IsGrid(g2) /\ KeepsText(g, g2, k)
              /\ Sound(g) /\ at \in 0 .. g.n_rows => Sound(g2)
<1> DEFINE n == g.n_cols
           old == g.cells
           N == {<<k, c>> : c \in 0 .. n - 1}
           moved == [i \in DOMAIN old |->
                       IF old[i].row >= at THEN [old[i] EXCEPT !.row = @ + 1] ELSE old[i]]
           new == [i \in N |-> NewCell(at, i[2])]
           g2 == AddRow(g, at, k)
<1>0. /\ g.n_rows \in Nat \ {0} /\ n \in Nat \ {0} /\ g.heights \in Nat
      /\ DOMAIN old \subseteq Name /\ IsFiniteSet(DOMAIN old)
      /\ old \in [DOMAIN old -> Cell]
  BY DEF IsGrid
<1>1. IsFiniteSet(N) /\ N \subseteq Name
  <2> n \in Nat
    BY <1>0
  <2> HIDE DEF n
  <2> QED
    BY NewNames
<1>2. \A i \in N : i[1] = k /\ i[2] \in Nat /\ i[2] < n /\ i = <<k, i[2]>>
  BY <1>0
<1>3. /\ g2.n_rows = g.n_rows + 1 /\ g2.n_cols = n /\ g2.heights = g.heights + 1
      /\ g2.cells = Added(moved, new)
      /\ DOMAIN g2 = DOMAIN g /\ g2 = [f \in DOMAIN g |-> g2[f]]
  BY DEF AddRow, IsGrid
<1>4. \A i \in DOMAIN old :
         /\ moved[i] \in Cell
         /\ moved[i].text = old[i].text /\ moved[i].column = old[i].column
         /\ moved[i].row = IF old[i].row >= at THEN old[i].row + 1 ELSE old[i].row
  BY <1>0 DEF Cell
<1>5. \A i \in N : new[i] \in Cell /\ new[i].row = at /\ new[i].column = i[2]
  <2> HIDE DEF N
  <2> QED
    BY <1>2 DEF NewCell, Cell
<1>6. /\ DOMAIN g2.cells = DOMAIN old \cup N /\ N \cap DOMAIN old = {}
      /\ \A i \in DOMAIN old : g2.cells[i] = moved[i]
      /\ \A i \in N : g2.cells[i] = new[i]
      /\ g2.cells \in [DOMAIN old \cup N -> Cell]
  <2>1. N \cap DOMAIN old = {} /\ DOMAIN new = N /\ DOMAIN moved = DOMAIN old
    BY <1>2
  <2> HIDE DEF N, moved, new, g2, old
  <2> QED
    BY <1>3, <1>4, <1>5, <2>1 DEF Added
<1> HIDE DEF N, g2, moved, new, n, old
<1>7. IsGrid(g2)
  <2>1. IsFiniteSet(DOMAIN old \cup N)
    BY <1>0, <1>1, FS_Union
  <2> QED
    BY <1>0, <1>1, <1>3, <1>6, <2>1 DEF IsGrid, n
<1>8. KeepsText(g, g2, k)
  BY <1>2, <1>4, <1>6 DEF KeepsText, old
<1>9. ASSUME Sound(g), at \in 0 .. g.n_rows  PROVE Sound(g2)
  <2>0. /\ at \in Nat /\ at <= g.n_rows
        /\ \A i \in DOMAIN old : old[i].row \in Nat /\ old[i].column \in Nat
        /\ \A i \in DOMAIN old : old[i].row < g.n_rows /\ old[i].column < n
        /\ \A i, j \in DOMAIN old : old[i].row = old[j].row /\ old[i].column = old[j].column => i = j
    BY <1>0, <1>9 DEF Sound, old, n, Cell
  <2>1. g2.heights = g2.n_rows /\ g2.n_rows = g.n_rows + 1 /\ g2.n_cols = n
    BY <1>3, <1>9 DEF Sound
  <2>2. \A i \in DOMAIN g2.cells : /\ g2.cells[i].row \in 0 .. g2.n_rows - 1
                                   /\ g2.cells[i].column \in 0 .. g2.n_cols - 1
    BY <1>0, <1>2, <1>4, <1>5, <1>6, <2>0, <2>1
  <2>3. \A i \in N, j \in DOMAIN old : g2.cells[i].row # g2.cells[j].row
    BY <1>4, <1>5, <1>6, <2>0
  <2>4. \A i, j \in N : g2.cells[i].column = g2.cells[j].column => i = j
    BY <1>2, <1>5, <1>6
  <2>5. \A i, j \in DOMAIN old :
           g2.cells[i].row = g2.cells[j].row /\ g2.cells[i].column = g2.cells[j].column => i = j
    BY <1>4, <1>6, <2>0
  <2> QED
    BY <1>6, <2>1, <2>2, <2>3, <2>4, <2>5 DEF Sound
<1> QED
  BY <1>7, <1>8, <1>9 DEF g2

LEMMA ColumnAdded ==
    ASSUME NEW g, IsGrid(g), NEW at \in Int,
           NEW k \in Int, \A i \in DOMAIN g.cells : i[1] # k
    PROVE  LET g2 == AddColumn(g, at, k)
           IN /\ IsGrid(g2) /\ KeepsText(g, g2, k)
              /\ Sound(g) /\ at \in 0 .. g.n_cols => Sound(g2)
<1> DEFINE n == g.n_rows
           old == g.cells
           N == {<<k, c>> : c \in 0 .. n - 1}
           moved == [i \in DOMAIN old |->
                       IF old[i].column >= at THEN [old[i] EXCEPT !.column = @ + 1] ELSE old[i]]
           new == [i \in N |-> NewCell(i[2], at)]
           g2 == AddColumn(g, at, k)
<1>0. /\ g.n_cols \in Nat \ {0} /\ n \in Nat \ {0} /\ g.heights \in Nat
      /\ DOMAIN old \subseteq Name /\ IsFiniteSet(DOMAIN old)
      /\ old \in [DOMAIN old -> Cell]
  BY DEF IsGrid
<1>1. IsFiniteSet(N) /\ N \subseteq Name
  <2> n \in Nat
    BY <1>0
  <2> HIDE DEF n
  <2> QED
    BY NewNames
<1>2. \A i \in N : i[1] = k /\ i[2] \in Nat /\ i[2] < n /\ i = <<k, i[2]>>
  BY <1>0
<1>3. /\ g2.n_cols = g.n_cols + 1 /\ g2.n_rows = n /\ g2.heights = g.heights
      /\ g2.cells = Added(moved, new)
      /\ DOMAIN g2 = DOMAIN g /\ g2 = [f \in DOMAIN g |-> g2[f]]
  BY DEF AddColumn, IsGrid
<1>4. \A i \in DOMAIN old :
         /\ moved[i] \in Cell
         /\ moved[i].text = old[i].text /\ moved[i].row = old[i].row
         /\ moved[i].column = IF old[i].column >= at THEN old[i].column + 1 ELSE old[i].column
  BY <1>0 DEF Cell
<1>5. \A i \in N : new[i] \in Cell /\ new[i].column = at /\ new[i].row = i[2]
  <2> HIDE DEF N
  <2> QED
    BY <1>2 DEF NewCell, Cell
<1>6. /\ DOMAIN g2.cells = DOMAIN old \cup N /\ N \cap DOMAIN old = {}
      /\ \A i \in DOMAIN old : g2.cells[i] = moved[i]
      /\ \A i \in N : g2.cells[i] = new[i]
      /\ g2.cells \in [DOMAIN old \cup N -> Cell]
  <2>1. N \cap DOMAIN old = {} /\ DOMAIN new = N /\ DOMAIN moved = DOMAIN old
    BY <1>2
  <2> HIDE DEF N, moved, new, g2, old
  <2> QED
    BY <1>3, <1>4, <1>5, <2>1 DEF Added
<1> HIDE DEF N, g2, moved, new, n, old
<1>7. IsGrid(g2)
  <2>1. IsFiniteSet(DOMAIN old \cup N)
    BY <1>0, <1>1, FS_Union
  <2> QED
    BY <1>0, <1>1, <1>3, <1>6, <2>1 DEF IsGrid, n
<1>8. KeepsText(g, g2, k)
  BY <1>2, <1>4, <1>6 DEF KeepsText, old
<1>9. ASSUME Sound(g), at \in 0 .. g.n_cols  PROVE Sound(g2)
  <2>0. /\ at \in Nat /\ at <= g.n_cols
        /\ \A i \in DOMAIN old : old[i].row \in Nat /\ old[i].column \in Nat
        /\ \A i \in DOMAIN old : old[i].row < n /\ old[i].column < g.n_cols
        /\ \A i, j \in DOMAIN old : old[i].row = old[j].row /\ old[i].column = old[j].column => i = j
    BY <1>0, <1>9 DEF Sound, old, n, Cell
  <2>1. g2.heights = g2.n_rows /\ g2.n_rows = n /\ g2.n_cols = g.n_cols + 1
    BY <1>3, <1>9 DEF Sound, n
  <2>2. \A i \in DOMAIN g2.cells : /\ g2.cells[i].row \in 0 .. g2.n_rows - 1
                                   /\ g2.cells[i].column \in 0 .. g2.n_cols - 1
    BY <1>0, <1>2, <1>4, <1>5, <1>6, <2>0, <2>1
  <2>3. \A i \in N, j \in DOMAIN old : g2.cells[i].column # g2.cells[j].column
    BY <1>4, <1>5, <1>6, <2>0
  <2>4. \A i, j \in N : g2.cells[i].row = g2.cells[j].row => i = j
    BY <1>2, <1>5, <1>6
  <2>5. \A i, j \in DOMAIN old :
           g2.cells[i].row = g2.cells[j].row /\ g2.cells[i].column = g2.cells[j].column => i = j
    BY <1>4, <1>6, <2>0
  <2> QED
    BY <1>6, <2>1, <2>2, <2>3, <2>4, <2>5 DEF Sound
<1> QED
  BY <1>7, <1>8, <1>9 DEF g2

LEMMA RowDeleted ==
    ASSUME NEW g, IsGrid(g), NEW at \in Int, NEW k
    PROVE  LET g2 == DeleteRow(g, at)
           IN /\ IsGrid(g2) /\ KeepsText(g, g2, k)
              /\ Sound(g) /\ (g.n_rows > 1 => at \in 0 .. g.n_rows - 1) => Sound(g2)
<1> DEFINE old == g.cells
           kept == {i \in DOMAIN old : old[i].row # at}
           moved == [i \in kept |->
                       IF old[i].row > at THEN [old[i] EXCEPT !.row = @ - 1] ELSE old[i]]
           g2 == DeleteRow(g, at)
<1>0. /\ g.n_rows \in Nat \ {0} /\ g.n_cols \in Nat \ {0} /\ g.heights \in Nat
      /\ DOMAIN old \subseteq Name /\ IsFiniteSet(DOMAIN old)
      /\ old \in [DOMAIN old -> Cell]
  BY DEF IsGrid
<1>1. CASE g.n_rows <= 1
  BY <1>1 DEF DeleteRow, KeepsText
<1>2. CASE g.n_rows > 1
  <2>1. /\ g2.n_rows = g.n_rows - 1 /\ g2.n_cols = g.n_cols
        /\ g2.heights = IF at \in 0 .. g.heights - 1 THEN g.heights - 1 ELSE g.heights
        /\ g2.cells = moved
        /\ DOMAIN g2 = DOMAIN g /\ g2 = [f \in DOMAIN g |-> g2[f]]
    <3>1. g2 = [g EXCEPT !.n_rows = @ - 1, !.heights = IF at \in 0 .. @ - 1 THEN @ - 1 ELSE @, !.cells = moved]
      BY <1>0, <1>2 DEF DeleteRow
    <3> HIDE DEF g2, moved
    <3> QED
      BY <3>1 DEF IsGrid
  <2>2. \A i \in kept :
           /\ moved[i] \in Cell
           /\ moved[i].text = old[i].text /\ moved[i].column = old[i].column
           /\ moved[i].row = IF old[i].row > at THEN old[i].row - 1 ELSE old[i].row
    BY <1>0 DEF Cell
  <2>3. /\ kept \subseteq DOMAIN old /\ DOMAIN moved = kept /\ moved \in [kept -> Cell]
        /\ \A i \in kept : old[i].row # at
    BY <2>2
  <2> HIDE DEF g2, moved, kept, old
  <2>4. IsGrid(g2)
    <3>1. IsFiniteSet(kept)
      BY <1>0, <2>3, FS_Subset
    <3> QED
      BY <1>0, <1>2, <2>1, <2>3, <3>1 DEF IsGrid
  <2>5. KeepsText(g, g2, k)
    BY <2>1, <2>2, <2>3 DEF KeepsText, old
  <2>6. ASSUME Sound(g), g.n_rows > 1 => at \in 0 .. g.n_rows - 1  PROVE Sound(g2)
    <3>0. /\ at \in Nat /\ at < g.n_rows
          /\ \A i \in kept : old[i].row \in Nat /\ old[i].column \in Nat
          /\ \A i \in kept : old[i].row < g.n_rows /\ old[i].column < g.n_cols
          /\ \A i, j \in kept : old[i].row = old[j].row /\ old[i].column = old[j].column => i = j
      BY <1>0, <1>2, <2>3, <2>6 DEF Sound, old, Cell
    <3>1. g2.heights = g2.n_rows
      BY <1>2, <2>1, <2>6 DEF Sound
    <3>2. \A i \in kept : /\ moved[i].row \in 0 .. g2.n_rows - 1
                           /\ moved[i].column \in 0 .. g2.n_cols - 1
      <4>1. /\ g2.n_rows = g.n_rows - 1 /\ g2.n_cols = g.n_cols
            /\ g.n_rows \in Nat /\ g.n_cols \in Nat
        BY <1>0, <2>1
      <4> TAKE i \in kept
      <4>2. /\ old[i].row \in Nat /\ old[i].row < g.n_rows /\ old[i].row # at
            /\ moved[i].row = IF old[i].row > at THEN old[i].row - 1 ELSE old[i].row
            /\ moved[i].column = old[i].column /\ old[i].column \in Nat /\ old[i].column < g.n_cols
        BY <2>2, <2>3, <3>0
      <4> DEFINE x == moved[i].row
                 y == old[i].row
                 n == g2.n_rows
      <4>3. x \in 0 .. n - 1
        <5>1. /\ y \in Nat /\ y < n + 1 /\ y # at /\ n \in Int
              /\ x = IF y > at THEN y - 1 ELSE y
          BY <4>1, <4>2
        <5>2. at \in Nat /\ at < n + 1
          BY <3>0, <4>1
        <5> HIDE DEF x, y, n
        <5> QED
          BY <5>1, <5>2
      <4> QED
        BY <4>1, <4>2, <4>3
    <3>3. \A i, j \in kept :
             moved[i].row = moved[j].row /\ moved[i].column = moved[j].column => i = j
      BY <2>2, <2>3, <3>0
    <3> QED
      BY <2>1, <2>3, <3>1, <3>2, <3>3 DEF Sound
  <2> QED
    BY <2>4, <2>5, <2>6 DEF g2
<1> QED
  BY <1>0, <1>1, <1>2

LEMMA ColumnDeleted ==
    ASSUME NEW g, IsGrid(g), NEW at \in Int, NEW k
    PROVE  LET g2 == DeleteColumn(g, at)
           IN /\ IsGrid(g2) /\ KeepsText(g, g2, k)
              /\ Sound(g) /\ (g.n_cols > 1 => at \in 0 .. g.n_cols - 1) => Sound(g2)
<1> DEFINE old == g.cells
           kept == {i \in DOMAIN old : old[i].column # at}
           moved == [i \in kept |->
                       IF old[i].column > at THEN [old[i] EXCEPT !.column = @ - 1] ELSE old[i]]
           g2 == DeleteColumn(g, at)
<1>0. /\ g.n_rows \in Nat \ {0} /\ g.n_cols \in Nat \ {0} /\ g.heights \in Nat
      /\ DOMAIN old \subseteq Name /\ IsFiniteSet(DOMAIN old)
      /\ old \in [DOMAIN old -> Cell]
  BY DEF IsGrid
<1>1. CASE g.n_cols <= 1
  BY <1>1 DEF DeleteColumn, KeepsText
<1>2. CASE g.n_cols > 1
  <2>1. /\ g2.n_rows = g.n_rows /\ g2.n_cols = g.n_cols - 1 /\ g2.heights = g.heights
        /\ g2.cells = moved
        /\ DOMAIN g2 = DOMAIN g /\ g2 = [f \in DOMAIN g |-> g2[f]]
    <3>1. g2 = [g EXCEPT !.n_cols = @ - 1, !.cells = moved]
      BY <1>0, <1>2 DEF DeleteColumn
    <3> HIDE DEF g2, moved
    <3> QED
      BY <3>1 DEF IsGrid
  <2>2. \A i \in kept :
           /\ moved[i] \in Cell
           /\ moved[i].text = old[i].text /\ moved[i].row = old[i].row
           /\ moved[i].column = IF old[i].column > at THEN old[i].column - 1 ELSE old[i].column
    BY <1>0 DEF Cell
  <2>3. /\ kept \subseteq DOMAIN old /\ DOMAIN moved = kept /\ moved \in [kept -> Cell]
        /\ \A i \in kept : old[i].column # at
    BY <2>2
  <2> HIDE DEF g2, moved, kept, old
  <2>4. IsGrid(g2)
    <3>1. IsFiniteSet(kept)
      BY <1>0, <2>3, FS_Subset
    <3> QED
      BY <1>0, <1>2, <2>1, <2>3, <3>1 DEF IsGrid
  <2>5. KeepsText(g, g2, k)
    BY <2>1, <2>2, <2>3 DEF KeepsText, old
  <2>6. ASSUME Sound(g), g.n_cols > 1 => at \in 0 .. g.n_cols - 1  PROVE Sound(g2)
    <3>0. /\ at \in Nat /\ at < g.n_cols
          /\ \A i \in kept : old[i].row \in Nat /\ old[i].column \in Nat
          /\ \A i \in kept : old[i].row < g.n_rows /\ old[i].column < g.n_cols
          /\ \A i, j \in kept : old[i].row = old[j].row /\ old[i].column = old[j].column => i = j
      BY <1>0, <1>2, <2>3, <2>6 DEF Sound, old, Cell
    <3>1. g2.heights = g2.n_rows
      BY <2>1, <2>6 DEF Sound
    <3>2. \A i \in kept : /\ moved[i].row \in 0 .. g2.n_rows - 1
                           /\ moved[i].column \in 0 .. g2.n_cols - 1
      BY SMTT(60), <1>0, <2>1, <2>2, <2>3, <2>6, <3>0
    <3>3. \A i, j \in kept :
             moved[i].row = moved[j].row /\ moved[i].column = moved[j].column => i = j
      BY <2>2, <2>3, <3>0
    <3> QED
      BY <2>1, <2>3, <3>1, <3>2, <3>3 DEF Sound
  <2> QED
    BY <2>4, <2>5, <2>6 DEF g2
<1> QED
  BY <1>0, <1>1, <1>2

LEMMA CellSplit ==
    ASSUME NEW g, IsGrid(g), NEW i, NEW k
    PROVE  LET g2 == SplitCell(g, i)
           IN IsGrid(g2) /\ KeepsText(g, g2, k) /\ (Sound(g) => Sound(g2))
<1> DEFINE old == g.cells
           one == [old[i] EXCEPT !.rowspan = 1, !.colspan = 1]
           new == [old EXCEPT ![i] = one]
           g2 == SplitCell(g, i)
<1>0. /\ g.n_rows \in Nat \ {0} /\ g.n_cols \in Nat \ {0} /\ g.heights \in Nat
      /\ DOMAIN old \subseteq Name /\ IsFiniteSet(DOMAIN old)
      /\ old \in [DOMAIN old -> Cell]
  BY DEF IsGrid
<1>1. CASE i \notin DOMAIN old
  BY <1>1 DEF SplitCell, KeepsText
<1>2. CASE i \in DOMAIN old
  <2>1. /\ g2.n_rows = g.n_rows /\ g2.n_cols = g.n_cols /\ g2.heights = g.heights
        /\ g2.cells = new
        /\ DOMAIN g2 = DOMAIN g /\ g2 = [f \in DOMAIN g |-> g2[f]]
    BY <1>2 DEF SplitCell, IsGrid
  <2>2. \A j \in DOMAIN old :
           /\ new[j] \in Cell /\ new[j].text = old[j].text
           /\ new[j].row = old[j].row /\ new[j].column = old[j].column
    <3>1. /\ one \in Cell /\ one.text = old[i].text
          /\ one.row = old[i].row /\ one.column = old[i].column
      <4> DEFINE half == [old[i] EXCEPT !.rowspan = 1]
      <4>1. one = [half EXCEPT !.colspan = 1] /\ old[i] \in Cell
        BY <1>0, <1>2
      <4>2. /\ half \in Cell /\ half.text = old[i].text
            /\ half.row = old[i].row /\ half.column = old[i].column
        BY <4>1 DEF Cell
      <4> HIDE DEF half, one
      <4> QED
        BY <4>1, <4>2 DEF Cell
    <3> HIDE DEF one
    <3> QED
      BY <1>0, <3>1
  <2>3. DOMAIN new = DOMAIN old /\ new \in [DOMAIN old -> Cell]
    BY <2>2
  <2> HIDE DEF g2, new
  <2> QED
    BY <1>0, <2>1, <2>2, <2>3 DEF IsGrid, KeepsText, Sound, g2
<1> QED
  BY <1>1, <1>2

LEMMA TextSet ==
    ASSUME NEW g, IsGrid(g), NEW i \in DOMAIN g.cells, NEW word \in SUBSET Name
    PROVE  LET g2 == SetText(g, i, word)
           IN /\ IsGrid(g2) /\ (Sound(g) => Sound(g2))
              /\ DOMAIN g2.cells = DOMAIN g.cells
              /\ g2.cells[i].text = word
              /\ \A j \in DOMAIN g.cells \ {i} : g2.cells[j] = g.cells[j]
              /\ \A j \in DOMAIN g.cells : \A f \in {"row", "column", "rowspan", "colspan"} :
                    g2.cells[j][f] = g.cells[j][f]
<1> DEFINE old == g.cells
           new == [old EXCEPT ![i] = [@ EXCEPT !.text = word]]
           g2 == SetText(g, i, word)
<1>0. /\ g.n_rows \in Nat \ {0} /\ g.n_cols \in Nat \ {0} /\ g.heights \in Nat
      /\ DOMAIN old \subseteq Name /\ IsFiniteSet(DOMAIN old)
      /\ old \in [DOMAIN old -> Cell]
  BY DEF IsGrid
<1>1. /\ g2.n_rows = g.n_rows /\ g2.n_cols = g.n_cols /\ g2.heights = g.heights
      /\ g2.cells = new
      /\ DOMAIN g2 = DOMAIN g /\ g2 = [f \in DOMAIN g |-> g2[f]]
  BY DEF SetText, IsGrid
<1>2. \A j \in DOMAIN old :
         /\ new[j] \in Cell
         /\ \A f \in {"row", "column", "rowspan", "colspan"} : new[j][f] = old[j][f]
         /\ j # i => new[j] = old[j]
  BY <1>0 DEF Cell
<1>3. /\ DOMAIN new = DOMAIN old /\ new \in [DOMAIN old -> Cell]
      /\ new[i].text = word
  BY <1>0, <1>2 DEF Cell
<1>4. \A j \in DOMAIN old : new[j].row = old[j].row /\ new[j].column = old[j].column
  BY <1>2
<1> HIDE DEF g2, new
<1> QED
  BY <1>0, <1>1, <1>2, <1>3, <1>4 DEF IsGrid, Sound, g2

(* A cell edit moves nothing: where it leaves the spans as they are it     *)
(* sets the text.                                                          *)
LEMMA CellUpdated ==
    ASSUME NEW g, IsGrid(g), NEW i \in DOMAIN g.cells, NEW word \in SUBSET Name,
           NEW g2 \in UpdateCell(g, i, word)
    PROVE  /\ IsGrid(g2) /\ (Sound(g) => Sound(g2))
           /\ DOMAIN g2.cells = DOMAIN g.cells
           /\ Respanned(g, g2) = {} => g2 = SetText(g, i, g2.cells[i].text)
<1> DEFINE old == g.cells
           c == old[i]
           Cell2(text, s) == [c EXCEPT !.text = text, !.rowspan = s[1], !.colspan = s[2]]
<1>0. /\ g.n_rows \in Nat \ {0} /\ g.n_cols \in Nat \ {0} /\ g.heights \in Nat
      /\ DOMAIN old \subseteq Name /\ IsFiniteSet(DOMAIN old)
      /\ old \in [DOMAIN old -> Cell] /\ c \in Cell
  BY DEF IsGrid
<1>1. PICK text \in {c.text, word}, s \in {<<c.rowspan, c.colspan>>} \cup Span :
         g2 = [g EXCEPT !.cells[i] = Cell2(text, s)]
  <2> DEFINE News == {c.text, word} \X ({<<c.rowspan, c.colspan>>} \cup Span)
  <2>1. \E new \in News : g2 = [g EXCEPT !.cells[i] = Cell2(new[1], new[2])]
    BY Zenon DEF UpdateCell
  <2> QED
    BY <2>1
<1>2. text \in SUBSET Name /\ s[1] \in Int /\ s[2] \in Int
  <2>1. c.text \in SUBSET Name /\ c.rowspan \in Int /\ c.colspan \in Int
    BY <1>0 DEF Cell
  <2>2. \A x \in Span : x[1] \in Int /\ x[2] \in Int
    BY SpanAssumption
  <2> HIDE DEF c, Cell2
  <2> QED
    BY <1>1, <2>1, <2>2
<1> DEFINE d == Cell2(text, s)
<1>3. /\ d \in Cell /\ d.text = text /\ d.row = c.row /\ d.column = c.column
      /\ d.rowspan = s[1] /\ d.colspan = s[2]
      /\ s[1] = c.rowspan /\ s[2] = c.colspan => d = [c EXCEPT !.text = text]
  <2> DEFINE x == s[1]
             y == s[2]
             u == [c EXCEPT !.text = text]
             v == [u EXCEPT !.rowspan = x]
             w == [v EXCEPT !.colspan = y]
  <2>1. d = w
    OBVIOUS
  <2>2. c \in Cell /\ text \in SUBSET Name /\ x \in Int /\ y \in Int
    BY <1>0, <1>2
  <2> HIDE DEF c, d, x, y
  <2>3. /\ u \in Cell /\ u.row = c.row /\ u.column = c.column /\ u.text = text
        /\ u.rowspan = c.rowspan /\ u.colspan = c.colspan
    BY <2>2 DEF Cell
  <2> HIDE DEF u
  <2>4. /\ v \in Cell /\ v.row = c.row /\ v.column = c.column /\ v.text = text
        /\ v.rowspan = x /\ v.colspan = c.colspan /\ (x = c.rowspan => v = u)
    BY <2>2, <2>3 DEF Cell
  <2> HIDE DEF v
  <2>5. /\ w \in Cell /\ w.row = c.row /\ w.column = c.column /\ w.text = text
        /\ w.rowspan = x /\ w.colspan = y /\ (y = c.colspan => w = v)
    BY <2>2, <2>4 DEF Cell
  <2> HIDE DEF w
  <2>6. x = c.rowspan /\ y = c.colspan => d = u
    BY <2>1, <2>4, <2>5
  <2> QED
    BY <2>1, <2>5, <2>6 DEF u, x, y
<1> DEFINE new == [old EXCEPT ![i] = d]
<1>4. /\ g2.n_rows = g.n_rows /\ g2.n_cols = g.n_cols /\ g2.heights = g.heights
      /\ g2.cells = new
      /\ DOMAIN g2 = DOMAIN g /\ g2 = [f \in DOMAIN g |-> g2[f]]
      /\ g2 = [g EXCEPT !.cells = new]
  <2>1. g2 = [g EXCEPT !.cells[i] = d]
    BY <1>1
  <2> HIDE DEF Cell2, d, c
  <2>2. g2 = [g EXCEPT !.cells = new]
    BY <2>1
  <2> HIDE DEF new
  <2> QED
    BY <2>2 DEF IsGrid
<1> HIDE DEF Cell2, d, c
<1>5. /\ DOMAIN new = DOMAIN old /\ new \in [DOMAIN old -> Cell]
      /\ \A j \in DOMAIN old : new[j].row = old[j].row /\ new[j].column = old[j].column
  BY <1>0, <1>3 DEF c
<1>6. IsGrid(g2) /\ (Sound(g) => Sound(g2)) /\ DOMAIN g2.cells = DOMAIN g.cells
  <2> HIDE DEF new
  <2> QED
    BY <1>0, <1>4, <1>5 DEF IsGrid, Sound
<1>7. ASSUME Respanned(g, g2) = {}  PROVE g2 = SetText(g, i, g2.cells[i].text)
  <2>1. new[i] = d
    OBVIOUS
  <2>2. d.rowspan = c.rowspan /\ d.colspan = c.colspan
    BY <1>4, <1>5, <1>7, <2>1 DEF Respanned, c
  <2>3. d = [c EXCEPT !.text = text]
    BY <1>3, <2>2
  <2>4. g2 = [g EXCEPT !.cells = [old EXCEPT ![i] = [c EXCEPT !.text = text]]]
    BY <1>4, <2>3
  <2>5. g2.cells[i].text = text
    BY <1>3, <1>4, <2>1
  <2> QED
    BY <2>4, <2>5 DEF SetText, c
<1> QED
  BY <1>6, <1>7

(* The corner and the extent of the bounding box of some cells.            *)
LEMMA BoundingBox ==
    ASSUME NEW g, IsGrid(g), NEW ids \in SUBSET DOMAIN g.cells, ids # {}
    PROVE  LET cs == {g.cells[i] : i \in ids}
           IN /\ \E i \in ids : TopRow(cs) = g.cells[i].row
              /\ \E i \in ids : LeftColumn(cs) = g.cells[i].column
              /\ TopRow(cs) \in Int /\ BottomRow(cs) \in Int
              /\ LeftColumn(cs) \in Int /\ RightColumn(cs) \in Int
<1> DEFINE cell == [i \in ids |-> g.cells[i]]
           cs == {g.cells[i] : i \in ids}
           tops == {c.row : c \in cs}
           lefts == {c.column : c \in cs}
           bottoms == {c.row + c.rowspan - 1 : c \in cs}
           rights == {c.column + c.colspan - 1 : c \in cs}
<1>1. IsFiniteSet(ids) /\ \A i \in ids : g.cells[i] \in Cell
  BY FS_Subset DEF IsGrid
<1>2. IsFiniteSet(tops) /\ IsFiniteSet(lefts) /\ IsFiniteSet(bottoms) /\ IsFiniteSet(rights)
  <2> DEFINE f1 == [i \in ids |-> g.cells[i].row]
             f2 == [i \in ids |-> g.cells[i].column]
             f3 == [i \in ids |-> g.cells[i].row + g.cells[i].rowspan - 1]
             f4 == [i \in ids |-> g.cells[i].column + g.cells[i].colspan - 1]
  <2>1. /\ tops = {f1[i] : i \in DOMAIN f1} /\ lefts = {f2[i] : i \in DOMAIN f2}
        /\ bottoms = {f3[i] : i \in DOMAIN f3} /\ rights = {f4[i] : i \in DOMAIN f4}
    OBVIOUS
  <2>2. DOMAIN f1 = ids /\ DOMAIN f2 = ids /\ DOMAIN f3 = ids /\ DOMAIN f4 = ids
    OBVIOUS
  <2> HIDE DEF f1, f2, f3, f4, tops, lefts, bottoms, rights
  <2> QED
    BY <1>1, <2>1, <2>2, FiniteImage
<1>3. \A c \in cs : /\ c.row \in Int /\ c.column \in Int
                    /\ c.row + c.rowspan - 1 \in Int /\ c.column + c.colspan - 1 \in Int
  BY <1>1 DEF Cell
<1>4. /\ tops \subseteq Int /\ lefts \subseteq Int /\ bottoms \subseteq Int /\ rights \subseteq Int
      /\ tops # {} /\ lefts # {} /\ bottoms # {} /\ rights # {}
  BY <1>3
<1>5. /\ TopRow(cs) = Min(tops) /\ LeftColumn(cs) = Min(lefts)
      /\ BottomRow(cs) = Max(bottoms) /\ RightColumn(cs) = Max(rights)
  BY DEF TopRow, LeftColumn, BottomRow, RightColumn
<1>6. /\ \A x \in tops : \E i \in ids : x = g.cells[i].row
      /\ \A x \in lefts : \E i \in ids : x = g.cells[i].column
  OBVIOUS
<1> HIDE DEF tops, lefts, bottoms, rights, cs
<1>7. Min(tops) \in tops /\ Max(bottoms) \in bottoms
  BY <1>2, <1>4, Extremes
<1>8. Min(lefts) \in lefts /\ Max(rights) \in rights
  BY <1>2, <1>4, Extremes
<1> QED
  BY <1>4, <1>5, <1>6, <1>7, <1>8 DEF cs

(* A merge takes cells away, and the one that stays has all their words;   *)
(* the grid stays sound unless another cell starts at its corner.          *)
LEMMA CellsMerged ==
    ASSUME NEW g, IsGrid(g), NEW ids \in SUBSET DOMAIN g.cells, NEW g2 \in MergeCells(g, ids)
    PROVE  /\ IsGrid(g2) /\ DOMAIN g2.cells \subseteq DOMAIN g.cells
           /\ WordsOf(g2) = WordsOf(g)
           /\ Sound(g) /\ ~CornerTaken(g, ids) => Sound(g2)
<1> DEFINE old == g.cells
           cs == {old[i] : i \in ids}
           joined == UNION {c.text : c \in cs}
           box == [row |-> TopRow(cs), column |-> LeftColumn(cs),
                   rowspan |-> BottomRow(cs) - TopRow(cs) + 1,
                   colspan |-> RightColumn(cs) - LeftColumn(cs) + 1, text |-> joined]
           Merged(anchor) ==
             [i \in (DOMAIN old \ ids) \cup {anchor} |-> IF i # anchor THEN old[i] ELSE box]
<1>0. /\ g.n_rows \in Nat \ {0} /\ g.n_cols \in Nat \ {0} /\ g.heights \in Nat
      /\ DOMAIN old \subseteq Name /\ IsFiniteSet(DOMAIN old)
      /\ old \in [DOMAIN old -> Cell] /\ \A i \in DOMAIN old : old[i] \in Cell
  BY DEF IsGrid
<1>1. CASE g2 = g
  BY <1>1
<1>2. CASE g2 # g
  <2>1. PICK anchor \in ids : g2 = [g EXCEPT !.cells = Merged(anchor)]
    <3> DEFINE sel == ids \cap DOMAIN g.cells
               few == {g.cells[i] : i \in sel}
               first == {i \in sel : \A j \in sel : Before(g.cells[i], g.cells[j])}
               Result(anchor, text) ==
                 [g EXCEPT !.cells = [i \in (DOMAIN g.cells \ sel) \cup {anchor} |->
                    IF i # anchor THEN g.cells[i]
                    ELSE [row |-> TopRow(few), column |-> LeftColumn(few),
                          rowspan |-> BottomRow(few) - TopRow(few) + 1,
                          colspan |-> RightColumn(few) - LeftColumn(few) + 1, text |-> text]]]
    <3>0. sel = ids /\ few = cs
      OBVIOUS
    <3>1. MergeCells(g, ids) = IF Cardinality(sel) < 2 THEN {g}
            ELSE {Result(anchor, text) : anchor \in first, text \in JoinedText(few)}
      BY DEF MergeCells
    <3>2. \A anchor : Result(anchor, joined) = [g EXCEPT !.cells = Merged(anchor)]
      <4> HIDE DEF cs, few, sel, joined
      <4> QED
        BY <3>0
    <3>3. JoinedText(few) = {joined}
      BY <3>0 DEF JoinedText
    <3> HIDE DEF Result, Merged, sel, few, cs, first, joined
    <3>4. PICK anchor \in first, text \in JoinedText(few) : g2 = Result(anchor, text)
      BY <1>2, <3>1
    <3>5. anchor \in ids /\ g2 = Result(anchor, joined)
      BY <3>0, <3>3, <3>4 DEF first
    <3> QED
      BY <3>2, <3>5
  <2> DEFINE new == Merged(anchor)
  <2>2. /\ g2.n_rows = g.n_rows /\ g2.n_cols = g.n_cols /\ g2.heights = g.heights
        /\ g2.cells = new
        /\ DOMAIN g2 = DOMAIN g /\ g2 = [f \in DOMAIN g |-> g2[f]]
    <3> HIDE DEF Merged
    <3> QED
      BY <2>1 DEF IsGrid
  <2>3. /\ DOMAIN new = (DOMAIN old \ ids) \cup {anchor}
        /\ \A i \in DOMAIN old \ ids : new[i] = old[i]
        /\ new[anchor] = box
        /\ DOMAIN new \subseteq DOMAIN old
    OBVIOUS
  <2>4. /\ \E i \in ids : TopRow(cs) = old[i].row
        /\ \E i \in ids : LeftColumn(cs) = old[i].column
        /\ TopRow(cs) \in Int /\ BottomRow(cs) \in Int
        /\ LeftColumn(cs) \in Int /\ RightColumn(cs) \in Int
    BY BoundingBox
  <2>5. box \in Cell /\ box.row = TopRow(cs) /\ box.column = LeftColumn(cs) /\ box.text = joined
    <3>1. joined \subseteq Name
      BY <1>0 DEF Cell
    <3> HIDE DEF cs, joined
    <3> QED
      BY <2>4, <3>1 DEF Cell
  <2>6. WordsOf(g) = joined \cup UNION {old[i].text : i \in DOMAIN old \ ids}
    BY DEF WordsOf, Cells
  <2> HIDE DEF Merged, new, box
  <2>7. new \in [DOMAIN new -> Cell] /\ IsFiniteSet(DOMAIN new)
    <3>1. \A i \in DOMAIN new : new[i] \in Cell
      BY <1>0, <2>3, <2>5
    <3>2. new = [i \in DOMAIN new |-> new[i]]
      BY DEF new, Merged
    <3>3. IsFiniteSet(DOMAIN new)
      BY <1>0, <2>3, FS_Subset
    <3> QED
      BY <3>1, <3>2, <3>3
  <2>8. IsGrid(g2)
    BY <1>0, <2>2, <2>3, <2>7 DEF IsGrid
  <2>9. WordsOf(g2) = WordsOf(g)
    <3> HIDE DEF joined
    <3>1. WordsOf(g2) = UNION {new[i].text : i \in DOMAIN new}
      BY <2>2 DEF WordsOf, Cells
    <3>2. UNION {new[i].text : i \in DOMAIN new} = joined \cup UNION {old[i].text : i \in DOMAIN old \ ids}
      BY <2>3, <2>5
    <3> QED
      BY <2>6, <3>1, <3>2
  <2>10. ASSUME Sound(g), ~CornerTaken(g, ids)  PROVE Sound(g2)
    <3>1. \A i \in DOMAIN old \ ids : ~(old[i].row = TopRow(cs) /\ old[i].column = LeftColumn(cs))
      BY <2>10 DEF CornerTaken
    <3> HIDE DEF cs
    <3>2. \A i, j \in DOMAIN new : new[i].row = new[j].row /\ new[i].column = new[j].column => i = j
      BY <2>3, <2>5, <2>10, <3>1 DEF Sound
    <3>3. \A i \in DOMAIN new : new[i].row \in 0 .. g.n_rows - 1 /\ new[i].column \in 0 .. g.n_cols - 1
      BY <2>3, <2>4, <2>5, <2>10 DEF Sound
    <3> QED
      BY <2>2, <2>10, <3>2, <3>3 DEF Sound
  <2> QED
    BY <2>2, <2>3, <2>8, <2>9, <2>10
<1> QED
  BY <1>1, <1>2

-----------------------------------------------------------------------------
(* What a request commits                                                  *)

(* Whichever edit it is: what it keeps of the table it loaded.             *)
LEMMA EditKinds ==
    ASSUME NEW h \in Handler, IsRequest(req[h]), At(h, "commit"), req[h].op # "block",
           \A i \in DOMAIN req[h].base.cells : i[1] # req[h].k,
           NEW g \in Edited(h)
    PROVE  LET base == req[h].base  ask == req[h].ask
           IN /\ IsGrid(base) /\ IsGrid(g)
              /\ \A i \in DOMAIN g.cells \ DOMAIN base.cells : i[1] = req[h].k
              /\ req[h].op \in Structural => KeepsText(base, g, req[h].k)
              /\ req[h].op = "merge_cells" => WordsOf(g) = WordsOf(base)
              /\ req[h].op = "cell" =>
                   \E i \in DOMAIN base.cells :
                      /\ ask.ids = {i} /\ DOMAIN g.cells = DOMAIN base.cells
                      /\ Respanned(base, g) = {} => g = SetText(base, i, g.cells[i].text)
              /\ /\ Sound(base) /\ ~OutOfRange(ask, base)
                 /\ ~(req[h].op = "merge_cells" /\ CornerTaken(base, ask.ids))
                 => Sound(g)
<1> DEFINE base == req[h].base  ask == req[h].ask  k == req[h].k  op == req[h].op
<1>0. /\ IsGrid(base) /\ Fits(ask, base) /\ ask.op = op
      /\ ask.at \in Int /\ k \in Int
      /\ op \in {"add_row", "delete_row", "add_column", "delete_column", "split_cell",
                 "merge_cells", "cell"}
      /\ \A i \in DOMAIN base.cells : i[1] # k
      /\ base.n_rows \in Nat /\ base.n_cols \in Nat
  BY DEF IsRequest, At, Structural, Ops, IsGrid
<1> DEFINE Goal ==
      /\ IsGrid(g)
      /\ \A i \in DOMAIN g.cells \ DOMAIN base.cells : i[1] = k
      /\ op \in Structural => KeepsText(base, g, k)
      /\ op = "merge_cells" => WordsOf(g) = WordsOf(base)
      /\ op = "cell" =>
           \E i \in DOMAIN base.cells :
              /\ ask.ids = {i} /\ DOMAIN g.cells = DOMAIN base.cells
              /\ Respanned(base, g) = {} => g = SetText(base, i, g.cells[i].text)
      /\ /\ Sound(base) /\ ~OutOfRange(ask, base)
         /\ ~(op = "merge_cells" /\ CornerTaken(base, ask.ids))
         => Sound(g)
<1> SUFFICES Goal
  BY <1>0
<1>1. CASE op = "add_row"
  <2>1. /\ g = AddRow(base, ask.at, k)
        /\ ~OutOfRange(ask, base) => ask.at \in 0 .. base.n_rows
    BY <1>0, <1>1 DEF Edited, OutOfRange
  <2>2. IsGrid(g) /\ KeepsText(base, g, k) /\ (Sound(base) /\ ask.at \in 0 .. base.n_rows => Sound(g))
    <3> HIDE DEF base, ask, k, op
    <3> QED
      BY <1>0, <2>1, RowAdded
  <2> QED
    BY <1>1, <2>1, <2>2 DEF KeepsText
<1>2. CASE op = "delete_row"
  <2>1. /\ g = DeleteRow(base, ask.at)
        /\ ~OutOfRange(ask, base) => (base.n_rows > 1 => ask.at \in 0 .. base.n_rows - 1)
    BY <1>0, <1>2 DEF Edited, OutOfRange
  <2>2. /\ IsGrid(g) /\ KeepsText(base, g, k)
        /\ Sound(base) /\ (base.n_rows > 1 => ask.at \in 0 .. base.n_rows - 1) => Sound(g)
    <3> HIDE DEF base, ask, k, op
    <3> QED
      BY <1>0, <2>1, RowDeleted
  <2> QED
    BY <1>2, <2>1, <2>2 DEF KeepsText
<1>3. CASE op = "add_column"
  <2>1. /\ g = AddColumn(base, ask.at, k)
        /\ ~OutOfRange(ask, base) => ask.at \in 0 .. base.n_cols
    BY <1>0, <1>3 DEF Edited, OutOfRange
  <2>2. IsGrid(g) /\ KeepsText(base, g, k) /\ (Sound(base) /\ ask.at \in 0 .. base.n_cols => Sound(g))
    <3> HIDE DEF base, ask, k, op
    <3> QED
      BY <1>0, <2>1, ColumnAdded
  <2> QED
    BY <1>3, <2>1, <2>2 DEF KeepsText
<1>4. CASE op = "delete_column"
  <2>1. /\ g = DeleteColumn(base, ask.at)
        /\ ~OutOfRange(ask, base) => (base.n_cols > 1 => ask.at \in 0 .. base.n_cols - 1)
    BY <1>0, <1>4 DEF Edited, OutOfRange
  <2>2. /\ IsGrid(g) /\ KeepsText(base, g, k)
        /\ Sound(base) /\ (base.n_cols > 1 => ask.at \in 0 .. base.n_cols - 1) => Sound(g)
    <3> HIDE DEF base, ask, k, op
    <3> QED
      BY <1>0, <2>1, ColumnDeleted
  <2> QED
    BY <1>4, <2>1, <2>2 DEF KeepsText
<1>5. CASE op = "split_cell"
  <2>1. g = SplitCell(base, CHOOSE i \in ask.ids : TRUE)
    BY <1>0, <1>5 DEF Edited
  <2>2. IsGrid(g) /\ KeepsText(base, g, k) /\ (Sound(base) => Sound(g))
    <3> HIDE DEF base, ask, k, op
    <3> QED
      BY <1>0, <2>1, CellSplit
  <2> QED
    BY <1>5, <2>2 DEF KeepsText
<1>6. CASE op = "merge_cells"
  <2>1. g \in MergeCells(base, ask.ids) /\ ask.ids \subseteq DOMAIN base.cells
    BY <1>0, <1>6 DEF Edited, Fits
  <2>2. /\ IsGrid(g) /\ DOMAIN g.cells \subseteq DOMAIN base.cells
        /\ WordsOf(g) = WordsOf(base)
        /\ Sound(base) /\ ~CornerTaken(base, ask.ids) => Sound(g)
    <3> HIDE DEF base, ask, k, op
    <3> QED
      BY <1>0, <2>1, CellsMerged
  <2> QED
    BY <1>6, <2>2 DEF Structural
<1>7. CASE op = "cell"
  <2>1. PICK i \in DOMAIN base.cells : ask.ids = {i}
    BY <1>0, <1>7 DEF Fits
  <2>2. (CHOOSE j \in ask.ids : TRUE) = i
    BY <2>1
  <2>3. g \in UpdateCell(base, i, {<<k, 99>>})
    BY <1>0, <1>7, <2>2 DEF Edited
  <2>4. /\ IsGrid(g) /\ DOMAIN g.cells = DOMAIN base.cells /\ (Sound(base) => Sound(g))
        /\ Respanned(base, g) = {} => g = SetText(base, i, g.cells[i].text)
    <3> DEFINE word == {<<k, 99>>}
    <3>1. word \in SUBSET Name
      BY <1>0 DEF Name
    <3>2. g \in UpdateCell(base, i, word)
      BY <2>3
    <3> HIDE DEF base, ask, k, op, word
    <3> QED
      BY <1>0, <2>1, <3>1, <3>2, CellUpdated
  <2> QED
    BY <1>7, <2>1, <2>4 DEF Structural
<1> QED
  BY <1>0, <1>1, <1>2, <1>3, <1>4, <1>5, <1>6, <1>7

(* Only the columns a request changed reach the rows as they are by now:   *)
(* they stay rows.                                                         *)
LEMMA RowsWritten ==
    ASSUME NEW base, NEW mine, NEW now, IsGrid(base), IsGrid(mine), IsGrid(now)
    PROVE  LET new == RowsAfter(mine, base, now)
           IN /\ IsGrid(new)
              /\ \A i \in DOMAIN new.cells \ DOMAIN now.cells : i \in DOMAIN mine.cells \ DOMAIN base.cells
              /\ \A i \in DOMAIN new.cells \ (DOMAIN mine.cells \ DOMAIN base.cells) :
                    (i \in DOMAIN mine.cells => mine.cells[i].text = base.cells[i].text) =>
                       new.cells[i].text = now.cells[i].text
<1> DEFINE new == RowsAfter(mine, base, now)
           added == DOMAIN mine.cells \ DOMAIN base.cells
           deleted == DOMAIN base.cells \ DOMAIN mine.cells
<1>1. /\ new = [n_rows |-> new.n_rows, n_cols |-> new.n_cols, heights |-> new.heights,
                cells |-> new.cells]
      /\ new.n_rows \in Nat \ {0} /\ new.n_cols \in Nat \ {0} /\ new.heights \in Nat
      /\ new.cells = WrittenCells(mine.cells, base.cells, now.cells)
  BY DEF RowsAfter, IsGrid
<1>2. DOMAIN new.cells = (DOMAIN now.cells \ deleted) \cup added
  BY <1>1 DEF WrittenCells
<1>3. \A i \in DOMAIN new.cells :
         new.cells[i] = IF i \in added THEN mine.cells[i]
                        ELSE IF i \in DOMAIN mine.cells
                          THEN Written(mine.cells[i], base.cells[i], now.cells[i])
                        ELSE now.cells[i]
  BY <1>1 DEF WrittenCells
<1>4. \A c, d, e \in Cell :
         /\ Written(c, d, e) \in Cell
         /\ c.text = d.text => Written(c, d, e).text = e.text
  BY DEF Written, Cell
<1>5. new.cells = [i \in DOMAIN new.cells |-> new.cells[i]]
  BY <1>1 DEF WrittenCells
<1>6. /\ \A i \in DOMAIN mine.cells : mine.cells[i] \in Cell
      /\ \A i \in DOMAIN base.cells : base.cells[i] \in Cell
      /\ \A i \in DOMAIN now.cells : now.cells[i] \in Cell
      /\ IsFiniteSet(DOMAIN mine.cells) /\ IsFiniteSet(DOMAIN now.cells)
      /\ DOMAIN mine.cells \subseteq Name /\ DOMAIN now.cells \subseteq Name
  BY DEF IsGrid
<1> HIDE DEF new
<1>7. \A i \in DOMAIN new.cells : new.cells[i] \in Cell
  BY <1>2, <1>3, <1>4, <1>6
<1>8. IsFiniteSet(DOMAIN new.cells)
  <2>1. IsFiniteSet(DOMAIN now.cells \ deleted) /\ IsFiniteSet(added)
    BY <1>6, FS_Difference
  <2>2. IsFiniteSet((DOMAIN now.cells \ deleted) \cup added)
    BY <2>1, FS_Union
  <2> QED
    BY <1>2, <2>2
<1>9. IsGrid(new)
  <2>1. DOMAIN new.cells \subseteq Name
    BY <1>2, <1>6
  <2>2. new.cells \in [DOMAIN new.cells -> Cell]
    BY <1>5, <1>7
  <2> QED
    BY <1>1, <1>8, <2>1, <2>2 DEF IsGrid
<1> QED
  BY <1>2, <1>3, <1>4, <1>6, <1>9 DEF new

(* Nobody else wrote: the rows become what the request made of them.       *)
LEMMA WrittenAlone ==
    ASSUME NEW base, NEW mine, IsGrid(base), IsGrid(mine)
    PROVE  RowsAfter(mine, base, base) = mine
<1>1. \A c, d \in Cell : Written(c, d, d) = c
  BY DEF Written, Cell
<1>2. WrittenCells(mine.cells, base.cells, base.cells) = mine.cells
  <2> DEFINE new == WrittenCells(mine.cells, base.cells, base.cells)
  <2>1. DOMAIN new = DOMAIN mine.cells /\ new = [i \in DOMAIN new |-> new[i]]
    BY DEF WrittenCells
  <2>2. \A i \in DOMAIN mine.cells : new[i] = mine.cells[i]
    <3>1. \A i \in DOMAIN mine.cells :
             new[i] = IF i \in DOMAIN mine.cells \ DOMAIN base.cells THEN mine.cells[i]
                      ELSE Written(mine.cells[i], base.cells[i], base.cells[i])
      BY DEF WrittenCells
    <3>2. /\ \A i \in DOMAIN mine.cells : mine.cells[i] \in Cell
          /\ \A i \in DOMAIN base.cells : base.cells[i] \in Cell
      BY DEF IsGrid
    <3> HIDE DEF new
    <3> QED
      BY <1>1, <3>1, <3>2
  <2>3. mine.cells = [i \in DOMAIN mine.cells |-> mine.cells[i]]
    BY DEF IsGrid
  <2> HIDE DEF new
  <2> QED
    BY <2>1, <2>2, <2>3 DEF new
<1> QED
  BY <1>2 DEF RowsAfter, IsGrid

(* What persist_page_pipeline_result writes for a detected table.          *)
LEMMA DetectedRows ==
    ASSUME NEW n \in Int, NEW t \in Table
    PROVE  LET g == Detected(n, t)
           IN IsGrid(g) /\ Sound(g) /\ \A i \in DOMAIN g.cells : i[1] = n
<1> DEFINE g == Detected(n, t)
           rows == Size[t][1]  cols == Size[t][2]
           names == {<<n, 10 * x[1] + x[2]>> : x \in (0 .. rows - 1) \X (0 .. cols - 1)}
<1>1. rows \in 1 .. 3 /\ cols \in 1 .. 3
  BY SizeAssumption
<1>2. /\ g = [n_rows |-> rows, n_cols |-> cols, heights |-> rows, cells |-> g.cells]
      /\ DOMAIN g.cells = names /\ g.cells = [i \in names |-> g.cells[i]]
      /\ \A i \in names :
            g.cells[i] = [row |-> i[2] \div 10, column |-> i[2] % 10,
                          rowspan |-> 1, colspan |-> 1, text |-> {i}]
  BY DEF Detected, NewCell
<1>3. \A i \in names :
         /\ i \in Name /\ i[1] = n /\ i = <<n, i[2]>>
         /\ \E r \in 0 .. rows - 1 : \E c \in 0 .. cols - 1 : i = <<n, 10 * r + c>>
  BY <1>1 DEF Name
<1> HIDE DEF g, names, rows, cols
<1>4. \A i \in names :
         /\ i[2] \in Nat /\ i[2] \in 0 .. 22
         /\ i[2] \div 10 \in 0 .. rows - 1 /\ i[2] % 10 \in 0 .. cols - 1
         /\ i[2] = 10 * (i[2] \div 10) + (i[2] % 10)
  <2> TAKE i \in names
  <2>1. PICK r \in 0 .. rows - 1, c \in 0 .. cols - 1 : i = <<n, 10 * r + c>>
    BY <1>3
  <2>2. i[2] = 10 * r + c /\ r \in 0 .. 2 /\ c \in 0 .. 2
    BY <1>1, <2>1
  <2>3. i[2] \div 10 = r /\ i[2] % 10 = c /\ i[2] \in 0 .. 22
    BY <2>2
  <2> QED
    BY <2>1, <2>2, <2>3
<1>5. \A i \in names : /\ g.cells[i] \in Cell
                       /\ g.cells[i].row = i[2] \div 10 /\ g.cells[i].column = i[2] % 10
  <2> TAKE i \in names
  <2> DEFINE r == i[2] \div 10  c == i[2] % 10
  <2>1. r \in Nat /\ c \in Nat /\ {i} \in SUBSET Name
    BY <1>1, <1>3, <1>4
  <2>2. g.cells[i] = [row |-> r, column |-> c, rowspan |-> 1, colspan |-> 1, text |-> {i}]
    BY <1>2
  <2> HIDE DEF r, c
  <2>3. g.cells[i] \in Cell /\ g.cells[i].row = r /\ g.cells[i].column = c
    BY <2>1, <2>2 DEF Cell
  <2> QED
    BY <2>3 DEF r, c
<1>6. IsFiniteSet(names)
  <2> DEFINE f == [x \in 0 .. 22 |-> <<n, x>>]
  <2>1. IsFiniteSet({f[x] : x \in DOMAIN f})
    <3>1. IsFiniteSet(DOMAIN f)
      <4>1. \A m \in Nat : IsFiniteSet(0 .. m)
        BY FS_Interval
      <4> QED
        BY <4>1
    <3> HIDE DEF f
    <3> QED
      BY <3>1, FiniteImage
  <2>2. names \subseteq {f[x] : x \in DOMAIN f}
    BY <1>3, <1>4
  <2> QED
    BY <2>1, <2>2, FS_Subset
<1>7. IsGrid(g)
  BY <1>1, <1>2, <1>3, <1>5, <1>6 DEF IsGrid
<1>8. Sound(g)
  <2>1. ASSUME NEW i \in names, NEW j \in names,
               i[2] \div 10 = j[2] \div 10, i[2] % 10 = j[2] % 10
        PROVE  i = j
    <3>1. i[2] = 10 * (i[2] \div 10) + (i[2] % 10) /\ j[2] = 10 * (j[2] \div 10) + (j[2] % 10)
      BY <1>4
    <3>2. i[2] = j[2]
      BY ONLY <2>1, <3>1
    <3> QED
      BY <1>3, <3>2
  <2>2. \A i, j \in names :
           g.cells[i].row = g.cells[j].row /\ g.cells[i].column = g.cells[j].column => i = j
    BY <1>5, <2>1
  <2>3. \A i \in names : g.cells[i].row \in 0 .. rows - 1 /\ g.cells[i].column \in 0 .. cols - 1
    BY <1>1, <1>4, <1>5
  <2>4. /\ DOMAIN g.cells = names
        /\ g.n_rows = rows /\ g.n_cols = cols /\ g.heights = rows
    BY <1>2
  <2> QED
    BY <2>2, <2>3, <2>4 DEF Sound
<1> QED
  BY <1>2, <1>3, <1>7, <1>8 DEF g

-----------------------------------------------------------------------------
(* Requests                                                                *)

LEMMA Requested ==
    ASSUME TypeOK, NEW h \in Handler, Busy(h)
    PROVE  /\ IsRequest(req[h]) /\ Target(h) \in Table
           /\ req[h].op \in Ops /\ req[h].ask.op = req[h].op /\ req[h].k \in Nat
           /\ req[h].pc \in {"commit", "read", "write"}
BY DEF TypeOK, IsRequest, Target

(* What a request becomes: its other columns stay.                         *)
LEMMA GoesOn ==
    ASSUME NEW r, IsRequest(r)
    PROVE  /\ LET s == [r EXCEPT !.pc = "read", !.base = {}]
              IN /\ IsRequest(s) /\ s.pc = "read"
                 /\ s.op = r.op /\ s.k = r.k /\ s.overlap = r.overlap /\ s.ask = r.ask
           /\ LET s == [r EXCEPT !.overlap = TRUE]
              IN /\ IsRequest(s) /\ s.pc = r.pc /\ s.overlap
                 /\ s.op = r.op /\ s.k = r.k /\ s.ask = r.ask
                 /\ s.base = r.base /\ s.json = r.json
<1> DEFINE Fields(s) == /\ DOMAIN s = {"pc", "op", "k", "overlap", "ask", "base", "json"}
                        /\ s = [f \in DOMAIN s |-> s[f]]
           Common(s) == s.op = r.op /\ s.k = r.k /\ s.overlap = r.overlap /\ s.ask = r.ask
           Types(s) == /\ s.op \in Ops /\ s.k \in Nat /\ s.overlap \in BOOLEAN
                       /\ s.ask \in [op : {s.op}, table : Table, at : Int, ids : SUBSET Name]
<1>1. Fields(r) /\ Types(r) /\ r.pc \in {"commit", "read", "write"}
  BY DEF IsRequest
<1>2. ASSUME NEW s, Fields(s), Types(s), s.pc \in {"commit", "read", "write"},
             s.pc = "commit" => IsGrid(s.base) /\ Fits(s.ask, s.base),
             s.pc = "write" => IsPage(s.json)
      PROVE  IsRequest(s)
  BY <1>2 DEF IsRequest
<1>3. LET s == [r EXCEPT !.pc = "read", !.base = {}] IN IsRequest(s) /\ s.pc = "read" /\ Common(s)
  <2> DEFINE u == [r EXCEPT !.pc = "read"]
             s == [u EXCEPT !.base = {}]
  <2>1. Fields(u) /\ u.pc = "read" /\ Common(u)
    BY <1>1
  <2> HIDE DEF u
  <2>2. Fields(s) /\ s.pc = "read" /\ Common(s)
    BY <2>1
  <2> HIDE DEF s
  <2>3. IsRequest(s)
    BY <1>1, <1>2, <2>2
  <2> QED
    BY <2>2, <2>3 DEF s, u
<1>4. LET s == [r EXCEPT !.overlap = TRUE]
      IN /\ IsRequest(s) /\ s.pc = r.pc /\ s.overlap
         /\ s.op = r.op /\ s.k = r.k /\ s.ask = r.ask
         /\ s.base = r.base /\ s.json = r.json
  <2> DEFINE s == [r EXCEPT !.overlap = TRUE]
  <2>1. /\ Fields(s) /\ s.pc = r.pc /\ s.overlap = TRUE
        /\ s.op = r.op /\ s.k = r.k /\ s.ask = r.ask
        /\ s.base = r.base /\ s.json = r.json
    BY <1>1
  <2>2. (r.pc = "commit" => IsGrid(r.base) /\ Fits(r.ask, r.base)) /\ (r.pc = "write" => IsPage(r.json))
    BY DEF IsRequest
  <2> HIDE DEF s
  <2>3. IsRequest(s)
    BY <1>1, <1>2, <2>1, <2>2
  <2> QED
    BY <2>1, <2>3 DEF s
<1> QED
  BY <1>3, <1>4

LEMMA Prepared ==
    ASSUME NEW r, NEW json, IsRequest(r), IsPage(json)
    PROVE  LET s == [r EXCEPT !.pc = "write", !.json = json]
           IN /\ IsRequest(s) /\ s.pc = "write" /\ s.json = json
              /\ s.op = r.op /\ s.k = r.k /\ s.overlap = r.overlap /\ s.ask = r.ask
<1> DEFINE u == [r EXCEPT !.pc = "write"]
           s == [u EXCEPT !.json = json]
           Fields(x) == /\ DOMAIN x = {"pc", "op", "k", "overlap", "ask", "base", "json"}
                        /\ x = [f \in DOMAIN x |-> x[f]]
           Common(x) == x.op = r.op /\ x.k = r.k /\ x.overlap = r.overlap /\ x.ask = r.ask
<1>1. /\ Fields(r)
      /\ r.op \in Ops /\ r.k \in Nat /\ r.overlap \in BOOLEAN
      /\ r.ask \in [op : {r.op}, table : Table, at : Int, ids : SUBSET Name]
  BY DEF IsRequest
<1>2. Fields(u) /\ u.pc = "write" /\ Common(u)
  BY <1>1
<1> HIDE DEF u
<1>3. Fields(s) /\ s.pc = "write" /\ s.json = json /\ Common(s)
  BY <1>2
<1> HIDE DEF s
<1>4. IsRequest(s)
  BY <1>1, <1>3 DEF IsRequest
<1> QED
  BY <1>3, <1>4 DEF s, u

LEMMA RequestsFit ==
    ASSUME TypeOK, NEW t \in Table, NEW r \in Requests(t)
    PROVE  /\ r \in [op : {r.op}, table : Table, at : Int, ids : SUBSET Name]
           /\ r.op \in Ops /\ r.table = t
           /\ Fits(r, grid[t])
<1> DEFINE g == grid[t]
           R(op, at, ids) == [op |-> op, table |-> t, at |-> at, ids |-> ids]
<1>0. g.n_rows \in Nat /\ g.n_cols \in Nat /\ DOMAIN g.cells \subseteq Name
  BY DEF TypeOK, IsGrid
<1>1. \/ \E n \in Int : \/ r = R("add_row", n, {}) \/ r = R("add_column", n, {})
                      \/ r = R("delete_row", n, {}) \/ r = R("delete_column", n, {})
      \/ \E ids \in SUBSET DOMAIN g.cells : r = R("merge_cells", 0, ids)
      \/ \E i \in DOMAIN g.cells : r = R("split_cell", 0, {i})
      \/ \E i \in DOMAIN g.cells : r = R("cell", 0, {i})
      \/ r = R("block", 0, {})
  BY SpanAssumption DEF Requests
<1> HIDE DEF g
<1> QED
  BY <1>0, <1>1 DEF Fits, Ops, Structural, g

-----------------------------------------------------------------------------
(* Commits                                                                 *)

(* What a commit touches: its own table, its own request.                  *)
LEMMA CommitTouches ==
    ASSUME EditsInv, NEW h \in Handler, CommitRows(h)
    PROVE  /\ Target(h) \in Table /\ Busy(h) /\ At(h, "commit") /\ req[h].op # "block"
           /\ IsRequest(req[h]) /\ UNCHANGED <<block, page, edits, runs>>
           /\ doubt \subseteq doubt' /\ doubt' \subseteq doubt \cup {Target(h)}
           /\ DOMAIN req' = Handler /\ \A q \in Handler \ {h} : req'[q] = req[q]
<1> DEFINE t == Target(h)
<1>1. Busy(h) /\ At(h, "commit") /\ req[h].op # "block"
  BY DEF CommitRows, At
<1>2. IsRequest(req[h]) /\ t \in Table /\ DOMAIN req = Handler
  BY <1>1, Requested DEF EditsInv, TypeOK
<1>3. UNCHANGED <<block, page, edits, runs>>
  BY DEF CommitRows
<1>4. PICK r : req' = [req EXCEPT ![h] = r]
  BY DEF CommitRows, Fails
<1>5. doubt' \in {doubt, doubt \cup {t}}
  BY DEF CommitRows
<1>6. DOMAIN req' = Handler /\ \A q \in Handler \ {h} : req'[q] = req[q]
  BY <1>2, <1>4
<1> QED
  BY <1>1, <1>2, <1>3, <1>5, <1>6

(* A commit writes one table's rows, or its request fails.                 *)
LEMMA CommitKinds ==
    ASSUME EditsInv, NEW h \in Handler, CommitRows(h)
    PROVE  LET t == Target(h)  base == req[h].base  ask == req[h].ask
           IN /\ t \in Table /\ Busy(h) /\ At(h, "commit") /\ req[h].op # "block"
              /\ IsRequest(req[h]) /\ \A i \in DOMAIN base.cells : i[1] # req[h].k
              /\ UNCHANGED <<block, page, edits, runs>>
              /\ doubt \subseteq doubt' /\ doubt' \subseteq doubt \cup {t}
              /\ \/ UNCHANGED <<grid, ragged, doubt>> /\ req' = [req EXCEPT ![h] = Idle]
                 \/ /\ req' = [req EXCEPT ![h] = [req[h] EXCEPT !.pc = "read", !.base = {}]]
                    /\ \E g \in Edited(h) :
                         /\ grid' = [grid EXCEPT ![t] = RowsAfter(g, base, grid[t])]
                         /\ req[h].op = "cell" /\ t \notin doubt' => Respanned(base, g) = {}
                    /\ ragged \subseteq ragged' /\ ragged' \subseteq ragged \cup {t}
                    /\ t \notin ragged' =>
                         /\ ~req[h].overlap /\ ~OutOfRange(ask, base)
                         /\ ~(req[h].op = "merge_cells" /\ CornerTaken(base, ask.ids))
<1> DEFINE t == Target(h)  base == req[h].base  ask == req[h].ask
           odd == \/ req[h].overlap \/ OutOfRange(ask, base)
                  \/ ask.op = "merge_cells" /\ CornerTaken(base, ask.ids)
           spans(g) == ask.op = "cell" /\ Respanned(base, g) # {}
<1>1. Busy(h) /\ At(h, "commit") /\ req[h].op # "block"
  BY DEF CommitRows, At
<1>2. /\ IsRequest(req[h]) /\ t \in Table /\ ask.op = req[h].op
      /\ \A i \in DOMAIN base.cells : i[1] # req[h].k
  <2>1. IsRequest(req[h]) /\ t \in Table /\ ask.op = req[h].op
    BY <1>1, Requested DEF EditsInv
  <2> QED
    BY <1>1, <2>1 DEF EditsInv, NamesInv
<1>3. UNCHANGED <<block, page, edits, runs>>
  BY DEF CommitRows
<1>4. PICK g \in Edited(h) :
        \/ UNCHANGED <<grid, ragged, doubt>> /\ req' = [req EXCEPT ![h] = Idle]
        \/ /\ grid' = [grid EXCEPT ![t] = RowsAfter(g, base, grid[t])]
           /\ req' = [req EXCEPT ![h] = [req[h] EXCEPT !.pc = "read", !.base = {}]]
           /\ ragged' = IF odd THEN ragged \cup {t} ELSE ragged
           /\ doubt' = IF spans(g) THEN doubt \cup {t} ELSE doubt
  BY DEF CommitRows, Fails
<1>5. CASE UNCHANGED <<grid, ragged, doubt>> /\ req' = [req EXCEPT ![h] = Idle]
  BY <1>1, <1>2, <1>3, <1>5
<1>6. CASE /\ grid' = [grid EXCEPT ![t] = RowsAfter(g, base, grid[t])]
           /\ req' = [req EXCEPT ![h] = [req[h] EXCEPT !.pc = "read", !.base = {}]]
           /\ ragged' = IF odd THEN ragged \cup {t} ELSE ragged
           /\ doubt' = IF spans(g) THEN doubt \cup {t} ELSE doubt
  <2>1. t \notin ragged' => /\ ~req[h].overlap /\ ~OutOfRange(ask, base)
                           /\ ~(req[h].op = "merge_cells" /\ CornerTaken(base, ask.ids))
    <3> HIDE DEF t, base, ask
    <3> QED
      BY <1>2, <1>6
  <2>2. req[h].op = "cell" /\ t \notin doubt' => Respanned(base, g) = {}
    <3> HIDE DEF t, base, ask
    <3> QED
      BY <1>2, <1>6
  <2> HIDE DEF odd, spans
  <2>3. /\ ragged \subseteq ragged' /\ ragged' \subseteq ragged \cup {t}
        /\ doubt \subseteq doubt' /\ doubt' \subseteq doubt \cup {t}
    BY <1>6
  <2> HIDE DEF t, base, ask
  <2> QED
    BY <1>1, <1>2, <1>3, <1>6, <2>1, <2>2, <2>3 DEF t, base, ask
<1> QED
  BY <1>4, <1>5, <1>6

(* Its rows stay rows and get only names of the request.                   *)
LEMMA CommitResult ==
    ASSUME EditsInv, NEW h \in Handler, CommitRows(h)
    PROVE  /\ DOMAIN grid' = Table
           /\ \A u \in Table \ {Target(h)} : grid'[u] = grid[u]
           /\ \A u \in Table : IsGrid(grid'[u])
           /\ \A u \in Table : \A i \in DOMAIN grid'[u].cells \ DOMAIN grid[u].cells : i[1] = req[h].k
<1> DEFINE t == Target(h)  base == req[h].base
<1>0. DOMAIN grid = Table /\ \A u \in Table : IsGrid(grid[u])
  BY DEF EditsInv, TypeOK
<1>1. CASE grid' = grid
  BY <1>0, <1>1
<1>2. CASE grid' # grid
  <2>1. PICK g \in Edited(h) : grid' = [grid EXCEPT ![t] = RowsAfter(g, base, grid[t])]
    BY <1>2, CommitKinds
  <2>2. IsGrid(base) /\ IsGrid(g) /\ \A i \in DOMAIN g.cells \ DOMAIN base.cells : i[1] = req[h].k
    BY CommitKinds, EditKinds
  <2>3. t \in Table
    BY CommitKinds
  <2> HIDE DEF t, base
  <2>4. /\ IsGrid(RowsAfter(g, base, grid[t]))
        /\ \A i \in DOMAIN RowsAfter(g, base, grid[t]).cells \ DOMAIN grid[t].cells :
              i \in DOMAIN g.cells \ DOMAIN base.cells
    BY <1>0, <2>2, <2>3, RowsWritten
  <2> QED
    BY <1>0, <2>1, <2>2, <2>3, <2>4 DEF t
<1> QED
  BY <1>1, <1>2

(* A request that nobody overlapped stores exactly its edit.               *)
LEMMA CommitAlone ==
    ASSUME EditsInv, NEW h \in Handler, CommitRows(h), ~req[h].overlap, Busy(h)'
    PROVE  \E g \in Edited(h) :
              /\ req[h].base = grid[Target(h)] /\ IsGrid(g)
              /\ grid' = [grid EXCEPT ![Target(h)] = g]
              /\ req[h].op = "cell" /\ Target(h) \notin doubt' => Respanned(req[h].base, g) = {}
<1>0. req' # [req EXCEPT ![h] = Idle]
  BY DEF Busy, EditsInv, TypeOK
<1>1. PICK g \in Edited(h) :
        /\ grid' = [grid EXCEPT ![Target(h)] = RowsAfter(g, req[h].base, grid[Target(h)])]
        /\ req[h].op = "cell" /\ Target(h) \notin doubt' => Respanned(req[h].base, g) = {}
  BY <1>0, CommitKinds
<1>2. IsGrid(req[h].base) /\ IsGrid(g)
  BY CommitKinds, EditKinds
<1>3. req[h].base = grid[Target(h)]
  BY CommitKinds DEF EditsInv, AloneInv
<1> QED
  BY <1>1, <1>2, <1>3, WrittenAlone

-----------------------------------------------------------------------------
(* Types, names and loaded rows: every step keeps EditsInv                 *)

LEMMA JsonTyped ==
    ASSUME NEW g, IsGrid(g)
    PROVE  JsonOf(g) \in SUBSET Cell
BY DEF IsGrid, JsonOf, Cells

LEMMA EditsInit == Init => EditsInv
<1> SUFFICES ASSUME Init  PROVE EditsInv
  OBVIOUS
<1>1. \A h \in Handler : ~Busy(h) /\ ~At(h, "commit")
  BY DEF Init, Busy, At
<1>2. DOMAIN grid = Table /\ \A t \in Table :
         IsGrid(grid[t]) /\ \A i \in DOMAIN grid[t].cells : i[1] = 0
  <2>1. DOMAIN grid = Table /\ \A t \in Table : grid[t] = Detected(0, t)
    BY DEF Init
  <2> QED
    BY <2>1, DetectedRows
<1>3. IsPage(page)
  BY <1>2, JsonTyped DEF Init, IsPage
<1>4. TypeOK
  BY <1>1, <1>2, <1>3, BoundsAssumption DEF Init, TypeOK
<1>5. NamesInv /\ AloneInv
  BY <1>1, <1>2 DEF Init, NamesInv, AloneInv
<1> QED
  BY <1>4, <1>5 DEF EditsInv

(* What a request that arrives does to the others, and how it starts.      *)
LEMMA LoadKinds ==
    ASSUME EditsInv, NEW h \in Handler, Load(h)
    PROVE  /\ ~Busy(h) /\ edits' = edits + 1 /\ edits < MaxEdits
           /\ UNCHANGED <<grid, block, page, runs, ragged, doubt>>
           /\ DOMAIN req' = Handler
           /\ \E t \in Table :
                /\ IsRequest(req'[h]) /\ req'[h].pc = "commit" /\ req'[h].ask.table = t
                /\ req'[h].base = grid[t] /\ req'[h].k = edits + 1
                /\ req'[h].overlap <=> \E p \in Handler : Busy(p)
           /\ \A q \in Handler \ {h} :
                IF Busy(q) THEN req'[q] = [req[q] EXCEPT !.overlap = TRUE] ELSE req'[q] = Idle
<1> DEFINE NewReq(t, r) ==
        req' = [q \in Handler |->
          IF q = h THEN [pc |-> "commit", ask |-> r, op |-> r.op, k |-> edits',
                         base |-> grid[t], json |-> {}, overlap |-> \E p \in Handler : Busy(p)]
          ELSE IF Busy(q) THEN [req[q] EXCEPT !.overlap = TRUE] ELSE Idle]
<1>1. /\ ~Busy(h) /\ edits' = edits + 1 /\ edits < MaxEdits
      /\ UNCHANGED <<grid, block, page, runs, ragged, doubt>>
  BY DEF Load
<1>2. PICK t \in Table : \E r \in Requests(t) : NewReq(t, r)
  BY Zenon DEF Load
<1>3. PICK r \in Requests(t) : NewReq(t, r)
  BY <1>2
<1>4. TypeOK /\ IsGrid(grid[t]) /\ edits \in Nat
  BY DEF EditsInv, TypeOK
<1>5. /\ r \in [op : {r.op}, table : Table, at : Int, ids : SUBSET Name]
      /\ r.op \in Ops /\ r.table = t /\ Fits(r, grid[t])
  BY <1>4, RequestsFit
<1>6. \E b \in BOOLEAN : /\ b <=> \E p \in Handler : Busy(p)
                         /\ req'[h] = [pc |-> "commit", ask |-> r, op |-> r.op, k |-> edits + 1,
                                       base |-> grid[t], json |-> {}, overlap |-> b]
  BY <1>1, <1>3
<1>7. /\ IsRequest(req'[h]) /\ req'[h].pc = "commit" /\ req'[h].ask.table = t
      /\ req'[h].base = grid[t] /\ req'[h].k = edits + 1
      /\ req'[h].overlap <=> \E p \in Handler : Busy(p)
  <2>1. PICK b \in BOOLEAN : /\ b <=> \E p \in Handler : Busy(p)
                             /\ req'[h] = [pc |-> "commit", ask |-> r, op |-> r.op, k |-> edits + 1,
                                           base |-> grid[t], json |-> {}, overlap |-> b]
    BY <1>6
  <2> DEFINE s == req'[h]
  <2>2. /\ DOMAIN s = {"pc", "op", "k", "overlap", "ask", "base", "json"}
        /\ s.pc = "commit" /\ s.ask = r /\ s.op = r.op /\ s.k = edits + 1
        /\ s.base = grid[t] /\ s.json = {} /\ s.overlap = b
        /\ s = [f \in DOMAIN s |-> s[f]]
    BY <2>1
  <2> HIDE DEF s
  <2>3. IsRequest(s)
    BY <1>4, <1>5, <2>2 DEF IsRequest
  <2> QED
    BY <1>5, <2>1, <2>2, <2>3 DEF s
<1>8. DOMAIN req' = Handler
      /\ \A q \in Handler \ {h} :
            IF Busy(q) THEN req'[q] = [req[q] EXCEPT !.overlap = TRUE] ELSE req'[q] = Idle
  BY <1>3
<1> QED
  BY <1>1, <1>7, <1>8

(* The requests that a new request or a reprocessing run overlaps.         *)
LEMMA Overlapped ==
    ASSUME TypeOK, NEW q \in Handler,
           IF Busy(q) THEN req'[q] = [req[q] EXCEPT !.overlap = TRUE] ELSE req'[q] = Idle
    PROVE  /\ Busy(q)' <=> Busy(q)
           /\ Busy(q) => /\ IsRequest(req'[q]) /\ req'[q].overlap
                         /\ req'[q].pc = req[q].pc /\ req'[q].op = req[q].op
                         /\ req'[q].k = req[q].k /\ req'[q].ask = req[q].ask
                         /\ req'[q].base = req[q].base /\ req'[q].json = req[q].json
<1>1. CASE Busy(q)
  <2>1. IsRequest(req[q]) /\ req'[q] = [req[q] EXCEPT !.overlap = TRUE]
    BY <1>1, Requested
  <2> DEFINE s == [req[q] EXCEPT !.overlap = TRUE]
  <2>2. /\ IsRequest(s) /\ s.overlap /\ s.pc = req[q].pc /\ s.op = req[q].op
        /\ s.k = req[q].k /\ s.ask = req[q].ask /\ s.base = req[q].base /\ s.json = req[q].json
    BY <2>1, GoesOn
  <2> HIDE DEF s
  <2>3. req'[q] = s
    BY <2>1 DEF s
  <2>4. s # Idle
    BY <2>2 DEF IsRequest, Idle
  <2> QED
    BY <1>1, <2>2, <2>3, <2>4 DEF Busy
<1>2. CASE ~Busy(q)
  BY <1>2 DEF Busy
<1> QED
  BY <1>1, <1>2

(* A new request names itself as nobody did before.                        *)
LEMMA LoadStep ==
    ASSUME EditsInv, NEW h \in Handler, Load(h)
    PROVE  EditsInv'
<1> USE DEF EditsInv
<1>1. PICK t \in Table :
        /\ IsRequest(req'[h]) /\ req'[h].pc = "commit" /\ req'[h].ask.table = t
        /\ req'[h].base = grid[t] /\ req'[h].k = edits + 1
        /\ req'[h].overlap <=> \E p \in Handler : Busy(p)
  BY LoadKinds
<1>2. /\ ~Busy(h) /\ edits' = edits + 1 /\ edits < MaxEdits /\ DOMAIN req' = Handler
      /\ UNCHANGED <<grid, block, page, runs, ragged, doubt>>
      /\ edits \in Nat /\ MaxEdits \in Nat
  BY LoadKinds, BoundsAssumption DEF TypeOK
<1>3. \A q \in Handler \ {h} :
         /\ Busy(q)' <=> Busy(q)
         /\ Busy(q) => /\ IsRequest(req'[q]) /\ req'[q].overlap
                       /\ req'[q].pc = req[q].pc /\ req'[q].op = req[q].op
                       /\ req'[q].k = req[q].k /\ req'[q].ask = req[q].ask
                       /\ req'[q].base = req[q].base /\ req'[q].json = req[q].json
  BY LoadKinds, Overlapped
<1>4. TypeOK'
  <2>1. \A q \in Handler : Busy(q)' => IsRequest(req'[q])
    BY <1>1, <1>3
  <2>2. \A q \in Handler : Busy(q)' => IsRequest(req[q])'
    BY <2>1 DEF IsRequest, Fits
  <2>3. /\ (DOMAIN grid = Table)' /\ \A u \in Table : IsGrid(grid[u])'
        /\ (block \in Nat)' /\ IsPage(page)' /\ (runs \in 0 .. MaxReprocess)'
        /\ (ragged \subseteq Table)' /\ (doubt \subseteq Table)'
    BY <1>2 DEF TypeOK, IsGrid, IsPage
  <2> QED
    BY <1>2, <2>2, <2>3 DEF TypeOK
<1>5. \A q \in Handler \ {h} : At(q, "commit")' =>
         At(q, "commit") /\ req'[q].k = req[q].k /\ req'[q].base = req[q].base
  BY <1>3 DEF At
<1>6. NamesInv'
  <2>3. \A u \in Table : \A i \in DOMAIN grid[u].cells : i[1] \in Int /\ i[1] <= edits
    BY DEF NamesInv, TypeOK, IsGrid, Name
  <2>4. \A q \in Handler : At(q, "commit")' =>
          /\ req'[q].k \in 1 .. edits'
          /\ \A i \in DOMAIN req'[q].base.cells : i[1] # req'[q].k
          /\ \A u \in Table : \A i \in DOMAIN grid'[u].cells : i[1] # req'[q].k
    <3> TAKE q \in Handler
    <3>1. CASE q = h
      BY <1>1, <1>2, <2>3, <3>1
    <3>2. CASE q # h
      BY <1>2, <1>5, <3>2 DEF NamesInv
    <3> QED
      BY <3>1, <3>2
  <2>5. \A q, p \in Handler : At(q, "commit")' /\ At(p, "commit")' /\ req'[p].k = req'[q].k => p = q
    <3>1. \A q \in Handler \ {h} : At(q, "commit")' => req'[q].k # req'[h].k
      BY <1>1, <1>2, <1>5 DEF NamesInv
    <3> QED
      BY <1>5, <3>1 DEF NamesInv
  <2> QED
    BY <1>2, <2>3, <2>4, <2>5 DEF NamesInv
<1>7. AloneInv'
  <2>1. \A p \in Handler : Busy(p)' /\ ~req'[p].overlap => p = h
    BY <1>3
  <2>2. ~req'[h].overlap => \A p \in Handler : Busy(p)' => p = h
    BY <1>1, <1>3
  <2>3. req'[h].base = grid'[Target(h)'] /\ ~At(h, "read")'
    BY <1>1, <1>2 DEF Target, At
  <2> QED
    BY <2>1, <2>2, <2>3 DEF AloneInv
<1> QED
  BY <1>4, <1>6, <1>7

LEMMA CommitStep ==
    ASSUME EditsInv, NEW h \in Handler, CommitRows(h)
    PROVE  EditsInv'
<1> USE DEF EditsInv
<1>1. /\ IsRequest(req[h]) /\ At(h, "commit") /\ req[h].op # "block" /\ Target(h) \in Table
      /\ UNCHANGED <<block, page, edits, runs>> /\ doubt' \subseteq doubt \cup {Target(h)}
      /\ DOMAIN req' = Handler /\ \A q \in Handler \ {h} : req'[q] = req[q]
  BY CommitTouches
<1>2. /\ ~At(h, "commit")'
      /\ Busy(h)' => /\ IsRequest(req'[h]) /\ req'[h].overlap = req[h].overlap
                     /\ req'[h].op = req[h].op /\ req'[h].ask = req[h].ask
                     /\ req'[h] # req[h]
  <2>1. CASE req' = [req EXCEPT ![h] = Idle]
    BY <2>1 DEF At, Busy, TypeOK
  <2>2. CASE req' = [req EXCEPT ![h] = [req[h] EXCEPT !.pc = "read", !.base = {}]]
    <3> DEFINE s == [req[h] EXCEPT !.pc = "read", !.base = {}]
    <3>1. /\ IsRequest(s) /\ s.pc = "read" /\ s.overlap = req[h].overlap
          /\ s.op = req[h].op /\ s.ask = req[h].ask
      BY <1>1, GoesOn
    <3> HIDE DEF s
    <3>2. req'[h] = s
      BY <2>2 DEF s, TypeOK
    <3> QED
      BY <1>1, <3>1, <3>2 DEF At
  <2> QED
    BY <2>1, <2>2, CommitKinds
<1>3. TypeOK'
  <2>1. DOMAIN grid' = Table /\ \A u \in Table : IsGrid(grid'[u])
    BY CommitResult
  <2>2. \A q \in Handler : Busy(q)' => IsRequest(req'[q])
    BY <1>1, <1>2 DEF TypeOK, Busy
  <2>3. ragged' \subseteq Table
    BY <1>1, CommitKinds DEF TypeOK
  <2>4. (\A u \in Table : IsGrid(grid[u]))' /\ (\A q \in Handler : Busy(q) => IsRequest(req[q]))'
    BY <2>1, <2>2 DEF IsGrid, IsRequest, Fits
  <2>5. (block \in Nat)' /\ IsPage(page)' /\ (edits \in 0 .. MaxEdits)'
        /\ (runs \in 0 .. MaxReprocess)' /\ (doubt \subseteq Table)'
    BY <1>1 DEF TypeOK, IsPage
  <2> QED
    BY <1>1, <2>1, <2>3, <2>4, <2>5 DEF TypeOK
<1>4. \A q \in Handler : At(q, "commit")' => q # h /\ At(q, "commit") /\ req'[q] = req[q]
  BY <1>1, <1>2 DEF At, Busy
<1>5. NamesInv'
  <2>1. \A u \in Table : \A i \in DOMAIN grid'[u].cells :
           i \in DOMAIN grid[u].cells \/ i[1] = req[h].k
    BY CommitResult
  <2>2. req[h].k \in 1 .. edits /\ edits \in Nat
    BY <1>1 DEF NamesInv, TypeOK
  <2>3. \A q \in Handler \ {h} : At(q, "commit") => req[q].k # req[h].k
    BY <1>1 DEF NamesInv
  <2> QED
    BY <1>1, <1>4, <2>1, <2>2, <2>3 DEF NamesInv
<1>6. AloneInv'
  <2> SUFFICES ASSUME NEW q \in Handler, Busy(q)', ~req'[q].overlap
               PROVE  /\ \A p \in Handler : Busy(p)' => p = q
                      /\ At(q, "commit")' => req'[q].base = grid'[Target(q)']
                      /\ At(q, "read")' /\ req'[q].op = "cell" =>
                           \E i \in DOMAIN grid'[Target(q)'].cells : req'[q].ask.ids = {i}
    BY DEF AloneInv
  <2>1. \A p \in Handler : Busy(p)' => Busy(p)
    BY <1>1 DEF Busy, At
  <2>2. q = h
    <3>1. \A p \in Handler \ {h} : ~(Busy(p) /\ ~req[p].overlap)
      BY <1>1 DEF AloneInv, At
    <3> QED
      BY <1>1, <2>1, <3>1
  <2>3. ~req[h].overlap /\ \A p \in Handler : Busy(p) => p = h
    BY <1>1, <1>2, <2>2 DEF AloneInv, At
  <2>4. ASSUME req'[h].op = "cell"
        PROVE  \E i \in DOMAIN grid'[Target(h)'].cells : req'[h].ask.ids = {i}
    <3>1. req[h].op = "cell" /\ Target(h)' = Target(h) /\ req'[h].ask = req[h].ask
      BY <1>2, <2>2, <2>4 DEF Target
    <3>2. req' # [req EXCEPT ![h] = Idle]
      BY <2>2 DEF Busy, TypeOK
    <3>3. PICK g \in Edited(h) :
            grid' = [grid EXCEPT ![Target(h)] = RowsAfter(g, req[h].base, grid[Target(h)])]
      BY <3>2, CommitKinds
    <3>4. req[h].base = grid[Target(h)]
      BY <1>1, <2>3 DEF AloneInv, At
    <3>5. /\ IsGrid(req[h].base) /\ IsGrid(g)
          /\ \E i \in DOMAIN req[h].base.cells :
                req[h].ask.ids = {i} /\ DOMAIN g.cells = DOMAIN req[h].base.cells
      BY <3>1, CommitKinds, EditKinds
    <3>6. grid'[Target(h)] = g
      BY <1>1, <3>3, <3>4, <3>5, WrittenAlone DEF TypeOK
    <3> QED
      BY <3>1, <3>5, <3>6
  <2> QED
    BY <1>2, <2>1, <2>2, <2>3, <2>4
<1> QED
  BY <1>3, <1>5, <1>6

(* What a request makes of the page it reads.                              *)
LEMMA ReadKinds ==
    ASSUME TypeOK, NEW h \in Handler, ReadPage(h)
    PROVE  LET t == Target(h)
               live == req[h].ask.ids \cap DOMAIN grid[t].cells
               places == {<<grid[t].cells[i].row, grid[t].cells[i].column>> : i \in live}
               word == UNION {grid[t].cells[i].text : i \in live}
           IN /\ Busy(h) /\ req[h].pc = "read" /\ t \in Table
              /\ UNCHANGED <<grid, block, page, edits, runs, ragged, doubt>>
              /\ \E json :
                   /\ IsPage(json)
                   /\ req' = [req EXCEPT ![h] = [req[h] EXCEPT !.pc = "write", !.json = json]]
                   /\ req[h].op = "block" => json.tables = page.tables
                   /\ req[h].op = "cell" =>
                        \A u \in Table : json.tables[u] = Touched(page.tables[u], places, word)
                   /\ req[h].op \notin {"block", "cell"} =>
                        json.tables = [page.tables EXCEPT ![t] = JsonOf(grid[t])]
<1> DEFINE t == Target(h)
           live == req[h].ask.ids \cap DOMAIN grid[t].cells
           places == {<<grid[t].cells[i].row, grid[t].cells[i].column>> : i \in live}
           word == UNION {grid[t].cells[i].text : i \in live}
           json == CASE req[h].op = "block" -> [page EXCEPT !.text = block]
                     [] req[h].op = "cell" ->
                          [page EXCEPT !.tables = [u \in Table |-> Touched(page.tables[u], places, word)]]
                     [] OTHER -> [page EXCEPT !.tables[t] = JsonOf(grid[t])]
<1>1. Busy(h) /\ req[h].pc = "read" /\ UNCHANGED <<grid, block, page, edits, runs, ragged, doubt>>
  BY DEF ReadPage, At
<1>2. t \in Table /\ IsGrid(grid[t])
  BY <1>1, Requested DEF TypeOK
<1>3. req' = [req EXCEPT ![h] = [req[h] EXCEPT !.pc = "write", !.json = json]]
  BY DEF ReadPage, JsonAfterCommit
<1>4. word \in SUBSET Name /\ JsonOf(grid[t]) \in SUBSET Cell
  <2>1. \A i \in live : grid[t].cells[i].text \in SUBSET Name
    BY <1>2 DEF IsGrid, Cell
  <2> QED
    BY <1>2, <2>1, JsonTyped
<1>5. block \in Nat /\ IsPage(page)
  BY DEF TypeOK
<1> HIDE DEF t, live, places, word
<1>6. CASE req[h].op = "block"
  <2>1. json = [page EXCEPT !.text = block]
    BY <1>6
  <2>2. IsPage(json) /\ json.tables = page.tables
    BY <1>5, <2>1 DEF IsPage
  <2> QED
    BY <1>1, <1>2, <1>3, <1>6, <2>2 DEF t, live, places, word
<1>7. CASE req[h].op = "cell"
  <2> DEFINE all == [u \in Table |-> Touched(page.tables[u], places, word)]
  <2>1. json = [page EXCEPT !.tables = all]
    BY <1>7
  <2>2. ASSUME NEW u \in Table  PROVE Touched(page.tables[u], places, word) \in SUBSET Cell
    <3>1. page.tables[u] \in SUBSET Cell
      BY <1>5 DEF IsPage
    <3>2. \A c \in Cell : [c EXCEPT !.text = word] \in Cell
      BY <1>4 DEF Cell
    <3> DEFINE New(c) == IF <<c.row, c.column>> \in places THEN [c EXCEPT !.text = word] ELSE c
    <3>3. \A c \in page.tables[u] : New(c) \in Cell
      BY <3>1, <3>2
    <3>4. Touched(page.tables[u], places, word) = {New(c) : c \in page.tables[u]}
      BY DEF Touched
    <3> HIDE DEF New
    <3> QED
      BY <3>3, <3>4
  <2>3. all \in [Table -> SUBSET Cell]
    BY <2>2
  <2>4. \A u \in Table : all[u] = Touched(page.tables[u], places, word)
    OBVIOUS
  <2> HIDE DEF all
  <2>5. IsPage(json) /\ json.tables = all
    BY <1>5, <2>1, <2>3 DEF IsPage
  <2> HIDE DEF json
  <2> QED
    BY <1>1, <1>2, <1>3, <1>7, <2>4, <2>5 DEF t, live, places, word
<1>8. CASE req[h].op \notin {"block", "cell"}
  <2> DEFINE new == JsonOf(grid[t])
  <2>1. json = [page EXCEPT !.tables[t] = new]
    BY <1>8
  <2> HIDE DEF new
  <2>2. json.tables = [page.tables EXCEPT ![t] = new] /\ IsPage(json)
    BY <1>2, <1>4, <1>5, <2>1 DEF IsPage, new
  <2> HIDE DEF json
  <2> QED
    BY <1>1, <1>2, <1>3, <1>8, <2>2 DEF t, live, places, word, new
<1> QED
  BY <1>6, <1>7, <1>8

(* The other steps of a request leave the rows alone.                      *)
LEMMA RequestStep ==
    ASSUME EditsInv, NEW h \in Handler, CommitBlock(h) \/ ReadPage(h) \/ WritePage(h)
    PROVE  EditsInv'
<1> USE DEF EditsInv
<1>1. UNCHANGED <<grid, edits, runs, ragged>> /\ Busy(h) /\ IsRequest(req[h])
      /\ DOMAIN req' = Handler /\ \A q \in Handler \ {h} : req'[q] = req[q]
  <2>1. Busy(h) /\ UNCHANGED <<grid, edits, runs, ragged>>
    BY DEF CommitBlock, ReadPage, WritePage, At
  <2>2. DOMAIN req' = Handler /\ \A q \in Handler \ {h} : req'[q] = req[q]
    BY DEF CommitBlock, ReadPage, WritePage, TypeOK
  <2> QED
    BY <2>1, <2>2 DEF TypeOK
<1>2. /\ ~At(h, "commit")'
      /\ Busy(h)' => /\ IsRequest(req'[h]) /\ req'[h].overlap = req[h].overlap
                     /\ ~(At(h, "read")' /\ req'[h].op = "cell")
  <2>1. CASE CommitBlock(h)
    <3> DEFINE s == [req[h] EXCEPT !.pc = "read", !.base = {}]
    <3>1. IsRequest(s) /\ s.pc = "read" /\ s.overlap = req[h].overlap /\ s.op = "block"
      BY <1>1, <2>1, GoesOn DEF CommitBlock
    <3> HIDE DEF s
    <3>2. req'[h] = s
      BY <2>1 DEF CommitBlock, s, TypeOK
    <3> QED
      BY <3>1, <3>2 DEF At
  <2>2. CASE ReadPage(h)
    <3>1. PICK json : /\ IsPage(json)
                      /\ req' = [req EXCEPT ![h] = [req[h] EXCEPT !.pc = "write", !.json = json]]
      BY <2>2, ReadKinds
    <3> DEFINE s == [req[h] EXCEPT !.pc = "write", !.json = json]
    <3>a. IsRequest(req[h]) /\ IsPage(json)
      BY <1>1, <3>1
    <3>2. IsRequest(s) /\ s.pc = "write" /\ s.overlap = req[h].overlap
      BY ZenonT(60), <3>a, Prepared
    <3> HIDE DEF s
    <3>3. req'[h] = s
      BY <3>1 DEF s, TypeOK
    <3> QED
      BY <3>2, <3>3 DEF At
  <2>3. CASE WritePage(h)
    BY <2>3 DEF WritePage, At, Busy, TypeOK
  <2> QED
    BY <2>1, <2>2, <2>3
<1>3. TypeOK'
  <2>1. block' \in Nat /\ IsPage(page') /\ doubt' \subseteq Table
    <3>1. CASE CommitBlock(h)
      BY <1>1, <3>1 DEF CommitBlock, TypeOK, IsRequest
    <3>2. CASE ReadPage(h)
      BY <3>2 DEF ReadPage, TypeOK
    <3>3. CASE WritePage(h)
      <4>1. block' = block /\ page' = req[h].json /\ req[h].pc = "write"
        BY <3>3 DEF WritePage, At
      <4>2. doubt' \subseteq Table
        <5>1. Spoilt(h) \subseteq Table
          BY DEF Spoilt, TypeOK
        <5> QED
          BY <3>3, <5>1 DEF WritePage, TypeOK
      <4> QED
        BY <1>1, <4>1, <4>2 DEF TypeOK, IsRequest
    <3> QED
      BY <3>1, <3>2, <3>3
  <2>2. \A q \in Handler : Busy(q)' => IsRequest(req'[q])
    BY <1>1, <1>2 DEF TypeOK, Busy
  <2>3. (block \in Nat)' /\ IsPage(page)' /\ (doubt \subseteq Table)'
        /\ (\A q \in Handler : Busy(q) => IsRequest(req[q]))'
    BY <2>1, <2>2 DEF IsPage, IsRequest, Fits
  <2>4. (DOMAIN grid = Table)' /\ (\A u \in Table : IsGrid(grid[u]))'
        /\ (edits \in 0 .. MaxEdits)' /\ (runs \in 0 .. MaxReprocess)' /\ (ragged \subseteq Table)'
    BY <1>1 DEF TypeOK, IsGrid
  <2> QED
    BY <1>1, <2>3, <2>4 DEF TypeOK
<1>4. NamesInv'
  BY <1>1, <1>2 DEF NamesInv, At, Busy
<1>5. AloneInv'
  <2> SUFFICES ASSUME NEW q \in Handler, Busy(q)', ~req'[q].overlap
               PROVE  /\ \A p \in Handler : Busy(p)' => p = q
                      /\ At(q, "commit")' => req'[q].base = grid'[Target(q)']
                      /\ At(q, "read")' /\ req'[q].op = "cell" =>
                           \E i \in DOMAIN grid'[Target(q)'].cells : req'[q].ask.ids = {i}
    BY DEF AloneInv
  <2>1. \A p \in Handler : Busy(p)' => Busy(p)
    BY <1>1 DEF Busy
  <2>2. ~req[q].overlap /\ Busy(q)
    BY <1>1, <1>2, <2>1
  <2>3. q = h
    BY <1>1, <2>2 DEF AloneInv
  <2> QED
    BY <1>1, <1>2, <2>1, <2>2, <2>3 DEF AloneInv
<1> QED
  BY <1>3, <1>4, <1>5

(* A run that persists the page overlaps every request.                    *)
LEMMA PersistKinds ==
    ASSUME EditsInv, PersistPage
    PROVE  /\ edits' = edits /\ runs' = runs + 1 /\ runs < MaxReprocess /\ block' = 0
           /\ DOMAIN grid' = Table
           /\ \A t \in Table : /\ IsGrid(grid'[t]) /\ Sound(grid'[t])
                               /\ \A i \in DOMAIN grid'[t].cells : i[1] < 0
           /\ IsPage(page') /\ \A t \in Table : page'.tables[t] = JsonOf(grid'[t])
           /\ ragged' = {} /\ doubt' = {}
           /\ DOMAIN req' = Handler
           /\ \A q \in Handler :
                IF Busy(q) THEN req'[q] = [req[q] EXCEPT !.overlap = TRUE] ELSE req'[q] = Idle
<1>1. /\ edits' = edits /\ runs' = runs + 1 /\ runs < MaxReprocess /\ block' = 0
      /\ grid' = [t \in Table |-> Detected(-(runs + 1), t)]
      /\ page' = [tables |-> [t \in Table |-> JsonOf(grid'[t])], text |-> 0]
      /\ ragged' = {} /\ doubt' = {}
      /\ req' = [q \in Handler |-> IF Busy(q) THEN [req[q] EXCEPT !.overlap = TRUE] ELSE Idle]
  BY DEF PersistPage
<1>2. runs \in Nat /\ -(runs + 1) \in Int /\ -(runs + 1) < 0
  BY BoundsAssumption DEF EditsInv, TypeOK
<1>3. ASSUME NEW t \in Table
      PROVE  /\ IsGrid(grid'[t]) /\ Sound(grid'[t])
             /\ \A i \in DOMAIN grid'[t].cells : i[1] < 0
  <2> DEFINE n == -(runs + 1)
  <2>1. n \in Int /\ n < 0 /\ grid'[t] = Detected(n, t)
    BY <1>1, <1>2
  <2> HIDE DEF n
  <2>2. /\ IsGrid(Detected(n, t)) /\ Sound(Detected(n, t))
        /\ \A i \in DOMAIN Detected(n, t).cells : i[1] = n
    BY <2>1, DetectedRows
  <2> QED
    BY <2>1, <2>2
<1>4. IsPage(page') /\ \A t \in Table : page'.tables[t] = JsonOf(grid'[t])
  BY <1>1, <1>3, JsonTyped DEF IsPage
<1> QED
  BY <1>1, <1>3, <1>4

LEMMA PersistStep ==
    ASSUME EditsInv, PersistPage
    PROVE  EditsInv'
<1> USE DEF EditsInv
<1>1. /\ edits' = edits /\ runs' = runs + 1 /\ runs < MaxReprocess /\ block' = 0
      /\ DOMAIN grid' = Table /\ IsPage(page') /\ ragged' = {} /\ doubt' = {}
      /\ DOMAIN req' = Handler
      /\ \A t \in Table : IsGrid(grid'[t]) /\ \A i \in DOMAIN grid'[t].cells : i[1] < 0
      /\ runs \in Nat /\ edits \in Nat /\ MaxReprocess \in Nat
  BY PersistKinds, BoundsAssumption DEF TypeOK
<1>2. \A q \in Handler :
         /\ Busy(q)' <=> Busy(q)
         /\ Busy(q) => /\ IsRequest(req'[q]) /\ req'[q].overlap
                       /\ req'[q].pc = req[q].pc /\ req'[q].k = req[q].k
                       /\ req'[q].base = req[q].base
  BY PersistKinds, Overlapped
<1>3. TypeOK'
  <2>1. (\A t \in Table : IsGrid(grid[t]))' /\ (\A q \in Handler : Busy(q) => IsRequest(req[q]))'
        /\ IsPage(page)'
    BY <1>1, <1>2 DEF IsGrid, IsRequest, Fits, IsPage
  <2> QED
    BY <1>1, <2>1 DEF TypeOK
<1>4. NamesInv'
  <2>1. \A q \in Handler : At(q, "commit")' =>
           At(q, "commit") /\ req'[q].k = req[q].k /\ req'[q].base = req[q].base
    BY <1>2 DEF At
  <2>2. \A t \in Table : \A i \in DOMAIN grid'[t].cells : i[1] \in Int /\ i[1] < 0
    BY <1>1 DEF IsGrid, Name
  <2> QED
    BY <1>1, <2>1, <2>2 DEF NamesInv
<1>5. AloneInv'
  BY <1>2 DEF AloneInv
<1> QED
  BY <1>3, <1>4, <1>5

LEMMA EditsStep ==
    ASSUME EditsInv, [Next]_vars
    PROVE  EditsInv'
<1>1. CASE UNCHANGED vars
  BY <1>1 DEF vars, EditsInv, TypeOK, IsGrid, IsPage, IsRequest, Fits, NamesInv, AloneInv, At, Busy, Target
<1> QED
  BY <1>1, LoadStep, CommitStep, RequestStep, PersistStep DEF Next

-----------------------------------------------------------------------------
(* The shape of the grid                                                   *)

LEMMA GridInit == Init => SoundGrid
<1> SUFFICES ASSUME Init  PROVE SoundGrid
  OBVIOUS
<1>1. \A t \in Table : grid[t] = Detected(0, t)
  BY DEF Init
<1> QED
  BY <1>1, DetectedRows DEF SoundGrid

LEMMA GridStep ==
    ASSUME EditsInv, SoundGrid, [Next]_vars
    PROVE  SoundGrid'
<1> SUFFICES ASSUME NEW u \in Table, u \notin ragged'
             PROVE  Sound(grid'[u])
  BY DEF SoundGrid, Sound
<1>1. CASE UNCHANGED <<grid, ragged>>
  BY <1>1 DEF SoundGrid
<1>2. CASE PersistPage
  BY <1>2, PersistKinds
<1>3. ASSUME NEW h \in Handler, CommitRows(h)  PROVE Sound(grid'[u])
  <2> DEFINE t == Target(h)
  <2>0. DOMAIN grid = Table /\ DOMAIN req = Handler /\ t \in Table
    BY <1>3, CommitKinds DEF EditsInv, TypeOK
  <2>1. CASE UNCHANGED <<grid, ragged>>
    BY <1>1, <2>1
  <2>2. CASE ~UNCHANGED <<grid, ragged>>
    <3>1. /\ ragged \subseteq ragged'
          /\ req' = [req EXCEPT ![h] = [req[h] EXCEPT !.pc = "read", !.base = {}]]
          /\ t \notin ragged' =>
               /\ ~req[h].overlap /\ ~OutOfRange(req[h].ask, req[h].base)
               /\ ~(req[h].op = "merge_cells" /\ CornerTaken(req[h].base, req[h].ask.ids))
      BY <1>3, <2>2, CommitKinds
    <3>2. CASE u # t
      BY <1>3, <3>1, <3>2, CommitResult DEF SoundGrid
    <3>3. CASE u = t
      <4>0. Busy(h)'
        <5> DEFINE s == [req[h] EXCEPT !.pc = "read", !.base = {}]
        <5>1. IsRequest(s)
          BY <1>3, CommitKinds, GoesOn
        <5> HIDE DEF s
        <5>2. req'[h] = s /\ s # Idle
          BY <2>0, <3>1, <5>1 DEF s, IsRequest, Idle
        <5> QED
          BY <5>2 DEF Busy
      <4>1. PICK g \in Edited(h) : req[h].base = grid[t] /\ grid' = [grid EXCEPT ![t] = g]
        BY <1>3, <3>1, <3>3, <4>0, CommitAlone
      <4>2. Sound(req[h].base)
        BY <3>1, <3>3, <4>1 DEF SoundGrid
      <4>3. Sound(g)
        BY <1>3, <3>1, <3>3, <4>2, CommitKinds, EditKinds
      <4> QED
        BY <2>0, <3>3, <4>1, <4>3
    <3> QED
      BY <3>2, <3>3
  <2> QED
    BY <2>1, <2>2
<1>4. ASSUME NEW h \in Handler, Load(h) \/ CommitBlock(h) \/ ReadPage(h) \/ WritePage(h)
      PROVE  UNCHANGED <<grid, ragged>>
  BY <1>4 DEF Load, CommitBlock, ReadPage, WritePage
<1> QED
  BY <1>1, <1>2, <1>3, <1>4 DEF Next, vars

-----------------------------------------------------------------------------
(* The JSON copy                                                           *)

LEMMA SameCell ==
    ASSUME NEW c \in Cell, NEW d \in Cell, c.text = d.text,
           \A f \in {"row", "column", "rowspan", "colspan"} : c[f] = d[f]
    PROVE  c = d
<1>1. \A f \in {"row", "column", "rowspan", "colspan", "text"} : c[f] = d[f]
  OBVIOUS
<1>2. /\ DOMAIN c = {"row", "column", "rowspan", "colspan", "text"}
      /\ DOMAIN d = {"row", "column", "rowspan", "colspan", "text"}
      /\ c = [f \in DOMAIN c |-> c[f]] /\ d = [f \in DOMAIN d |-> d[f]]
  BY DEF Cell
<1> QED
  BY <1>1, <1>2

(* A text put back leaves no trace of the edit.                            *)
LEMMA TextRestored ==
    ASSUME NEW g, IsGrid(g), NEW i \in DOMAIN g.cells, NEW word \in SUBSET Name
    PROVE  JsonOf(SetText(SetText(g, i, word), i, g.cells[i].text)) = JsonOf(g)
<1> DEFINE w == g.cells[i].text
           m == SetText(g, i, word)
           r == SetText(m, i, w)
<1>1. w \in SUBSET Name /\ \A j \in DOMAIN g.cells : g.cells[j] \in Cell
  BY DEF IsGrid, Cell
<1>2. /\ IsGrid(m) /\ DOMAIN m.cells = DOMAIN g.cells
      /\ \A j \in DOMAIN g.cells \ {i} : m.cells[j] = g.cells[j]
      /\ \A j \in DOMAIN g.cells : \A f \in {"row", "column", "rowspan", "colspan"} :
            m.cells[j][f] = g.cells[j][f]
  BY TextSet
<1> HIDE DEF w, m
<1>3. /\ IsGrid(r) /\ DOMAIN r.cells = DOMAIN m.cells /\ r.cells[i].text = w
      /\ \A j \in DOMAIN m.cells \ {i} : r.cells[j] = m.cells[j]
      /\ \A j \in DOMAIN m.cells : \A f \in {"row", "column", "rowspan", "colspan"} :
            r.cells[j][f] = m.cells[j][f]
  BY <1>1, <1>2, TextSet
<1> HIDE DEF r
<1>4. r.cells[i] = g.cells[i]
  <2>1. r.cells[i] \in Cell /\ g.cells[i] \in Cell
    BY <1>1, <1>2, <1>3 DEF IsGrid
  <2>2. r.cells[i].text = g.cells[i].text
    BY <1>3 DEF w
  <2>3. \A f \in {"row", "column", "rowspan", "colspan"} : r.cells[i][f] = g.cells[i][f]
    BY <1>2, <1>3
  <2> HIDE DEF w
  <2> QED
    BY <2>1, <2>2, <2>3, SameCell
<1>5. \A j \in DOMAIN g.cells : r.cells[j] = g.cells[j]
  BY <1>2, <1>3, <1>4
<1>6. JsonOf(r) = JsonOf(g)
  BY <1>2, <1>3, <1>5 DEF JsonOf, Cells
<1> QED
  BY <1>6 DEF r, m, w

(* Copying the text of a cell into the JSON of a sound grid that differs   *)
(* in that text makes it the JSON of the grid: no other cell starts there. *)
LEMMA TextCopied ==
    ASSUME NEW g, IsGrid(g), Sound(g), NEW i \in DOMAIN g.cells, NEW word \in SUBSET Name
    PROVE  Touched(JsonOf(SetText(g, i, word)), {<<g.cells[i].row, g.cells[i].column>>},
                   g.cells[i].text) = JsonOf(g)
<1> DEFINE w == g.cells[i].text
           m == SetText(g, i, word)
           place == <<g.cells[i].row, g.cells[i].column>>
           New(c) == IF <<c.row, c.column>> \in {place} THEN [c EXCEPT !.text = w] ELSE c
<1>1. w \in SUBSET Name /\ \A j \in DOMAIN g.cells : g.cells[j] \in Cell
  BY DEF IsGrid, Cell
<1>2. /\ IsGrid(m) /\ DOMAIN m.cells = DOMAIN g.cells
      /\ \A j \in DOMAIN g.cells \ {i} : m.cells[j] = g.cells[j]
      /\ \A j \in DOMAIN g.cells : \A f \in {"row", "column", "rowspan", "colspan"} :
            m.cells[j][f] = g.cells[j][f]
  BY TextSet
<1> HIDE DEF m
<1>3. m.cells[i] \in Cell
  BY <1>2 DEF IsGrid
<1>4. New(m.cells[i]) = g.cells[i]
  <2> DEFINE c == m.cells[i]
             d == [c EXCEPT !.text = w]
  <2>1. c.row = g.cells[i].row /\ c.column = g.cells[i].column
    BY <1>2
  <2>2. d \in Cell /\ d.text = w
        /\ \A f \in {"row", "column", "rowspan", "colspan"} : d[f] = c[f]
    BY <1>1, <1>3 DEF Cell
  <2>3. New(c) = d
    BY <2>1
  <2> HIDE DEF d, c
  <2>4. d.text = g.cells[i].text
    BY <2>2
  <2>5. \A f \in {"row", "column", "rowspan", "colspan"} : d[f] = g.cells[i][f]
    BY <1>2, <2>2 DEF c
  <2>6. d = g.cells[i]
    BY <1>1, <2>2, <2>4, <2>5, SameCell
  <2> QED
    BY <2>3, <2>6 DEF c
<1>5. \A j \in DOMAIN g.cells \ {i} : New(m.cells[j]) = g.cells[j]
  <2> TAKE j \in DOMAIN g.cells \ {i}
  <2>1. m.cells[j] = g.cells[j] /\ j # i
    BY <1>2
  <2>2. ~(g.cells[i].row = g.cells[j].row /\ g.cells[i].column = g.cells[j].column)
    BY <2>1 DEF Sound
  <2> QED
    BY <2>1, <2>2
<1>6. Touched(JsonOf(m), {place}, w) = {New(m.cells[j]) : j \in DOMAIN m.cells}
  <2>1. Touched(JsonOf(m), {place}, w) = {New(c) : c \in Cells(m)}
    BY DEF Touched, JsonOf
  <2> HIDE DEF New
  <2> QED
    BY <2>1 DEF Cells
<1> HIDE DEF New, place, w
<1>7. {New(m.cells[j]) : j \in DOMAIN m.cells} = JsonOf(g)
  BY <1>2, <1>4, <1>5 DEF JsonOf, Cells
<1> QED
  BY <1>6, <1>7 DEF m, place, w

LEMMA JsonInit == Init => JsonInv
<1> SUFFICES ASSUME Init  PROVE JsonInv
  OBVIOUS
<1>1. \A h \in Handler : ~At(h, "read") /\ ~At(h, "write")
  BY DEF Init, At, Busy
<1>2. \A t \in Table : page.tables[t] = JsonOf(grid[t])
  BY DEF Init
<1> QED
  BY <1>1, <1>2 DEF JsonInv

(* No other request is there beside one that nobody overlapped, so the     *)
(* JSON is as the second half of JsonInv says.                             *)
LEMMA AloneAgrees ==
    ASSUME EditsInv, JsonInv, NEW h \in Handler, Busy(h), ~req[h].overlap
    PROVE  /\ \A p \in Handler : Busy(p) => p = h
           /\ \A t \in Table \ doubt :
                \/ page.tables[t] = JsonOf(grid[t])
                \/ Stored(h) /\ Target(h) = t /\ req[h].op # "block"
           /\ At(h, "read") /\ req[h].op = "cell" =>
                Target(h) \in doubt \cup ragged \/ OneTextApart(h)
           /\ At(h, "write") => WillAgree(h)
<1>1. \A p \in Handler : Busy(p) => p = h
  BY DEF EditsInv, AloneInv
<1>2. ~\E q \in Handler : Stored(q) /\ req[q].overlap
  BY <1>1 DEF Stored
<1> QED
  BY <1>1, <1>2 DEF JsonInv, Stored

(* Requests that were not yet stored become overlapped, the others leave   *)
(* no doubt or are overlapped now.                                         *)
LEMMA JsonLoad ==
    ASSUME EditsInv, JsonInv, NEW h \in Handler, Load(h)
    PROVE  JsonInv'
<1>1. /\ ~Busy(h) /\ UNCHANGED <<grid, block, page, runs, ragged, doubt>>
      /\ req'[h].pc = "commit"
  BY LoadKinds
<1>2. \A q \in Handler \ {h} :
         /\ Busy(q)' <=> Busy(q)
         /\ Busy(q) => req'[q].overlap /\ req'[q].pc = req[q].pc
  BY LoadKinds, Overlapped DEF EditsInv
<1>3. CASE \E q \in Handler : Stored(q)
  <2>1. PICK q \in Handler : Stored(q)
    BY <1>3
  <2>2. q # h /\ Stored(q)' /\ req'[q].overlap
    BY <1>1, <1>2, <2>1 DEF Stored
  <2> QED
    BY <2>2 DEF JsonInv
<1>4. CASE ~\E q \in Handler : Stored(q)
  <2>1. \A t \in Table \ doubt : page.tables[t] = JsonOf(grid[t])
    BY <1>4 DEF JsonInv
  <2>2. \A q \in Handler : ~At(q, "read")' /\ ~At(q, "write")'
    BY <1>1, <1>2, <1>4 DEF At, Stored
  <2>3. \A t \in Table \ doubt' : page'.tables[t] = JsonOf(grid'[t])
    BY <1>1, <2>1
  <2> QED
    BY <2>2, <2>3 DEF JsonInv, JsonOf, Cells
<1> QED
  BY <1>3, <1>4

LEMMA JsonPersist ==
    ASSUME EditsInv, JsonInv, PersistPage
    PROVE  JsonInv'
<1>1. \A q \in Handler :
         /\ Busy(q)' <=> Busy(q)
         /\ Busy(q) => req'[q].overlap /\ req'[q].pc = req[q].pc
  BY PersistKinds, Overlapped DEF EditsInv
<1>2. CASE \E q \in Handler : Stored(q)
  BY <1>1, <1>2 DEF Stored, JsonInv
<1>3. CASE ~\E q \in Handler : Stored(q)
  <2>1. \A t \in Table : page'.tables[t] = JsonOf(grid'[t])
    BY PersistKinds
  <2>2. \A q \in Handler : ~At(q, "read")' /\ ~At(q, "write")'
    BY <1>1, <1>3 DEF At, Stored
  <2> QED
    BY <2>1, <2>2 DEF JsonInv, JsonOf, Cells
<1> QED
  BY <1>2, <1>3

LEMMA RequestKept ==
    ASSUME UNCHANGED <<grid, page, ragged, doubt>>, NEW q \in Handler, req'[q] = req[q]
    PROVE  /\ Stored(q)' <=> Stored(q)
           /\ Target(q)' = Target(q) /\ req'[q].op = req[q].op /\ req'[q].overlap = req[q].overlap
           /\ At(q, "read")' <=> At(q, "read")
           /\ At(q, "write")' <=> At(q, "write")
           /\ OneTextApart(q) => OneTextApart(q)'
           /\ WillAgree(q) => WillAgree(q)'
<1>1. /\ Stored(q)' <=> Stored(q)
      /\ Target(q)' = Target(q) /\ req'[q].op = req[q].op /\ req'[q].overlap = req[q].overlap
      /\ At(q, "read")' <=> At(q, "read")
      /\ At(q, "write")' <=> At(q, "write")
  BY DEF Stored, Busy, Target, At
<1>2. OneTextApart(q) => OneTextApart(q)'
  <2>1. req'[q].ask = req[q].ask /\ page' = page /\ grid' = grid /\ Target(q)' = Target(q)
    BY <1>1
  <2> DEFINE t == Target(q)
  <2>2. OneTextApart(q) =>
          \E i \in DOMAIN grid'[t].cells, c \in page'.tables[t] :
            /\ req'[q].ask.ids = {i}
            /\ page'.tables[t] = JsonOf(SetText(grid'[t], i, c.text))
    BY <2>1 DEF OneTextApart
  <2> HIDE DEF t
  <2>3. Target(q)' = t
    BY <2>1 DEF t
  <2>4. (\E i \in DOMAIN grid'[t].cells, c \in page'.tables[t] :
           /\ req'[q].ask.ids = {i}
           /\ page'.tables[t] = JsonOf(SetText(grid'[t], i, c.text))) => OneTextApart(q)'
    BY ONLY SMTT(60), <2>3 DEF OneTextApart, SetText, JsonOf, Cells
  <2> QED
    BY <2>2, <2>4
<1>3. WillAgree(q) => WillAgree(q)'
  <2>1. req'[q].json = req[q].json /\ req'[q].op = req[q].op /\ Target(q)' = Target(q)
        /\ page' = page /\ grid' = grid /\ doubt' = doubt /\ ragged' = ragged
    BY <1>1
  <2>2. CASE req[q].op = "block"
    BY <2>1, <2>2 DEF WillAgree
  <2>3. CASE req[q].op = "cell"
    BY <2>1, <2>3 DEF WillAgree, JsonOf, Cells
  <2>4. CASE req[q].op \notin {"block", "cell"}
    BY <2>1, <2>4 DEF WillAgree, JsonOf, Cells
  <2> QED
    BY <2>2, <2>3, <2>4
<1> QED
  BY <1>1, <1>2, <1>3

(* A step that leaves rows and JSON alone, and every request but h, which  *)
(* is not stored yet and does not copy a cell's text.                      *)
LEMMA JsonAside ==
    ASSUME JsonInv, NEW h \in Handler, UNCHANGED <<grid, page, ragged, doubt>>, ~Stored(h),
           \A q \in Handler \ {h} : req'[q] = req[q],
           ~At(h, "write")', ~(At(h, "read")' /\ req'[h].op = "cell")
    PROVE  JsonInv'
<1>1. \A q \in Handler \ {h} :
         /\ Stored(q)' <=> Stored(q)
         /\ Target(q)' = Target(q) /\ req'[q].op = req[q].op /\ req'[q].overlap = req[q].overlap
         /\ At(q, "read")' <=> At(q, "read")
         /\ At(q, "write")' <=> At(q, "write")
         /\ OneTextApart(q) => OneTextApart(q)'
         /\ WillAgree(q) => WillAgree(q)'
  BY RequestKept
<1>2. CASE \E q \in Handler : Stored(q) /\ req[q].overlap
  BY <1>1, <1>2 DEF JsonInv
<1>3. CASE ~\E q \in Handler : Stored(q) /\ req[q].overlap
  <2>1. \A t \in Table \ doubt' :
           \/ page'.tables[t] = JsonOf(grid'[t])
           \/ \E q \in Handler : Stored(q)' /\ Target(q)' = t /\ req'[q].op # "block"
    BY <1>1, <1>3 DEF JsonInv
  <2>2. \A q \in Handler :
          /\ At(q, "read")' /\ req'[q].op = "cell" =>
               Target(q)' \in doubt' \cup ragged' \/ OneTextApart(q)'
          /\ At(q, "write")' => WillAgree(q)'
    BY <1>1, <1>3 DEF JsonInv
  <2> QED
    BY <2>1, <2>2 DEF JsonInv, JsonOf, Cells
<1> QED
  BY <1>2, <1>3

LEMMA JsonCommit ==
    ASSUME EditsInv, JsonInv, NEW h \in Handler, CommitRows(h)
    PROVE  JsonInv'
<1> DEFINE t == Target(h)
<1>0. DOMAIN grid = Table /\ DOMAIN req = Handler
  BY DEF EditsInv, TypeOK
<1>1. /\ t \in Table /\ Busy(h) /\ At(h, "commit") /\ req[h].op # "block"
      /\ IsRequest(req[h]) /\ UNCHANGED <<block, page>>
      /\ doubt \subseteq doubt' /\ doubt' \subseteq doubt \cup {t}
      /\ \A q \in Handler \ {h} : req'[q] = req[q]
  BY CommitTouches
<1>2. CASE UNCHANGED <<grid, ragged, doubt>> /\ req' = [req EXCEPT ![h] = Idle]
  <2>1. ~Busy(h)' /\ ~Stored(h)
    BY <1>0, <1>1, <1>2 DEF Busy, Stored, At
  <2> QED
    BY <1>1, <1>2, <2>1, JsonAside DEF At
<1>3. CASE req' = [req EXCEPT ![h] = [req[h] EXCEPT !.pc = "read", !.base = {}]]
  <2> DEFINE s == [req[h] EXCEPT !.pc = "read", !.base = {}]
  <2>1. /\ IsRequest(s) /\ s.pc = "read" /\ s.op = req[h].op
        /\ s.overlap = req[h].overlap /\ s.ask = req[h].ask
    BY <1>1, GoesOn
  <2> HIDE DEF s
  <2>2. req'[h] = s /\ s # Idle
    BY <1>0, <1>3, <2>1 DEF s, IsRequest, Idle
  <2>3. Busy(h)' /\ Stored(h)' /\ Target(h)' = t /\ ~At(h, "write")'
    BY <2>1, <2>2 DEF Busy, Stored, Target, At
  <2>4. CASE req[h].overlap
    BY <2>1, <2>2, <2>3, <2>4 DEF JsonInv
  <2>5. CASE ~req[h].overlap
    <3>1. /\ \A p \in Handler : Busy(p) => p = h
          /\ \A u \in Table \ doubt : page.tables[u] = JsonOf(grid[u])
      BY <1>1, <2>5, AloneAgrees DEF Stored, At
    <3>2. \A p \in Handler : Busy(p)' => p = h
      BY <1>1, <3>1 DEF Busy
    <3>3. PICK g \in Edited(h) :
            /\ req[h].base = grid[t] /\ IsGrid(g) /\ grid' = [grid EXCEPT ![t] = g]
            /\ req[h].op = "cell" /\ t \notin doubt' => Respanned(req[h].base, g) = {}
      BY <2>3, <2>5, CommitAlone
    <3>4. \A u \in Table \ doubt' :
             \/ page'.tables[u] = JsonOf(grid'[u])
             \/ \E q \in Handler : Stored(q)' /\ Target(q)' = u /\ req'[q].op # "block"
      <4> TAKE u \in Table \ doubt'
      <4>1. CASE u = t
        BY <1>1, <2>1, <2>2, <2>3, <4>1
      <4>2. CASE u # t
        BY <1>0, <1>1, <3>1, <3>3, <4>2
      <4> QED
        BY <4>1, <4>2
    <3>5. ASSUME req[h].op = "cell", t \notin doubt'
          PROVE  OneTextApart(h)'
      <4> DEFINE base == grid[t]
      <4>1. IsGrid(base) /\ page.tables[t] = JsonOf(base) /\ IsRequest(req[h])
        BY <1>1, <3>1, <3>5 DEF EditsInv, TypeOK
      <4>2. PICK i \in DOMAIN base.cells :
              req[h].ask.ids = {i} /\ g = SetText(base, i, g.cells[i].text) /\ i \in DOMAIN g.cells
        <5>1. \E i \in DOMAIN req[h].base.cells :
                 /\ req[h].ask.ids = {i} /\ DOMAIN g.cells = DOMAIN req[h].base.cells
                 /\ Respanned(req[h].base, g) = {} => g = SetText(req[h].base, i, g.cells[i].text)
          BY <1>1, <3>3, <3>5, CommitKinds, EditKinds
        <5> QED
          BY <3>3, <3>5, <5>1
      <4> DEFINE word == g.cells[i].text
                 c == base.cells[i]
      <4>3. word \in SUBSET Name
        BY <3>3, <4>2 DEF IsGrid, Cell
      <4>4. i \in DOMAIN g.cells
        BY <4>2
      <4>5. c \in page.tables[t]
        BY <4>1 DEF JsonOf, Cells
      <4>6. g = SetText(base, i, word)
        BY <4>2
      <4> HIDE DEF word, base
      <4>7. JsonOf(SetText(g, i, c.text)) = page.tables[t]
        BY <4>1, <4>3, <4>6, TextRestored
      <4> HIDE DEF c
      <4>8. grid'[t] = g /\ page' = page /\ req'[h].ask.ids = {i}
        BY <1>0, <1>1, <2>1, <2>2, <3>3, <4>2
      <4>9. /\ i \in DOMAIN grid'[t].cells /\ c \in page'.tables[t]
            /\ page'.tables[t] = JsonOf(SetText(grid'[t], i, c.text))
        BY <4>4, <4>5, <4>7, <4>8
      <4> HIDE DEF t
      <4>10. \E j \in DOMAIN grid'[t].cells, d \in page'.tables[t] :
               /\ req'[h].ask.ids = {j}
               /\ page'.tables[t] = JsonOf(SetText(grid'[t], j, d.text))
        BY <4>8, <4>9
      <4> QED
        BY <2>3, <4>10 DEF OneTextApart, SetText, JsonOf, Cells
    <3>6. \A q \in Handler :
            /\ At(q, "read")' /\ req'[q].op = "cell" =>
                 Target(q)' \in doubt' \cup ragged' \/ OneTextApart(q)'
            /\ At(q, "write")' => WillAgree(q)'
      <4>1. \A q \in Handler : (At(q, "read")' \/ At(q, "write")') => q = h
        BY <3>2 DEF At
      <4>2. At(h, "read")' /\ req'[h].op = "cell" =>
               Target(h)' \in doubt' \cup ragged' \/ OneTextApart(h)'
        BY <1>1, <2>1, <2>2, <2>3, <3>5
      <4> HIDE DEF t
      <4> QED
        BY <2>3, <4>1, <4>2
    <3> QED
      BY <3>4, <3>6 DEF JsonInv, JsonOf, Cells
  <2> QED
    BY <2>4, <2>5
<1> QED
  BY <1>2, <1>3, CommitKinds

LEMMA JsonBlock ==
    ASSUME EditsInv, JsonInv, NEW h \in Handler, CommitBlock(h)
    PROVE  JsonInv'
<1>1. /\ At(h, "commit") /\ Busy(h) /\ req[h].op = "block"
      /\ UNCHANGED <<grid, page, ragged, doubt>> /\ DOMAIN req = Handler
      /\ req' = [req EXCEPT ![h] = [req[h] EXCEPT !.pc = "read", !.base = {}]]
  BY DEF CommitBlock, At, EditsInv, TypeOK
<1> DEFINE s == [req[h] EXCEPT !.pc = "read", !.base = {}]
<1>2. s.pc = "read" /\ s.op = "block"
  BY <1>1, Requested, GoesOn DEF EditsInv
<1> HIDE DEF s
<1>3. req'[h] = s /\ \A q \in Handler \ {h} : req'[q] = req[q]
  BY <1>1 DEF s
<1>4. ~Stored(h) /\ ~At(h, "write")' /\ ~(At(h, "read")' /\ req'[h].op = "cell")
  BY <1>1, <1>2, <1>3 DEF Stored, At
<1> QED
  BY <1>1, <1>3, <1>4, JsonAside

LEMMA JsonRead ==
    ASSUME EditsInv, SoundGrid, JsonInv, NEW h \in Handler, ReadPage(h)
    PROVE  JsonInv'
<1> DEFINE t == Target(h)
           live == req[h].ask.ids \cap DOMAIN grid[t].cells
           places == {<<grid[t].cells[i].row, grid[t].cells[i].column>> : i \in live}
           word == UNION {grid[t].cells[i].text : i \in live}
<1>0. DOMAIN grid = Table /\ DOMAIN req = Handler /\ TypeOK
  BY DEF EditsInv, TypeOK
<1>1. /\ Busy(h) /\ req[h].pc = "read" /\ t \in Table /\ IsRequest(req[h])
      /\ UNCHANGED <<grid, block, page, edits, runs, ragged, doubt>>
  BY <1>0, ReadKinds, Requested
<1>2. PICK json :
        /\ IsPage(json)
        /\ req' = [req EXCEPT ![h] = [req[h] EXCEPT !.pc = "write", !.json = json]]
        /\ req[h].op = "block" => json.tables = page.tables
        /\ req[h].op = "cell" =>
             \A u \in Table : json.tables[u] = Touched(page.tables[u], places, word)
        /\ req[h].op \notin {"block", "cell"} =>
             json.tables = [page.tables EXCEPT ![t] = JsonOf(grid[t])]
  BY <1>0, ReadKinds
<1>3. /\ req'[h].pc = "write" /\ req'[h].json = json /\ req'[h].op = req[h].op
      /\ req'[h].overlap = req[h].overlap /\ req'[h].ask = req[h].ask
      /\ req'[h] # Idle /\ \A q \in Handler \ {h} : req'[q] = req[q]
  <2> DEFINE s == [req[h] EXCEPT !.pc = "write", !.json = json]
  <2>0. IsRequest(req[h]) /\ IsPage(json)
    BY <1>1, <1>2
  <2>1. /\ IsRequest(s) /\ s.pc = "write" /\ s.json = json /\ s.op = req[h].op
        /\ s.overlap = req[h].overlap /\ s.ask = req[h].ask
    BY ONLY ZenonT(60), <2>0, Prepared
  <2> HIDE DEF s, places, word, t
  <2>2. req'[h] = s /\ \A q \in Handler \ {h} : req'[q] = req[q]
    BY <1>0, <1>2 DEF s
  <2>3. s # Idle
    BY <2>1 DEF IsRequest, Idle
  <2> QED
    BY <2>1, <2>2, <2>3
<1>4. /\ Stored(h) /\ Stored(h)' /\ Target(h)' = t
      /\ At(h, "read") /\ ~At(h, "read")' /\ At(h, "write")'
  BY <1>1, <1>3 DEF Stored, Busy, Target, At
<1>5. CASE \E q \in Handler : Stored(q) /\ req[q].overlap
  BY <1>3, <1>4, <1>5 DEF JsonInv, Stored, Busy
<1>6. CASE ~\E q \in Handler : Stored(q) /\ req[q].overlap
  <2>1. ~req[h].overlap
    BY <1>4, <1>6
  <2>2. /\ \A p \in Handler : Busy(p) => p = h
        /\ \A u \in Table \ doubt :
             page.tables[u] = JsonOf(grid[u]) \/ (t = u /\ req[h].op # "block")
        /\ req[h].op = "cell" => t \in doubt \cup ragged \/ OneTextApart(h)
    BY <1>1, <1>4, <2>1, AloneAgrees
  <2>3. \A q \in Handler : Busy(q)' => q = h
    BY <1>3, <2>2 DEF Busy
  <2>4. \A u \in Table \ doubt' :
           \/ page'.tables[u] = JsonOf(grid'[u])
           \/ \E q \in Handler : Stored(q)' /\ Target(q)' = u /\ req'[q].op # "block"
    BY <1>1, <1>3, <1>4, <2>2
  <2>5. ASSUME req[h].op = "cell", t \notin doubt \cup ragged
        PROVE  json.tables[t] = JsonOf(grid[t])
    <3> DEFINE g == grid[t]
    <3>1. IsGrid(g) /\ Sound(g)
      BY <1>0, <1>1, <2>5 DEF SoundGrid, TypeOK
    <3>2. PICK i \in DOMAIN g.cells : \E c \in page.tables[t] :
            req[h].ask.ids = {i} /\ page.tables[t] = JsonOf(SetText(g, i, c.text))
      BY <2>2, <2>5 DEF OneTextApart
    <3>3. PICK c \in page.tables[t] :
            req[h].ask.ids = {i} /\ page.tables[t] = JsonOf(SetText(g, i, c.text))
      BY <3>2
    <3>4. c.text \in SUBSET Name
      <4>1. c \in Cell
        BY <1>0, <1>1 DEF TypeOK, IsPage
      <4> QED
        BY <4>1 DEF Cell
    <3>5. places = {<<g.cells[i].row, g.cells[i].column>>} /\ word = g.cells[i].text
      <4>1. live = {i}
        BY <3>3
      <4> HIDE DEF live
      <4> QED
        BY <4>1
    <3>6. json.tables[t] = Touched(page.tables[t], places, word)
      BY <1>1, <1>2, <2>5
    <3> HIDE DEF places, word, g
    <3> QED
      BY SMTT(60), <3>1, <3>3, <3>4, <3>5, <3>6, TextCopied DEF g
  <2>6. WillAgree(h)'
    <3>0. req'[h].json = json /\ page' = page /\ grid' = grid /\ doubt' = doubt /\ ragged' = ragged
          /\ Target(h)' = t
      BY <1>1, <1>3, <1>4
    <3> HIDE DEF places, word
    <3>1. CASE req[h].op = "block"
      BY <1>2, <1>3, <3>0, <3>1 DEF WillAgree
    <3>2. CASE req[h].op = "cell"
      <4>1. t \in doubt \cup ragged \/ json.tables[t] = JsonOf(grid[t])
        BY <2>5, <3>2
      <4> HIDE DEF t
      <4> QED
        BY <1>3, <3>0, <3>2, <4>1 DEF WillAgree, JsonOf, Cells
    <3>3. CASE req[h].op \notin {"block", "cell"}
      <4>1. json.tables = [page.tables EXCEPT ![t] = JsonOf(grid[t])]
        BY <1>2, <3>3
      <4> HIDE DEF t
      <4> QED
        BY <1>3, <3>0, <3>3, <4>1 DEF WillAgree, JsonOf, Cells
    <3> QED
      BY <3>1, <3>2, <3>3
  <2>7. \A q \in Handler :
          /\ At(q, "read")' /\ req'[q].op = "cell" =>
               Target(q)' \in doubt' \cup ragged' \/ OneTextApart(q)'
          /\ At(q, "write")' => WillAgree(q)'
    <3>1. \A q \in Handler : (At(q, "read")' \/ At(q, "write")') => q = h
      BY <2>3 DEF At
    <3> QED
      BY <1>4, <2>6, <3>1
  <2> QED
    BY <2>4, <2>7 DEF JsonInv, JsonOf, Cells
<1> QED
  BY <1>5, <1>6

LEMMA JsonWritten ==
    ASSUME EditsInv, JsonInv, NEW h \in Handler, WritePage(h)
    PROVE  JsonInv'
<1> DEFINE t == Target(h)  json == req[h].json
<1>0. /\ Busy(h) /\ At(h, "write") /\ Stored(h) /\ t \in Table /\ IsPage(page)
      /\ page' = json /\ UNCHANGED <<grid, ragged>> /\ ~Busy(h)'
      /\ doubt' = IF req[h].overlap THEN Table
                  ELSE IF req[h].op \in {"cell", "block"} THEN doubt \cup Spoilt(h)
                  ELSE doubt \ {t}
      /\ \A q \in Handler \ {h} : req'[q] = req[q]
  <2>1. Busy(h) /\ TypeOK
    BY DEF WritePage, At, EditsInv
  <2>2. DOMAIN req = Handler /\ IsPage(page) /\ t \in Table
    BY <2>1, Requested DEF TypeOK
  <2> QED
    BY <2>1, <2>2 DEF WritePage, At, Stored, Busy
<1>1. CASE \E q \in Handler \ {h} : Stored(q)
  <2>1. PICK q \in Handler \ {h} : Stored(q)
    BY <1>1
  <2>2. req[q].overlap
    BY <1>0, <2>1 DEF EditsInv, AloneInv, Stored
  <2>3. Stored(q)' /\ req'[q].overlap
    BY <1>0, <2>1, <2>2 DEF Stored, Busy
  <2> QED
    BY <2>3 DEF JsonInv
<1>2. CASE ~\E q \in Handler \ {h} : Stored(q)
  <2>1. \A q \in Handler : ~At(q, "read")' /\ ~At(q, "write")'
    BY <1>0, <1>2 DEF At, Stored, Busy
  <2>2. \A u \in Table \ doubt' : page'.tables[u] = JsonOf(grid[u])
    <3>1. CASE req[h].overlap
      BY <1>0, <3>1
    <3>2. CASE ~req[h].overlap
      <4>1. /\ \A u \in Table \ doubt :
                 page.tables[u] = JsonOf(grid[u]) \/ (t = u /\ req[h].op # "block")
            /\ WillAgree(h)
        BY <1>0, <3>2, AloneAgrees
      <4> SUFFICES ASSUME NEW u \in Table, u \notin doubt'
                   PROVE  json.tables[u] = JsonOf(grid[u])
        BY <1>0
      <4>2. CASE req[h].op = "block"
        <5>1. json.tables = page.tables
          BY <4>1, <4>2 DEF WillAgree
        <5> QED
          BY <1>0, <3>2, <4>1, <4>2, <5>1
      <4>3. CASE req[h].op = "cell"
        <5>1. u \notin doubt /\ u \notin Spoilt(h)
          BY <1>0, <3>2, <4>3
        <5>2. CASE u = t
          BY <4>1, <4>3, <5>1, <5>2 DEF WillAgree, Spoilt
        <5>3. CASE u # t
          <6>1. json.tables[u] = page.tables[u]
            BY <5>1, <5>3 DEF Spoilt
          <6> QED
            BY <4>1, <5>1, <5>3, <6>1
        <5> QED
          BY <5>2, <5>3
      <4>4. CASE req[h].op \notin {"block", "cell"}
        <5>1. json.tables = [page.tables EXCEPT ![t] = JsonOf(grid[t])]
          BY <4>1, <4>4 DEF WillAgree
        <5>2. u \notin doubt \/ u = t
          BY <1>0, <3>2, <4>4
        <5>3. page.tables \in [Table -> SUBSET Cell]
          BY <1>0 DEF IsPage
        <5> HIDE DEF t
        <5> QED
          BY <1>0, <4>1, <5>1, <5>2, <5>3
      <4> QED
        BY <4>2, <4>3, <4>4
    <3> QED
      BY <3>1, <3>2
  <2>3. \A u \in Table \ doubt' : page'.tables[u] = JsonOf(grid'[u])
    BY <1>0, <2>2
  <2> QED
    BY <2>1, <2>3 DEF JsonInv, JsonOf, Cells
<1> QED
  BY <1>1, <1>2

LEMMA JsonStep ==
    ASSUME EditsInv, SoundGrid, JsonInv, [Next]_vars
    PROVE  JsonInv'
<1>1. CASE UNCHANGED vars
  <2>1. UNCHANGED <<grid, page, req, ragged, doubt>>
    BY <1>1 DEF vars
  <2>2. CASE \E q \in Handler : Stored(q) /\ req[q].overlap
    BY <2>1, <2>2, RequestKept DEF JsonInv
  <2>3. CASE ~\E q \in Handler : Stored(q) /\ req[q].overlap
    <3>1. \A t \in Table \ doubt' :
             \/ page'.tables[t] = JsonOf(grid'[t])
             \/ \E q \in Handler : Stored(q)' /\ Target(q)' = t /\ req'[q].op # "block"
      BY <2>1, <2>3, RequestKept DEF JsonInv
    <3>2. \A q \in Handler :
            /\ At(q, "read")' /\ req'[q].op = "cell" =>
                 Target(q)' \in doubt' \cup ragged' \/ OneTextApart(q)'
            /\ At(q, "write")' => WillAgree(q)'
      BY <2>1, <2>3, RequestKept DEF JsonInv
    <3> QED
      BY <3>1, <3>2 DEF JsonInv, JsonOf, Cells
  <2> QED
    BY <2>2, <2>3
<1> QED
  BY <1>1, JsonLoad, JsonPersist, JsonCommit, JsonBlock, JsonRead, JsonWritten DEF Next

-----------------------------------------------------------------------------
(* What edits keep                                                         *)

(* The rows of every table stay rows, no request takes a name that is      *)
(* taken, and one that nobody overlapped works on the rows as they are:    *)
(* the types behind the results below.                                     *)
THEOREM EditsAreTyped == Spec => []EditsInv
<1>1. EditsInv /\ [Next]_vars => EditsInv'
  BY EditsStep
<1> QED
  BY <1>1, EditsInit, PTL DEF Spec

LEMMA EditsAreSound == Spec => []IInv
<1>1. Init => IInv
  BY EditsInit, GridInit, JsonInit DEF IInv
<1>2. IInv /\ [Next]_vars => IInv'
  BY EditsStep, GridStep, JsonStep DEF IInv
<1> QED
  BY <1>1, <1>2, PTL DEF Spec

(* Row, column, merge and split edits made one at a time, with merges of   *)
(* full rectangles and deletions of rows the table has, leave no two cells *)
(* at one place, no cell outside the table and a height for every row:     *)
(* update_table_structure, for tables of any size and any run of edits.    *)
THEOREM GridsStaySound == Spec => []SoundGrid
<1>1. IInv => SoundGrid
  BY DEF IInv
<1> QED
  BY <1>1, EditsAreSound, PTL

(* With no request at work the page's JSON is what the rows say, except    *)
(* for tables an overlapping request or a cell edit at a shared place has  *)
(* spoilt: the two copies written by update_table_cell, update_block and   *)
(* update_table_structure.                                                 *)
THEOREM JsonFollowsRows == Spec => []JsonMatchesRows
<1>1. IInv => JsonMatchesRows
  <2> SUFFICES ASSUME JsonInv, Quiet, NEW t \in Table \ doubt
               PROVE  page.tables[t] = JsonOf(grid[t])
    BY DEF IInv, JsonMatchesRows
  <2>1. \A h \in Handler : ~Stored(h)
    BY DEF Quiet, Stored
  <2> QED
    BY <2>1 DEF JsonInv
<1> QED
  BY <1>1, EditsAreSound, PTL

(* The session of a row, column or split edit writes only what that edit   *)
(* changed, so it undoes no text that another request stored meanwhile:    *)
(* update_table_structure, for any number of requests at once.             *)
THEOREM StructureEditsKeepText == Spec => StructureKeepsText
<1> DEFINE Kept(h) ==
      (At(h, "commit") /\ req[h].op \in Structural /\ CommitRows(h)) =>
        LET t == Target(h) IN
        \A i \in DOMAIN grid[t].cells \cap DOMAIN grid'[t].cells :
          grid'[t].cells[i].text = grid[t].cells[i].text
<1>1. ASSUME EditsInv, NEW h \in Handler  PROVE Kept(h)
  <2> DEFINE t == Target(h)  base == req[h].base
  <2> SUFFICES ASSUME At(h, "commit"), req[h].op \in Structural, CommitRows(h), grid' # grid,
                      NEW i \in DOMAIN grid[t].cells \cap DOMAIN grid'[t].cells
               PROVE  grid'[t].cells[i].text = grid[t].cells[i].text
    BY <1>1
  <2>1. PICK g \in Edited(h) : grid' = [grid EXCEPT ![t] = RowsAfter(g, base, grid[t])]
    BY <1>1, CommitKinds
  <2>2. /\ IsGrid(base) /\ IsGrid(g) /\ KeepsText(base, g, req[h].k)
        /\ \A j \in DOMAIN g.cells \ DOMAIN base.cells : j[1] = req[h].k
    BY <1>1, CommitKinds, EditKinds
  <2>3. DOMAIN grid = Table /\ IsGrid(grid[t]) /\ t \in Table
    BY <1>1, CommitKinds DEF EditsInv, TypeOK
  <2>4. i \notin DOMAIN g.cells \ DOMAIN base.cells
    <3>1. i[1] # req[h].k
      BY <1>1, <2>3 DEF EditsInv, NamesInv
    <3> QED
      BY <2>2, <3>1
  <2>5. i \in DOMAIN g.cells => g.cells[i].text = base.cells[i].text
    BY <2>2, <2>4 DEF KeepsText
  <2> DEFINE now == grid[t]
             new == RowsAfter(g, base, now)
  <2>6. grid'[t] = new /\ i \in DOMAIN new.cells
    BY <2>1, <2>3
  <2> HIDE DEF t, base
  <2>7. \A j \in DOMAIN new.cells \ (DOMAIN g.cells \ DOMAIN base.cells) :
           (j \in DOMAIN g.cells => g.cells[j].text = base.cells[j].text) =>
              new.cells[j].text = now.cells[j].text
    BY <2>2, <2>3, RowsWritten
  <2> HIDE DEF now, new
  <2>8. new.cells[i].text = now.cells[i].text
    BY <2>4, <2>5, <2>6, <2>7
  <2> QED
    BY <2>6, <2>8 DEF now
<1>2. EditsInv /\ [Next]_vars => [\A h \in Handler : Kept(h)]_vars
  BY <1>1
<1> QED
  BY <1>2, EditsAreTyped, PTL DEF Spec, StructureKeepsText

(* A merge nobody overlaps loses no word, whatever cells are selected and  *)
(* wherever they lie: the joined text of _merge_cells.                     *)
THEOREM MergesLoseNoWord == Spec => MergeLosesNoWord
<1> DEFINE Same(h) ==
      (At(h, "commit") /\ req[h].op = "merge_cells" /\ ~req[h].overlap /\ CommitRows(h)) =>
        WordsOf(grid[Target(h)]) = WordsOf(grid'[Target(h)])
<1>1. ASSUME EditsInv, NEW h \in Handler  PROVE Same(h)
  <2> DEFINE t == Target(h)
  <2> SUFFICES ASSUME At(h, "commit"), req[h].op = "merge_cells",
                      ~req[h].overlap, CommitRows(h), grid' # grid
               PROVE  WordsOf(grid[t]) = WordsOf(grid'[t])
    BY <1>1
  <2>1. Busy(h)'
    <3>1. req' = [req EXCEPT ![h] = [req[h] EXCEPT !.pc = "read", !.base = {}]]
      BY <1>1, CommitKinds
    <3> DEFINE s == [req[h] EXCEPT !.pc = "read", !.base = {}]
    <3>2. IsRequest(s)
      BY <1>1, CommitKinds, GoesOn
    <3> HIDE DEF s
    <3>3. req'[h] = s /\ s # Idle
      BY <1>1, <3>1, <3>2 DEF s, IsRequest, Idle, EditsInv, TypeOK
    <3> QED
      BY <3>3 DEF Busy
  <2>2. PICK g \in Edited(h) : req[h].base = grid[t] /\ grid' = [grid EXCEPT ![t] = g]
    BY <1>1, <2>1, CommitAlone
  <2>3. WordsOf(g) = WordsOf(req[h].base)
    BY <1>1, CommitKinds, EditKinds
  <2>4. grid'[t] = g
    BY <1>1, <2>2, CommitKinds DEF EditsInv, TypeOK
  <2> QED
    BY <2>2, <2>3, <2>4
<1>2. EditsInv /\ [Next]_vars => [\A h \in Handler : Same(h)]_vars
  BY <1>1
<1> QED
  BY <1>2, EditsAreTyped, PTL DEF Spec, MergeLosesNoWord
=============================================================================
