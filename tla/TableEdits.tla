----------------------------- MODULE TableEdits -----------------------------
(* Editing a processed page: cells, rows, columns, merges and block text.  *)
(* Every edit is kept twice, in the table rows of the database and in the  *)
(* page's Document JSON, one column that an edit reads, changes and writes *)
(* back as a whole.  Requests run side by side, and a reprocessing run may *)
(* replace the page under them.                                            *)
(*                                                                         *)
(* The text of a cell is the set of words it holds; a word is the cell it  *)
(* was recognised in or the edit that typed it.  Alignment, boxes, styles  *)
(* and the row heights of the JSON copy are left out.                      *)
EXTENDS Integers, FiniteSets, FiniteSetsExt, Functions

CONSTANTS
  Table,        \* the tables of the page
  Handler,      \* threads that serve edit requests
  Size,         \* rows and columns of each table as it was detected
  Span,         \* rowspan and colspan a cell edit may set; nothing checks them
  Index,        \* rows and columns a request may name; nothing checks them
  MaxEdits,     \* bound: edit requests
  MaxSide,      \* bound: rows and columns of each table that additions lead to
  MaxReprocess  \* bound: times a run persists the page again

ASSUME SizeAssumption == Size \in [Table -> (1 .. 3) \X (1 .. 3)]
ASSUME SpanAssumption == Span \subseteq Int \X Int /\ Index \subseteq Int
ASSUME BoundsAssumption == MaxEdits \in Nat /\ MaxReprocess \in Nat

VARIABLES
  grid,    \* the Table and TableCell rows of each table
  block,   \* the text of a text block's row
  page,    \* document_json: both, as reconstruction and exports read them
  req,     \* what each handler is doing
  edits,   \* requests so far; names the cells and words a request creates
  runs,    \* times the page was persisted
  ragged,  \* history: tables with a row or column added or deleted where
           \* there is none, a merge that moved a cell onto another one's
           \* place, or an edit that overlapped another
  doubt    \* history: tables whose JSON an overlapping edit, a cell edit in
           \* another table, or a change of a cell's spans may have made
           \* differ since it was last written

vars == <<grid, block, page, req, edits, runs, ragged, doubt>>

NewCell(r, c) == [row |-> r, column |-> c, rowspan |-> 1, colspan |-> 1, text |-> {}]

(* persist_page_pipeline_result writes the detected grid, one cell a place *)
Detected(n, t) ==
  LET rows == Size[t][1]  cols == Size[t][2]
      Name(r, c) == <<n, 10 * r + c>>
      places == (0 .. rows - 1) \X (0 .. cols - 1)
  IN [n_rows |-> rows, n_cols |-> cols, heights |-> rows,
      cells |-> [i \in {Name(x[1], x[2]) : x \in places} |->
                   [NewCell(i[2] \div 10, i[2] % 10) EXCEPT !.text = {i}]]]

Cells(g) == {g.cells[i] : i \in DOMAIN g.cells}
WordsOf(g) == UNION {c.text : c \in Cells(g)}
JsonOf(g) == Cells(g)

Idle == [pc |-> "idle"]
Busy(h) == req[h] # Idle

Structural == {"add_row", "delete_row", "add_column", "delete_column", "split_cell"}
Ops == Structural \cup {"merge_cells", "cell", "block"}

Name == Int \X Int
Cell == [row : Int, column : Int, rowspan : Int, colspan : Int, text : SUBSET Name]

IsGrid(g) ==
  /\ g \in [n_rows : Nat \ {0}, n_cols : Nat \ {0}, heights : Nat, cells : [DOMAIN g.cells -> Cell]]
  /\ DOMAIN g.cells \subseteq Name /\ IsFiniteSet(DOMAIN g.cells)

IsPage(p) == p \in [tables : [Table -> SUBSET Cell], text : Nat]

(* A client that saw table g could ask this.                               *)
Fits(ask, g) ==
  /\ ask.op = "merge_cells" => ask.ids \subseteq DOMAIN g.cells
  /\ ask.op \in {"split_cell", "cell"} => \E i \in DOMAIN g.cells : ask.ids = {i}

IsRequest(r) ==
  /\ r \in [pc : {"commit", "read", "write"}, op : Ops, k : Nat, overlap : BOOLEAN,
             ask : [op : {r.op}, table : Table, at : Int, ids : SUBSET Name],
             base : {r.base}, json : {r.json}]
  /\ r.pc = "commit" => IsGrid(r.base) /\ Fits(r.ask, r.base)
  /\ r.pc = "write" => IsPage(r.json)

TypeOK ==
  /\ DOMAIN grid = Table /\ \A t \in Table : IsGrid(grid[t])
  /\ block \in Nat /\ IsPage(page)
  /\ DOMAIN req = Handler /\ \A h \in Handler : Busy(h) => IsRequest(req[h])
  /\ edits \in 0 .. MaxEdits /\ runs \in 0 .. MaxReprocess
  /\ ragged \subseteq Table /\ doubt \subseteq Table

Init ==
  /\ grid = [t \in Table |-> Detected(0, t)]
  /\ block = 0
  /\ page = [tables |-> [t \in Table |-> JsonOf(grid[t])], text |-> block]
  /\ req = [h \in Handler |-> Idle]
  /\ edits = 0 /\ runs = 0 /\ ragged = {} /\ doubt = {}

-----------------------------------------------------------------------------
(* Mutants: plausible bugs that the runs' properties must detect           *)
AddRowShiftsBelow(g, at, k) ==
  [g EXCEPT !.n_rows = @ + 1, !.heights = @ + 1,
     !.cells = [i \in DOMAIN @ \cup {<<k, c>> : c \in 0 .. g.n_cols - 1} |->
                  IF i \notin DOMAIN @ THEN NewCell(at, i[2])
                  ELSE IF @[i].row > at THEN [@[i] EXCEPT !.row = @ + 1] ELSE @[i]]]
AnchorTextOnly(cs) == {(CHOOSE c \in cs : TRUE).text}
WholeRowWritten(mine, base, now) == mine
JsonWithoutSpans(h) ==
  {[c EXCEPT !.rowspan = 1, !.colspan = 1] : c \in Cells(grid[req[h].ask.table])}

-----------------------------------------------------------------------------
(* The structure edits, as functions of a table                            *)

Added(g, new) ==
  [i \in DOMAIN g \cup DOMAIN new |-> IF i \in DOMAIN new THEN new[i] ELSE g[i]]

(* Row at becomes a new empty row, the rows from there on move down.       *)
AddRow(g, at, k) ==
  LET moved == [i \in DOMAIN g.cells |->
                  IF g.cells[i].row >= at THEN [g.cells[i] EXCEPT !.row = @ + 1] ELSE g.cells[i]]
      new == [i \in {<<k, c>> : c \in 0 .. g.n_cols - 1} |-> NewCell(at, i[2])]
  IN [g EXCEPT !.n_rows = @ + 1, !.heights = @ + 1, !.cells = Added(moved, new)]

AddColumn(g, at, k) ==
  LET moved == [i \in DOMAIN g.cells |->
                  IF g.cells[i].column >= at THEN [g.cells[i] EXCEPT !.column = @ + 1]
                  ELSE g.cells[i]]
      new == [i \in {<<k, r>> : r \in 0 .. g.n_rows - 1} |-> NewCell(i[2], at)]
  IN [g EXCEPT !.n_cols = @ + 1, !.cells = Added(moved, new)]

(* Spans are not adjusted, and an index outside the table still shrinks it.*)
DeleteRow(g, at) ==
  LET kept == {i \in DOMAIN g.cells : g.cells[i].row # at}
  IN IF g.n_rows <= 1 THEN g
     ELSE [g EXCEPT !.n_rows = @ - 1,
             !.heights = IF at \in 0 .. @ - 1 THEN @ - 1 ELSE @,
             !.cells = [i \in kept |-> IF g.cells[i].row > at
                                         THEN [g.cells[i] EXCEPT !.row = @ - 1] ELSE g.cells[i]]]

DeleteColumn(g, at) ==
  LET kept == {i \in DOMAIN g.cells : g.cells[i].column # at}
  IN IF g.n_cols <= 1 THEN g
     ELSE [g EXCEPT !.n_cols = @ - 1,
             !.cells = [i \in kept |-> IF g.cells[i].column > at
                                         THEN [g.cells[i] EXCEPT !.column = @ - 1] ELSE g.cells[i]]]

Before(c, d) == c.row < d.row \/ (c.row = d.row /\ c.column <= d.column)
JoinedText(cs) == {UNION {c.text : c \in cs}}
TopRow(cs) == Min({c.row : c \in cs})
LeftColumn(cs) == Min({c.column : c \in cs})
BottomRow(cs) == Max({c.row + c.rowspan - 1 : c \in cs})
RightColumn(cs) == Max({c.column + c.colspan - 1 : c \in cs})

(* The first selected cell, moved to the corner of the bounding box, takes *)
(* the whole box and all the text; whatever else lies in the box stays.    *)
MergeCells(g, ids) ==
  LET sel == ids \cap DOMAIN g.cells
      cs == {g.cells[i] : i \in sel}
  IN IF Cardinality(sel) < 2 THEN {g}
     ELSE {[g EXCEPT !.cells = [i \in (DOMAIN g.cells \ sel) \cup {anchor} |->
              IF i # anchor THEN g.cells[i]
              ELSE [row |-> TopRow(cs), column |-> LeftColumn(cs),
                    rowspan |-> BottomRow(cs) - TopRow(cs) + 1,
                    colspan |-> RightColumn(cs) - LeftColumn(cs) + 1, text |-> text]]] :
             anchor \in {i \in sel : \A j \in sel : Before(g.cells[i], g.cells[j])},
             text \in JoinedText(cs)}

(* The merged cells do not come back.                                      *)
SplitCell(g, i) ==
  IF i \notin DOMAIN g.cells THEN g
  ELSE [g EXCEPT !.cells[i] = [@ EXCEPT !.rowspan = 1, !.colspan = 1]]

SetText(g, i, word) == [g EXCEPT !.cells[i] = [@ EXCEPT !.text = word]]

(* A cell edit may set the text, the spans, or both.                       *)
UpdateCell(g, i, word) ==
  LET c == g.cells[i]
  IN {[g EXCEPT !.cells[i] = [c EXCEPT !.text = new[1], !.rowspan = new[2][1],
                                       !.colspan = new[2][2]]] :
        new \in {c.text, word} \X ({<<c.rowspan, c.colspan>>} \cup Span)}

(* The cells whose spans differ.                                           *)
Respanned(g, g2) ==
  {i \in DOMAIN g.cells \cap DOMAIN g2.cells :
     g.cells[i].rowspan # g2.cells[i].rowspan \/ g.cells[i].colspan # g2.cells[i].colspan}

(* The row or column asked for is not one of the table's.                  *)
OutOfRange(ask, g) ==
  \/ ask.op = "add_row" /\ ask.at \notin 0 .. g.n_rows
  \/ ask.op = "add_column" /\ ask.at \notin 0 .. g.n_cols
  \/ ask.op = "delete_row" /\ g.n_rows > 1 /\ ask.at \notin 0 .. g.n_rows - 1
  \/ ask.op = "delete_column" /\ g.n_cols > 1 /\ ask.at \notin 0 .. g.n_cols - 1

(* The merged cell moves to where a cell starts that was not selected.     *)
CornerTaken(g, ids) ==
  LET cs == {g.cells[i] : i \in ids}
  IN \E i \in DOMAIN g.cells \ ids :
       g.cells[i].row = TopRow(cs) /\ g.cells[i].column = LeftColumn(cs)

-----------------------------------------------------------------------------
(* Requests                                                                *)

(* What a client can ask for.  No index is checked: it may come from an    *)
(* older view of the table, or from nowhere.                               *)
Requests(t) ==
  LET g == grid[t]
      R(op, at, ids) == [op |-> op, table |-> t, at |-> at, ids |-> ids]
      spanned == {i \in DOMAIN g.cells : g.cells[i].rowspan # 1 \/ g.cells[i].colspan # 1}
  IN {R("add_row", n, {}) : n \in IF g.n_rows < MaxSide[t] THEN Index ELSE {}}
     \cup {R("add_column", n, {}) : n \in IF g.n_cols < MaxSide[t] THEN Index ELSE {}}
     \cup {R("delete_row", n, {}) : n \in IF g.n_rows > 1 THEN Index ELSE {0}}
     \cup {R("delete_column", n, {}) : n \in IF g.n_cols > 1 THEN Index ELSE {0}}
     \cup {R("merge_cells", 0, ids) : ids \in {s \in SUBSET DOMAIN g.cells : Cardinality(s) >= 2}}
     \cup {R("split_cell", 0, {i}) : i \in spanned}
     \cup {R("cell", 0, {i}) : i \in DOMAIN g.cells}
     \cup (IF t = CHOOSE u \in Table : TRUE THEN {R("block", 0, {})} ELSE {})

At(h, pc) == Busy(h) /\ req[h].pc = pc
Target(h) == req[h].ask.table
Fails(h) == req' = [req EXCEPT ![h] = Idle]

(* A request arrives and its session loads the rows.                       *)
Load(h) ==
  /\ ~Busy(h) /\ edits < MaxEdits
  /\ edits' = edits + 1
  /\ \E t \in Table : \E r \in Requests(t) :
       req' = [q \in Handler |->
         IF q = h THEN [pc |-> "commit", ask |-> r, op |-> r.op, k |-> edits', base |-> grid[t],
                        json |-> {}, overlap |-> \E p \in Handler : Busy(p)]
         ELSE IF Busy(q) THEN [req[q] EXCEPT !.overlap = TRUE] ELSE Idle]
  /\ UNCHANGED <<grid, block, page, runs, ragged, doubt>>

Edited(h) ==
  LET g == req[h].base  ask == req[h].ask  k == req[h].k
  IN CASE ask.op = "add_row" -> {AddRow(g, ask.at, k)}
       [] ask.op = "add_column" -> {AddColumn(g, ask.at, k)}
       [] ask.op = "delete_row" -> {DeleteRow(g, ask.at)}
       [] ask.op = "delete_column" -> {DeleteColumn(g, ask.at)}
       [] ask.op = "merge_cells" -> MergeCells(g, ask.ids)
       [] ask.op = "split_cell" -> {SplitCell(g, CHOOSE i \in ask.ids : TRUE)}
       [] ask.op = "cell" -> UpdateCell(g, CHOOSE i \in ask.ids : TRUE, {<<k, 99>>})

(* The session writes the columns it changed, and only those.              *)
Written(mine, base, now) ==
  [f \in DOMAIN now |-> IF mine[f] # base[f] THEN mine[f] ELSE now[f]]

WrittenCells(mine, base, now) ==
  LET deleted == DOMAIN base \ DOMAIN mine
      added == DOMAIN mine \ DOMAIN base
  IN [i \in (DOMAIN now \ deleted) \cup added |->
        IF i \in added THEN mine[i]
        ELSE IF i \in DOMAIN mine THEN Written(mine[i], base[i], now[i]) ELSE now[i]]

RowsAfter(mine, base, now) ==
  [n_rows |-> IF mine.n_rows # base.n_rows THEN mine.n_rows ELSE now.n_rows,
   n_cols |-> IF mine.n_cols # base.n_cols THEN mine.n_cols ELSE now.n_cols,
   heights |-> IF mine.heights # base.heights THEN mine.heights ELSE now.heights,
   cells |-> WrittenCells(mine.cells, base.cells, now.cells)]

(* An update of a row that is gone matches nothing: the request fails.     *)
Vanished(mine, base, now) ==
  \E i \in DOMAIN mine \cap DOMAIN base : mine[i] # base[i] /\ i \notin DOMAIN now

CommitRows(h) ==
  /\ At(h, "commit") /\ req[h].op # "block"
  /\ \E g \in Edited(h) :
       LET t == Target(h)  base == req[h].base  ask == req[h].ask
       IN IF Vanished(g.cells, base.cells, grid[t].cells)
          THEN Fails(h) /\ UNCHANGED <<grid, ragged, doubt>>
          ELSE /\ grid' = [grid EXCEPT ![t] = RowsAfter(g, base, @)]
               /\ req' = [req EXCEPT ![h] = [@ EXCEPT !.pc = "read", !.base = {}]]
               /\ ragged' = IF \/ req[h].overlap \/ OutOfRange(ask, base)
                               \/ ask.op = "merge_cells" /\ CornerTaken(base, ask.ids)
                              THEN ragged \cup {t} ELSE ragged
               /\ doubt' = IF ask.op = "cell" /\ Respanned(base, g) # {}
                             THEN doubt \cup {t} ELSE doubt
  /\ UNCHANGED <<block, page, edits, runs>>

CommitBlock(h) ==
  /\ At(h, "commit") /\ req[h].op = "block"
  /\ block' = req[h].k
  /\ req' = [req EXCEPT ![h] = [@ EXCEPT !.pc = "read", !.base = {}]]
  /\ UNCHANGED <<grid, page, edits, runs, ragged, doubt>>

(* The rows as they are after the commit, for the JSON copy.               *)
JsonAfterCommit(h) == JsonOf(grid[Target(h)])

(* A cell edit copies the text, not the spans, to every table's cell at    *)
(* its place.                                                              *)
Touched(cells, places, word) ==
  {IF <<c.row, c.column>> \in places THEN [c EXCEPT !.text = word] ELSE c : c \in cells}

(* Table and page are read again and the page's JSON is changed in memory. *)
ReadPage(h) ==
  /\ At(h, "read")
  /\ LET t == Target(h)
         live == req[h].ask.ids \cap DOMAIN grid[t].cells
         places == {<<grid[t].cells[i].row, grid[t].cells[i].column>> : i \in live}
         changed ==
           CASE req[h].op = "block" -> [page EXCEPT !.text = block]
             [] req[h].op = "cell" ->
                  [page EXCEPT !.tables = [u \in Table |->
                     Touched(page.tables[u], places, UNION {grid[t].cells[i].text : i \in live})]]
             [] OTHER -> [page EXCEPT !.tables[t] = JsonAfterCommit(h)]
     IN req' = [req EXCEPT ![h] = [@ EXCEPT !.pc = "write", !.json = changed]]
  /\ UNCHANGED <<grid, block, page, edits, runs, ragged, doubt>>

(* Tables where a cell edit changes the JSON of a cell that it is not for: *)
(* another table's, or one of the same table that starts at the same place *)
Spoilt(h) ==
  {u \in Table \ {Target(h)} : req[h].json.tables[u] # page.tables[u]}
    \cup (ragged \cap {Target(h)})

WritePage(h) ==
  /\ At(h, "write")
  /\ page' = req[h].json
  /\ doubt' = IF req[h].overlap THEN Table
              ELSE IF req[h].op \in {"cell", "block"} THEN doubt \cup Spoilt(h)
              ELSE doubt \ {Target(h)}
  /\ req' = [req EXCEPT ![h] = Idle]
  /\ UNCHANGED <<grid, block, edits, runs, ragged>>

(* A run persists the page: rows and JSON are replaced in one commit.      *)
PersistPage ==
  /\ runs < MaxReprocess
  /\ runs' = runs + 1
  /\ grid' = [t \in Table |-> Detected(-runs', t)]
  /\ block' = 0
  /\ page' = [tables |-> [t \in Table |-> JsonOf(grid'[t])], text |-> 0]
  /\ req' = [h \in Handler |-> IF Busy(h) THEN [req[h] EXCEPT !.overlap = TRUE] ELSE Idle]
  /\ ragged' = {} /\ doubt' = {}
  /\ UNCHANGED edits

Next ==
  \/ \E h \in Handler : \/ Load(h) \/ CommitRows(h) \/ CommitBlock(h)
                        \/ ReadPage(h) \/ WritePage(h)
  \/ PersistPage

Spec == Init /\ [][Next]_vars

-----------------------------------------------------------------------------
Quiet == \A h \in Handler : ~Busy(h)

(* What reconstruction and exports read is what the editor shows, unless   *)
(* an overlapping request, a cell edit that changed a span, or one at the  *)
(* same place as another cell of the page, came after the table was last   *)
(* written: a later row, column or merge edit on its own makes the two     *)
(* copies agree again.                                                     *)
JsonMatchesRows == Quiet => \A t \in Table \ doubt : page.tables[t] = JsonOf(grid[t])

(* A table edited one request at a time, with rows and columns it has and  *)
(* merges that move no cell onto another, keeps a sound grid: no two cells *)
(* start at the same place, every cell starts inside the table, and there  *)
(* is a height for every row.                                              *)
Sound(g) ==
  /\ \A i, j \in DOMAIN g.cells :
       g.cells[i].row = g.cells[j].row /\ g.cells[i].column = g.cells[j].column => i = j
  /\ \A i \in DOMAIN g.cells : /\ g.cells[i].row \in 0 .. g.n_rows - 1
                               /\ g.cells[i].column \in 0 .. g.n_cols - 1
  /\ g.heights = g.n_rows

SoundGrid == \A t \in Table \ ragged : Sound(grid[t])

(* Whatever requests overlap it, a row, column or split edit never undoes  *)
(* a text that another request has stored in a cell that stays.            *)
StructureKeepsText ==
  [][\A h \in Handler : (At(h, "commit") /\ req[h].op \in Structural /\ CommitRows(h)) =>
       LET t == Target(h) IN
       \A i \in DOMAIN grid[t].cells \cap DOMAIN grid'[t].cells :
         grid'[t].cells[i].text = grid[t].cells[i].text]_vars

(* A merge on its own loses no word, whichever cells are selected.         *)
MergeLosesNoWord ==
  [][\A h \in Handler :
       (At(h, "commit") /\ req[h].op = "merge_cells" /\ ~req[h].overlap /\ CommitRows(h)) =>
         WordsOf(grid[Target(h)]) = WordsOf(grid'[Target(h)])]_vars

-----------------------------------------------------------------------------
(* What every step keeps: the inductive invariant behind the properties    *)

(* A request names its new cells as nobody else does.                      *)
NamesInv ==
  /\ \A t \in Table : \A i \in DOMAIN grid[t].cells : i[1] <= edits
  /\ \A h \in Handler : At(h, "commit") =>
       /\ req[h].k \in 1 .. edits
       /\ \A i \in DOMAIN req[h].base.cells : i[1] # req[h].k
       /\ \A t \in Table : \A i \in DOMAIN grid[t].cells : i[1] # req[h].k
       /\ \A p \in Handler : At(p, "commit") /\ req[p].k = req[h].k => p = h

(* A request that nobody overlapped changes the rows it loaded, and finds  *)
(* the cell it edited.                                                     *)
AloneInv ==
  \A h \in Handler : Busy(h) /\ ~req[h].overlap =>
    /\ \A p \in Handler : Busy(p) => p = h
    /\ At(h, "commit") => req[h].base = grid[Target(h)]
    /\ At(h, "read") /\ req[h].op = "cell" =>
         \E i \in DOMAIN grid[Target(h)].cells : req[h].ask.ids = {i}

(* The rows have the request's change, the JSON does not yet.              *)
Stored(h) == Busy(h) /\ req[h].pc # "commit"

(* Before a cell edit is copied the JSON has an older text in that place.  *)
OneTextApart(h) ==
  \E i \in DOMAIN grid[Target(h)].cells, c \in page.tables[Target(h)] :
    /\ req[h].ask.ids = {i}
    /\ page.tables[Target(h)] = JsonOf(SetText(grid[Target(h)], i, c.text))

(* What a request is about to write is what the rows say.                  *)
WillAgree(h) ==
  LET t == Target(h)  json == req[h].json
  IN CASE req[h].op = "block" -> json.tables = page.tables
       [] req[h].op = "cell" -> t \in doubt \cup ragged \/ json.tables[t] = JsonOf(grid[t])
       [] OTHER -> json.tables = [page.tables EXCEPT ![t] = JsonOf(grid[t])]

JsonInv ==
  \/ \E h \in Handler : Stored(h) /\ req[h].overlap
  \/ /\ \A t \in Table \ doubt :
          \/ page.tables[t] = JsonOf(grid[t])
          \/ \E h \in Handler : Stored(h) /\ Target(h) = t /\ req[h].op # "block"
     /\ \A h \in Handler :
          /\ At(h, "read") /\ req[h].op = "cell" =>
               Target(h) \in doubt \cup ragged \/ OneTextApart(h)
          /\ At(h, "write") => WillAgree(h)

EditsInv == TypeOK /\ NamesInv /\ AloneInv
IInv == EditsInv /\ SoundGrid /\ JsonInv
=============================================================================
