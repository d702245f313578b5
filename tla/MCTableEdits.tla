---------------------------- MODULE MCTableEdits ----------------------------
(* Model-checking instances of TableEdits.                                 *)
EXTENDS TableEdits, TLC

CONSTANTS t1, t2, h1, h2

MCTables == {t1, t2}
MCHandlers == {h1, h2}

(* A table with rows to merge, and a single cell beside it.                *)
MCSize == (t1 :> <<2, 1>>) @@ (t2 :> <<1, 1>>)

(* Requests name a row or column before the table, in it, and beyond it.   *)
MCIndex == {-1, 0, 2}
MCSpan == {<<2, 1>>}
MCMaxSide == (t1 :> 2) @@ (t2 :> 1)

Handlers == Permutations(MCHandlers)
=============================================================================
