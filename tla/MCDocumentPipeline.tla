------------------------- MODULE MCDocumentPipeline -------------------------
(* Model-checking instances of DocumentPipeline.                           *)
EXTENDS DocumentPipeline, TLC

CONSTANTS w1, w2, p1, p2

MCWorkers == {w1, w2}
MCOneWorker == {w1}
MCPages == {p1, p2}
MCOnePage == {p1}
NothingSlow == {}
TailSlow == {"tail"}
AllSlow == {"error", "tail"}

(* Worker processes are interchangeable, and so are pages.                 *)
JustWorkers == Permutations(MCWorkers)
WorkersAndPages == Permutations(MCWorkers) \cup Permutations(MCPages)
=============================================================================
