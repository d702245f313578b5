-------------------------- MODULE MCDocumentLibrary --------------------------
(* A small instance of DocumentLibrary for TLC.                            *)
EXTENDS DocumentLibrary, TLC

CONSTANTS d1, d2, c1, bad, t1, t2, api1, api2

MCDocs == {d1, d2}
MCContents == {c1, bad}
MCRefused == {bad}
MCTasks == {t1, t2}
MCApis == {api1, api2}

Interchangeable == Permutations(MCDocs) \cup Permutations(MCTasks) \cup Permutations(MCApis)
=============================================================================
