------------------------ MODULE ExclusiveProcessing ------------------------
(***************************************************************************)
(* What the document lock promises to everyone who reads or writes a       *)
(* document's pages: at any time at most one run is at work on it, and     *)
(* only that run adds pages.  A new run starts only after the previous one *)
(* is gone, whatever ended it.                                             *)
(***************************************************************************)
CONSTANTS Worker, Page
VARIABLES running, pages

vars == <<running, pages>>

Init == running = {} /\ pages = {}

Enter(w) == running = {} /\ running' = {w} /\ UNCHANGED pages

AddPage(w, p) == running = {w} /\ pages' = pages \cup {p} /\ UNCHANGED running

Leave == running # {} /\ running' = {} /\ UNCHANGED pages

Next == \/ \E w \in Worker : Enter(w) \/ \E p \in Page : AddPage(w, p)
        \/ Leave

Spec == Init /\ [][Next]_vars
=============================================================================
