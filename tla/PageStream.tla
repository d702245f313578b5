----------------------------- MODULE PageStream -----------------------------
(***************************************************************************)
(* What PageWorkerPool.results() promises to the page loop that consumes   *)
(* it: results come one at a time, no page comes twice, and nothing comes  *)
(* after the stream ended.  It may end before every page came; the         *)
(* consumer's sequential sweep takes the rest.                             *)
(***************************************************************************)
EXTENDS Naturals, Sequences

CONSTANTS Result, NoPage
VARIABLES given, ended

vars == <<given, ended>>

Init == given = <<>> /\ ended = FALSE

Give(r) ==
    /\ ~ended
    /\ r.page # NoPage => \A i \in DOMAIN given : given[i].page # r.page
    /\ given' = Append(given, r)
    /\ UNCHANGED ended

End == ended' = TRUE /\ UNCHANGED given

Next == (\E r \in Result : Give(r)) \/ End

Spec == Init /\ [][Next]_vars
=============================================================================
