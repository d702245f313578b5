-------------------------- MODULE MCMasterRegister --------------------------
(* Model-checking instances of MasterRegister.                             *)
EXTENDS MasterRegister

CONSTANTS a, b, c, p1, p2

(* Two books whose file names carry the numbers that others may have been  *)
(* given at first, and one with a number of its own.                       *)
MCDocs == {a, b, c}
MCProcs == {p1, p2}
MCFilename == [d \in MCDocs |-> CASE d = a -> 2 [] d = b -> 1 [] d = c -> 4]
MCCover == [d \in MCDocs |-> 0]

(* Two runs race with two requests, or one with a request and a deletion   *)
(* or with two requests and something that fails; requests race with each  *)
(* other and a deletion; three refreshes renumber books under one another. *)
Allowed(runs, requests, deletes, faults) ==
  [runs |-> runs, requests |-> requests, deletes |-> deletes, faults |-> faults]
MCBounds == {Allowed(2, 2, 0, 0), Allowed(1, 1, 1, 0), Allowed(0, 2, 1, 0),
             Allowed(1, 2, 0, 1), Allowed(0, 3, 0, 0)}

Processes == Permutations(MCProcs)
=============================================================================
