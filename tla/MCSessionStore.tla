--------------------------- MODULE MCSessionStore ---------------------------
(* Two terminals, a few requests, two crashes and a starting engine.       *)
EXTENDS SessionStore, TLC

Symmetry == Permutations(Processes)
=============================================================================
