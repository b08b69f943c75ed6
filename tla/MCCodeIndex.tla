----------------------------- MODULE MCCodeIndex -----------------------------
(* Two files, one content of which cannot be cut into chunks.              *)
EXTENDS CodeIndex, TLC

Symmetry == Permutations(Paths)
=============================================================================
