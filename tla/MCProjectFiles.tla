--------------------------- MODULE MCProjectFiles ---------------------------
(* Small instances of ProjectFiles for TLC. *)
EXTENDS ProjectFiles, TLC
CONSTANTS ann, bob, cat
Symmetry == Permutations(Users \ Patchers)
=============================================================================
