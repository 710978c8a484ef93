----------------------------- MODULE MCPatchSet -----------------------------
(* Small instances of PatchSet for TLC. *)
EXTENDS PatchSet, TLC
CONSTANTS f, g, load, call, x, y
Calls == [op : {call}, imm : Imms]
Loads == [op : {load}, imm : Imms]
Symmetry == Permutations(Functions) \cup Permutations(Imms)
=============================================================================
