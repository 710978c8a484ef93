-------------------------- MODULE MCAnchoredNames --------------------------
(* Small instances of AnchoredNames for TLC. *)
EXTENDS AnchoredNames, TLC

\* Four bodies: two pairs that differ in embedded addresses only.
MCShapeOf == 1 :> 7 @@ 2 :> 5 @@ 3 :> 7 @@ 4 :> 5

Symmetry == Permutations(Functions)
=============================================================================
