--------------------------- MODULE MCTokenRotation ---------------------------
(* A small instance of TokenRotation for TLC. *)
EXTENDS TokenRotation, TLC

CONSTANTS c1, c2, c3

Symmetry == Permutations(Callers)
=============================================================================
