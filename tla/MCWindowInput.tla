--------------------------- MODULE MCWindowInput ---------------------------
(* Small instances of WindowInput for TLC.                                 *)
EXTENDS WindowInput

PositionSymmetry == Permutations(Positions)
=============================================================================
