--------------------------- MODULE MCPickerCells ---------------------------
(* PickerCells for TLC: fewer cells than pictures.                         *)
EXTENDS PickerCells

CONSTANTS p1, p2, p3, c1, c2

MCPicture == {p1, p2, p3}
MCCell == {c1, c2}
Symmetry == Permutations(MCPicture) \union Permutations(MCCell)
=============================================================================
