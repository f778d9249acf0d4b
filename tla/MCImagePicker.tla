---------------------------- MODULE MCImagePicker ----------------------------
(* ImagePicker for TLC.                                                    *)
EXTENDS ImagePicker, TLC

CONSTANTS r1, r2

MCRow == {r1, r2}
MCOneRow == {r1}
Symmetry == Permutations(MCRow)
=============================================================================
