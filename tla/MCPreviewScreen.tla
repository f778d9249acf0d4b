--------------------------- MODULE MCPreviewScreen ---------------------------
(* PreviewScreen for TLC: three pictures of one album.                     *)
EXTENDS PreviewScreen

CONSTANTS p1, p2, p3, roll

MCPicture == {p1, p2, p3}
MCAlbum == {roll}
Symmetry == Permutations(MCPicture)
MCAlbumOf == [p \in MCPicture |-> roll]
=============================================================================
