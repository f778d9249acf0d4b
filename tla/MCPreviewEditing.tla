-------------------------- MODULE MCPreviewEditing --------------------------
(* PreviewScreen for TLC, with the photo editor: two pictures of the roll  *)
(* and one of another album.                                               *)
EXTENDS PreviewScreen

CONSTANTS p1, p2, q1, roll, other

MCPicture == {p1, p2, q1}
Symmetry == Permutations({p1, p2})
MCAlbum == {roll, other}
MCAlbumOf == [p \in MCPicture |-> IF p = q1 THEN other ELSE roll]
=============================================================================
