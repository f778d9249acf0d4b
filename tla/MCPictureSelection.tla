------------------------- MODULE MCPictureSelection -------------------------
(* PictureSelection for TLC: two pictures in one album, one in another.    *)
EXTENDS PictureSelection

CONSTANTS p1, p2, p3, roll, screenshots

MCPicture == {p1, p2, p3}
MCAlbum == {roll, screenshots}
MCAlbumOf == [p \in MCPicture |-> IF p = p3 THEN screenshots ELSE roll]
=============================================================================
