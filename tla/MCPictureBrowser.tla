-------------------------- MODULE MCPictureBrowser --------------------------
(* PictureBrowser for TLC: a JPEG and a picture of which only the original *)
(* is a GIF; the second may be passed again.                               *)
EXTENDS PictureBrowser

CONSTANTS jpeg, gif

MCLists == {<<jpeg, gif>>, <<gif>>}
=============================================================================
