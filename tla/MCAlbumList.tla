---------------------------- MODULE MCAlbumList ----------------------------
(* Three pickers over a small photo library.                              *)
EXTENDS AlbumList

CONSTANTS roll, album, other, empty, hiddenAlbum

MCLibraries == {<<album, roll, hiddenAlbum, other>>, <<empty, album, roll>>, << >>}
MCCameraRolls == {roll}
MCEmpty == {empty, roll}
MCNotListed == {hiddenAlbum}
MCCollection == {roll, album, other, empty, hiddenAlbum}
=============================================================================
