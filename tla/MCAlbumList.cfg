SPECIFICATION FairSpec
CONSTANTS
  Picker = {p1, p2, p3}
  roll = roll
  album = album
  other = other
  empty = empty
  hiddenAlbum = hiddenAlbum
  Collection <- MCCollection
  Libraries <- MCLibraries
  CameraRolls <- MCCameraRolls
  Empty <- MCEmpty
  NotListed <- MCNotListed
INVARIANTS TypeOK ListWhole PanelSettled
PROPERTY LoadingEnds
CHECK_DEADLOCK FALSE
