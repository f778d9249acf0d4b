SPECIFICATION ScreenSpec
CONSTANTS
  p1 = p1
  p2 = p2
  p3 = p3
  roll = roll
  Picture <- MCPicture
  Album <- MCAlbum
  AlbumOf <- MCAlbumOf
  MaxCount = 2
  MaxRequests = 1
  MaxAnimations = 1
  MaxUpdates = 2
  MaxDrift = 1
  MaxEdited = 0
SYMMETRY Symmetry
INVARIANTS
  ScreenTypeOK
  StripNeverAhead
  NumberIsPosition
PROPERTY ImplementsPicker
CHECK_DEADLOCK FALSE
