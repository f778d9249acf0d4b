SPECIFICATION ScreenSpec
CONSTANTS
  p1 = p1
  p2 = p2
  q1 = q1
  roll = roll
  other = other
  Picture <- MCPicture
  Album <- MCAlbum
  AlbumOf <- MCAlbumOf
  MaxCount = 2
  MaxRequests = 1
  MaxAnimations = 1
  MaxUpdates = 1
  MaxDrift = 0
  MaxEdited = 1
SYMMETRY Symmetry
PROPERTY CrashesExplained
CHECK_DEADLOCK FALSE
