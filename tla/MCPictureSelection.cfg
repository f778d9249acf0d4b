SPECIFICATION Spec
CONSTANTS
  p1 = p1
  p2 = p2
  p3 = p3
  roll = roll
  screenshots = screenshots
  Picture <- MCPicture
  Album <- MCAlbum
  AlbumOf <- MCAlbumOf
  MaxCount = 2
  MaxRequests = 1
  MaxAnimations = 2
INVARIANTS
  TypeOK
  SelectionConsistent
  NoPictureStranded
  BarFollowsSelection
  CellsSettled
  DeliveredKept
PROPERTY KeepsPromise
\* The picker may have gone, or UIKit may have raised an exception.
CHECK_DEADLOCK FALSE
