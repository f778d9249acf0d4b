SPECIFICATION Spec
CONSTANTS
  r1 = r1
  r2 = r2
  Row <- MCRow
  NumAlbums = 2
  RequestedMax = 2
  IsMultiSelection = TRUE
  MaxBatches = 2
SYMMETRY Symmetry
INVARIANTS
  TypeOK
  CountIsRows
  WholeDelivery
  CellsFollowSelection
\* The picker may be dismissed for good, or the program may have crashed.
CHECK_DEADLOCK FALSE
