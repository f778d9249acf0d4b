SPECIFICATION FairSpec
CONSTANTS
  r1 = r1
  r2 = r2
  Row <- MCOneRow
  NumAlbums = 2
  RequestedMax = 2
  IsMultiSelection = TRUE
  MaxBatches = 2
PROPERTIES
  ButtonComesBack
  KeepsChoice
CHECK_DEADLOCK FALSE
