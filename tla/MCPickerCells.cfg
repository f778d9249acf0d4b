SPECIFICATION Spec
CONSTANTS
  p1 = p1
  p2 = p2
  p3 = p3
  c1 = c1
  c2 = c2
  NoPicture = NoPicture
  Picture <- MCPicture
  Cell <- MCCell
  MaxCount = 2
  MaxRequests = 1
  MaxAnimations = 2
SYMMETRY Symmetry
INVARIANTS
  TypeOK
  SelectedByTap
  LooksRight
  NoDeadCell
