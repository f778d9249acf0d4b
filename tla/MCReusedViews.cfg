SPECIFICATION Spec
CONSTANTS
  v1 = v1
  v2 = v2
  p1 = p1
  p2 = p2
  n1 = n1
  n2 = n2
  NoPicture = NoPicture
  View <- MCView
  Picture <- MCPicture
  RequestId <- MCRequestId
  MaxEdits = 1
SYMMETRY Symmetry
INVARIANTS
  TypeOK
  RightWhenAnswered
  NoLeftover
  MediumKept
