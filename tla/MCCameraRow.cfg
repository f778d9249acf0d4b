SPECIFICATION FairSpec
CONSTANTS
  t1 = t1
  t2 = t2
  t3 = t3
  Take <- MCTake
INVARIANTS
  TypeOK
  DisplayExplained
  OneResult
PROPERTY CloseFollows
\* The picker is closed for good.
CHECK_DEADLOCK FALSE
