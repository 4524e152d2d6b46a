SPECIFICATION FairSpec
CONSTANTS
  MaxWords = 9
  MaxSize = 4
  MaxOverlap = 5
INVARIANTS
  TypeOK
  EveryWordRetrievable
  WindowsAdvance
PROPERTY Terminates
CHECK_DEADLOCK FALSE
