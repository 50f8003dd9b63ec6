SPECIFICATION FairSpec
CONSTANTS
  MaxSize = 2
  BatchSize = 3
  DrainRatio = 2
  Threshold = 2
  MaxItems = 5
INVARIANTS
  TypeOK
  AtMostOnce
  JoinCounts
  DeliversInOrder
PROPERTIES
  JoinReturns
CHECK_DEADLOCK FALSE
