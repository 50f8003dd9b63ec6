SPECIFICATION FairSpec
CONSTANTS
  NSlots = 5
  Holds = {2, 3, 5}
  MaxChunk = 3
  Cluster = 1
  MaxAttempts = 2
  MaxBuffer = 2
  MaxRuns = 2
  MaxRebuilds = 1
  MaxFaults = 3
INVARIANTS
  TypeOK
  CoverageIsExact
  NoSilentHole
  RecordedOnce
PROPERTIES
  LockFreed
CHECK_DEADLOCK FALSE
