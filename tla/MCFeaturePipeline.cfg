SPECIFICATION FairSpec
CONSTANTS
  low = low  high = high
  Keys = {low, high}
  Lower <- MCLower
  MinBars <- MCMinBars
  QueueMax = 2
  CommitBatch = 2
  MaxLag = 2
  Prefetch = 1
  MaxBars = 4
  MaxStarts = 2
  MaxFaults = 1
INVARIANTS
  CacheIsReplay
  FeedIsComplete
PROPERTIES
  QueuesDrain
CHECK_DEADLOCK FALSE
