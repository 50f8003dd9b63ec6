SPECIFICATION FairSpec
CONSTANTS
  Kinds = {"row", "undecodable"}
  Periodic = TRUE
  FetchSize = 1
  QueueSize = 1
  BatchSize = 2
  MaxBuffer = 2
  MaxMsgs = 3
  MaxEnds = 1
PROPERTIES
  BufferDrains
CHECK_DEADLOCK FALSE
