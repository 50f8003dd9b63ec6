SPECIFICATION Spec
CONSTANTS
  Kinds = {"row"}
  Periodic = TRUE
  FetchSize = 2
  QueueSize = 1
  BatchSize = 2
  MaxBuffer = 3
  MaxMsgs = 3
  MaxEnds = 1
INVARIANTS
  BufferedOrStored
CHECK_DEADLOCK FALSE
