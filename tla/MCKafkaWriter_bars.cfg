SPECIFICATION Spec
CONSTANTS
  Kinds = {"row", "refused", "contract", "undecodable"}
  Periodic = FALSE
  FetchSize = 2
  QueueSize = 1
  BatchSize = 2
  MaxBuffer = 2
  MaxMsgs = 5
  MaxEnds = 2
CONSTRAINT
  MostlyRows
INVARIANTS
  BufferedOrStored
  LossWindow
CHECK_DEADLOCK FALSE
