SPECIFICATION FairSpec
CONSTANTS
  Requests = {r1, r2}
  Alerts = {"a", "b"}
  None = None
  MaxPerHour = 1
  MinSample = 1
  MaxHooks = 3
  MaxFaults = 2
INVARIANTS
  WorkingPool
  LedgerFollowsPool
  RecordedNotRepeated
  RateBound
PROPERTIES
  RequestsEnd
CHECK_DEADLOCK FALSE
