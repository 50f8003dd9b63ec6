SPECIFICATION FairSpec
CONSTANTS
  s1 = s1  s2 = s2  d1 = d1  d2 = d2
  Vals = {"x", "y"}
  Setters = {s1, s2}
  Dispatchers = {d1, d2}
  Seeded = TRUE
  ClaimSize = 2
  NoSetter = NoSetter  NoVersion = NoVersion  NoVal = NoVal
  MaxSets = 2
  MaxFaults = 1
INVARIANTS
  VersionsIncrease
  NoLostUpdate
  RepeatsAreRetries
PROPERTIES
  EveryChangeArrives
CHECK_DEADLOCK FALSE
