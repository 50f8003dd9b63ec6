SPECIFICATION Spec
CONSTANTS
  Timeframes <- MCTimeframes
  Minutes <- MCMinutes
  Breaks <- MCBreaks
  Times <- MCTimes
  MaxBars = 4
  MaxFailures = 1
  MaxCrashes = 1
INVARIANTS
  BarsAreWhole
  SuppressedOnlyAtBreak
PROPERTIES
  ImplementsStream
CHECK_DEADLOCK FALSE
