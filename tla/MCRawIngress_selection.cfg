SPECIFICATION IngressSpec
CONSTANTS
  ibkr = ibkr  sip = sip  iex = iex
  x = x  y = y
  p1 = p1  p2 = p2
  IBKR = IBKR  ALPACA = ALPACA
  Vendors = {IBKR, ALPACA}
  VendorOf <- MCVendorOf
  KindOrder <- MCKindOrder
  SeriesOrder <- MCSeriesOrder
  Chunks <- MCSelectionChunks
  NoRow = NoRow  NoVal = NoVal  NoProc = NoProc
  Series = {ibkr, sip, iex}
  NeverSelected = {iex}
  SessionBound = {sip, iex}
  Slots = {1, 2}
  HasGrid = TRUE
  Grid = {1}
  Vals = {x, y}
  NullVolume = {y}
  MaxTime = 1
  Legacy <- NoLegacy
  Rankings <- AllRankings
  MaxTx = 3
  MaxOffered = 2
  MaxSeries = 1
  Procs = {p1, p2}
SYMMETRY Symmetry
INVARIANTS
  SelectionIsSettled
  SessionFromOneVendor
  PolicyFollowed
PROPERTIES
  AppliesChunksAtomically
CHECK_DEADLOCK FALSE
