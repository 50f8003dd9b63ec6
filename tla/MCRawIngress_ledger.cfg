SPECIFICATION FairIngressSpec
CONSTANTS
  ibkr = ibkr  sip = sip  iex = iex
  x = x  y = y
  p1 = p1  p2 = p2
  IBKR = IBKR  ALPACA = ALPACA
  Vendors = {IBKR, ALPACA}
  VendorOf <- MCVendorOf
  KindOrder <- MCKindOrder
  SeriesOrder <- MCSeriesOrder
  Chunks <- MCChunks
  NoRow = NoRow  NoVal = NoVal  NoProc = NoProc
  Series = {ibkr, sip}
  NeverSelected = {}
  SessionBound = {sip}
  Slots = {1}
  HasGrid = TRUE
  Grid = {1}
  Vals = {x, y}
  NullVolume = {y}
  MaxTime = 2
  Legacy <- OneLegacyRow
  Rankings <- OneRanking
  MaxTx = 2
  MaxOffered = 2
  MaxSeries = 2
  Procs = {p1, p2}
INVARIANTS
  NothingServedIsLost
  PreviewIsExact
  NoWaitCycle
PROPERTIES
  ServeTimeNeverGoesBack
  TransactionsEnd
CHECK_DEADLOCK FALSE
