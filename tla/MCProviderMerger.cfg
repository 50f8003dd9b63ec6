SPECIFICATION FairMergerSpec
CONSTANTS
  ibkr = ibkr
  alpaca = alpaca
  databento = databento
  Providers <- MCProviders
  Primary = ibkr
  None = None
  Threshold = 2
  MaxTime = 3
INVARIANTS
  OnlyInSilence
  TopicTellsRouting
PROPERTIES
  OutageEnds
