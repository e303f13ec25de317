SPECIFICATION VenuesFairSpec
CONSTANTS
  KoreanExchange = "Upbit"
  ForeignExchange = "Bybit"
  Step = 2
  MinQty = 2
  OrderSize = 6
  PositionSize = 9
  ExitAll = 7
  MinOrderKrw = 30
  KoreanAsk = 10
  Slip = 1
  TolNum = 0
  TolDen = 1
  MaxRetry = 2
  MaxSplits = 2
  MaxStray = 6
  InitPositions <- MCStart
  Faults <- MCFaults
INVARIANT BookIsReal
INVARIANT StopSnapshotIsReal
INVARIANT NakedAtMostOneSplit
INVARIANT Accounting
PROPERTY ShutdownReturns
PROPERTY NakedLegResolved
