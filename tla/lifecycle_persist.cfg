SPECIFICATION RelaySpec
CONSTANTS
  KoreanExchange = "Upbit"
  ForeignExchange = "Bybit"
  Step = 1
  MinQty = 1
  OrderSize = 3
  PositionSize = 6
  ExitAll = 4
  MinOrderKrw = 15
  KoreanAsk = 10
  Slip = 1
  TolNum = 1
  TolDen = 3
  MaxRetry = 3
  MaxSplits = 3
  MaxStray = 3
  InitPositions <- MCUnwindStart
  Faults <- ToleranceFaults
INVARIANT BoundedDrift
INVARIANT SavedBook
INVARIANT NeverBeyondOriginal
