SPECIFICATION MarketSpec
CONSTANTS
  Batches = {b1, b2}
  Prices <- MCPrices
  Opening <- MCOpening
  ORDERBOOK_SNAPSHOT_DEPTH = 2
  ORDERBOOK_BBO_DEPTH = 1
  MaxMoves = 2
  MaxTicks = 1
  MaxFaults = 1
INVARIANT BithumbExact
INVARIANT UpbitZeroed
INVARIANT ForeignSubscribed
PROPERTY TickerConverges
CHECK_DEADLOCK FALSE
