---------------------------- MODULE MCMarketData ----------------------------
EXTENDS MarketData

MCPrices == 1..3
MCOpening == [bid |-> {1, 2}, ask |-> {3}]
=============================================================================
