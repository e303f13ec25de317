----------------------------- MODULE MCTradeWS -----------------------------
(* The instances of TradeWS for TLC.                                        *)
EXTENDS TradeWS, TLC

Symmetric == Permutations(Senders)
=============================================================================
