-------------------------- MODULE MCTradeIngestion --------------------------
(* Two symbols, so that flushes of one happen while the other one waits.    *)
EXTENDS TradeIngestion

CONSTANTS btc, eth

MCSymbols == {btc, eth}
MCOneSymbol == {btc}
=============================================================================
