--------------------------- MODULE MCFetchKlines ----------------------------
(* Klines two ticks apart with one outage (no kline at 8), pages of two.    *)
EXTENDS FetchKlines

MCTimes == {0, 1, 2, 4, 8, 11, 12, 14}
MCKlineTimes == {0, 2, 4, 6, 10, 12, 14}
=============================================================================
