CONSTANTS
  NumKlines = 2
  NumTrades = 0
  Updates = 2
  Price <- MCPrice
  MAX_CANDLES = 2
  STATS_LOOKBACK_MINUTES = 2
  MIN_RECONNECT_DELAY = 2
  MAX_RECONNECT_DELAY = 3
  MaxSockets = 1
  MaxOutages = 0
  FeedBound = 2
SPECIFICATION Spec
PROPERTY LoadedThenLive
CHECK_DEADLOCK FALSE
