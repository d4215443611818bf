CONSTANTS
  NumKlines = 4
  NumTrades = 1
  Updates = 2
  Price <- MCPrice
  MAX_CANDLES = 2
  STATS_LOOKBACK_MINUTES = 2
  MIN_RECONNECT_DELAY = 2
  MAX_RECONNECT_DELAY = 3
  MaxSockets = 2
  MaxOutages = 1
  FeedBound = 2
SPECIFICATION Spec
INVARIANTS
  TypeOK
  ChartInOrder
  OneFeed
  NoKlineForgotten
  StatsAgree
PROPERTIES
  TradesOnce
  HeaderSettles
CHECK_DEADLOCK FALSE
