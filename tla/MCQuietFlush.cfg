CONSTANTS
  btc = btc
  eth = eth
  Symbols <- MCOneSymbol
  BatchSize = 3
  FlushInterval = 2
  MaxTrades = 4
  MaxClock = 4
  QueueBound = 2
  MaxFaults = 0
SPECIFICATION Spec
PROPERTY QuietFlush
CHECK_DEADLOCK FALSE
