CONSTANTS
  btc = btc
  eth = eth
  Symbols <- MCSymbols
  BatchSize = 3
  FlushInterval = 2
  MaxTrades = 4
  MaxClock = 3
  QueueBound = 2
  MaxFaults = 1
SPECIFICATION Spec
INVARIANTS
  TypeOK
  LossBounded
  FlushedByLater
  LastTradeAtCovers
PROPERTY WriteBehind
CHECK_DEADLOCK FALSE
