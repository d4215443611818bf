CONSTANTS
  NumSymbols = 1
  MaxMinute = 4
  BackfillWindow = 1
  STATS_LOOKBACK_MINUTES = 2
  MinBackoff = 1
  MaxBackoff = 2
  QueueBound = 1
  MaxFaults = 2
SPECIFICATION Spec
INVARIANTS
  OnlyLastOpen
CHECK_DEADLOCK FALSE
