CONSTANTS
  NumSymbols = 2
  MaxMinute = 3
  BackfillWindow = 1
  STATS_LOOKBACK_MINUTES = 2
  MinBackoff = 2
  MaxBackoff = 3
  QueueBound = 1
  MaxFaults = 2
SPECIFICATION Spec
INVARIANTS
  TypeOK
  ClosedIsFinal
  CoverageHonest
  CaughtUp
  StatsSpanDay
  StatusHonest
  ReconnectsExplained
PROPERTIES
  NoNewHole
  LiveNeverGoesBack
  Converges
CHECK_DEADLOCK FALSE
