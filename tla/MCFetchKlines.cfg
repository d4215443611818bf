CONSTANTS
  Times <- MCTimes
  KlineTimes <- MCKlineTimes
  MAX_KLINES_PER_REQUEST = 2
  MAX_RETRIES = 2
SPECIFICATION Spec
INVARIANTS
  TypeOK
  NoKlineMissed
  NoKlineTwice
PROPERTIES
  Terminates
  AtomicRange
CHECK_DEADLOCK FALSE
