CONSTANTS
  STALE_THRESHOLD_SECONDS = 1
  MaxClock = 3
  MaxVersion = 3
  MaxOutages = 1
  MaxRequests = 2
SPECIFICATION Spec
INVARIANT TypeOK
PROPERTIES
  PanelSettles
  NeverOlder
CHECK_DEADLOCK FALSE
