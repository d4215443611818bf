CONSTANTS
  d1 = d1
  d2 = d2
  Clients <- MCClients
  MaxEvents = 3
SPECIFICATION Spec
INVARIANTS
  TypeOK
  NothingBetween
PROPERTIES
  EventuallyDelivered
  GoneIsDropped
  FeedImplemented
CHECK_DEADLOCK FALSE
