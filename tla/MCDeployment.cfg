CONSTANTS
  BTC = BTC
  ETH = ETH
  Coins <- MCCoins
  Fallback <- MCFallback
  Values <- MCValues
SPECIFICATION Spec
INVARIANTS
  TypeOK
  SchemaWhole
  NothingRaised
  OneSpelling
PROPERTIES
  PageFed
