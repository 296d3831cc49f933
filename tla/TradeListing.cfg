SPECIFICATION Spec
CONSTANTS
  k1 = k1
  TradeIds = {1, 2, 3, 4}
  Times = {1, 2}
  Keys = {k1}
  RawLimits <- SomeLimits
  MaxLimit = 3
  DefaultLimit = 2
CHECK_DEADLOCK FALSE
INVARIANTS
  PagesDescend
  ListingComplete
PROPERTIES
  ListingEnds
