SPECIFICATION Spec
CONSTANTS
  o1 = o1
  o2 = o2
  o3 = o3
  o4 = o4
  u1 = u1
  NoRef = NoRef
  Ids = {o1, o2, o3, o4}
  Refs = {o1, o2, o3, o4}
  Users = {u1}
  Prices = {1, 2}
  MaxQty = 2
  Funds <- SmallFunds
SYMMETRY IdSymmetry
CHECK_DEADLOCK FALSE
INVARIANTS
  TypeOK
  IInv
  BookConsistent
  Uncrossed
  FilledMatchesTrades
  TradesWithinLimits
  FundsCoverTrades
PROPERTIES
  PriceTimePriority
  RemainderMeansExhausted
