SPECIFICATION Spec
CONSTANTS
  o1 = o1
  o2 = o2
  o3 = o3
  u1 = u1
  NoRef = NoRef
  Ids = {o1, o2, o3}
  Refs = {o1, o2, o3}
  Users = {u1}
  Prices = {1, 2}
  MaxQty = 2
  Funds <- SmallFunds
CHECK_DEADLOCK FALSE
PROPERTIES
  MatchTerminates
