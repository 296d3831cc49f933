SPECIFICATION Spec
CONSTANTS
  o1 = o1
  o2 = o2
  u1 = u1
  u2 = u2
  NoRef = NoRef
  Ids = {o1, o2}
  Refs <- EventAndRow
  Users = {u1, u2}
  Prices = {1, 2}
  MaxQty = 2
  Deposit <- SmallDeposit
  BatchSize = 2
  MaxEvents = 2
  MaxFaults = 1
  Faults = {"apply"}
SYMMETRY UserSymmetry
CHECK_DEADLOCK FALSE
INVARIANTS
  NeverRestsTwice
