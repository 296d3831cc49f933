SPECIFICATION Spec
CONSTANTS
  a = a
  b = b
  p1 = p1
  p2 = p2
  Orders = {a, b}
  Publishers = {p1}
  PubBatch = 2
  BatchSize = 2
  MaxOutbox = 2
  MaxFaults = 1
  Faults = {"mark"}
CHECK_DEADLOCK FALSE
INVARIANTS
  PublishedOnce
