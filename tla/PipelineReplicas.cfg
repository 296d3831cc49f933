SPECIFICATION Spec
CONSTANTS
  a = a
  b = b
  p1 = p1
  p2 = p2
  Orders = {a, b}
  Publishers = {p1, p2}
  PubBatch = 2
  BatchSize = 2
  MaxOutbox = 3
  MaxFaults = 2
  Faults = {"publish", "apply", "commit", "ack", "retry", "crash"}
CHECK_DEADLOCK FALSE
SYMMETRY ReplicaSymmetry
INVARIANTS
  PipelineInv
  NoEntryIsLost
  EffectsOncePerEntry
  StreamMatchesOutbox
  PublishedOnce
