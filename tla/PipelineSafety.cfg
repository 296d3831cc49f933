SPECIFICATION Spec
CONSTANTS
  a = a
  b = b
  p1 = p1
  Orders = {a, b}
  Publishers = {p1}
  PubBatch = 2
  BatchSize = 2
  MaxOutbox = 3
  MaxFaults = 2
  Faults = {"api", "publish", "mark", "read", "apply", "commit", "ack", "crash"}
CHECK_DEADLOCK FALSE
INVARIANTS
  PipelineInv
  NoEntryIsLost
  EffectsOncePerEntry
  AppliedInStreamOrder
  StreamMatchesOutbox
  CancelFollowsNew
  NeverAppliesToDirtyBook
PROPERTIES
  EveryEventProcessed
