SPECIFICATION MCSpec
CONSTANTS
  Peer = {"p1", "p2"}
  Master = "p1"
  Top = 3
  Fast = TRUE
  Pivot = 1
  EmptyBody = {2}
  EmptyReceipts = {}
  CacheLimit = 2
  ForceVerify = 1
  MaxQueued = 2
  Capacity = {2}
  Stalling = 1
  MaxWire = 1
  MaxChurn = 1
  Late <- LateRequests
INVARIANTS SkeletonSound QueueHolds
CHECK_DEADLOCK FALSE
