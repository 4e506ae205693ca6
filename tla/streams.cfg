SPECIFICATION StreamsFairSpec
CONSTANTS
  c1 = c1
  c2 = c2
  SlotCount = 2
  Consumers = {c1}
  Policies = {"ScanForFree"}
  Modes = {"blocking", "try"}
  MayAbandon = TRUE
  CudaMayFail = TRUE
  Requests <- MCRequests
  MaxAttempts = 1
  MaxAcquires = 4
  ReuseWait = "HostSync"
  StreamDepth = 2
INVARIANTS ReadsIntact NeverStale StreamsInv NewestSpared
PROPERTY StreamsAcquireReturns
CHECK_DEADLOCK FALSE
