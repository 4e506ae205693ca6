SPECIFICATION Spec
CONSTANTS
  c1 = c1
  c2 = c2
  SlotCount = 2
  Consumers = {c1, c2}
  Policies = {"RoundRobin", "ScanForFree"}
  Modes = {"blocking"}
  MayAbandon = TRUE
  CudaMayFail = TRUE
  Requests <- MCRequests
  MaxAttempts = 2
  MaxAcquires = 3
SYMMETRY Symmetry
INVARIANTS IInv LeaseExclusion RequestHonoured HoldsCounted
CHECK_DEADLOCK FALSE
