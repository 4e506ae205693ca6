SPECIFICATION SourceFairSpec
CONSTANTS
  SlotCount = 2
  MaxOutstanding = 0
  MayThrow = TRUE
  CudaMayFail = TRUE
  MaxFrames = 2
  DrainMayTimeOut = TRUE
  ReconnectLimits = {0, 2}
  MaxFailures = 2
INVARIANT SourceInv
CHECK_DEADLOCK FALSE
PROPERTY HandlesReturned
