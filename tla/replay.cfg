SPECIFICATION ReplayFairSpec
CONSTANTS
  SlotCount = 2
  MaxOutstanding = 1
  MayThrow = TRUE
  CudaMayFail = TRUE
  MaxFrames = 4
  Kinds = {"staged", "mcap", "raw"}
  Recordings <- MCRecordings
  Configs <- MCConfigs
  MaxClock = 3
  MaxReads = 4
INVARIANTS UploadIntact ReplayInv
PROPERTIES StampsKept AllReleased
CHECK_DEADLOCK FALSE
