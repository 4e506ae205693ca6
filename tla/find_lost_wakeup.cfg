SPECIFICATION StreamsFairSpec
CONSTANTS
  c1 = c1
  c2 = c2
  SlotCount = 2
  Consumers = {c1}
  Policies = {"ScanForFree"}
  Modes = {"blocking"}
  MayAbandon = FALSE
  CudaMayFail = FALSE
  Requests = {}
  MaxAttempts = 1
  MaxAcquires = 4
  ReuseWait = "DeviceWait"
  StreamDepth = 1
PROPERTY AnyReleaseWakes
CHECK_DEADLOCK FALSE
