SPECIFICATION ResultsFairSpec
CONSTANTS
  SlotCount = 2
  SinkCount = 1
  Frames = {1, 2}
  NoFrame = 0
  CudaMayFail = TRUE
  MaxStarts = 2
  MaxFrames = 3
  TimingSlots = 2
  MaxCycles = 3
  MaxFaults = 1
  Staging = 2
  OutSlots = {2, 3}
  MaxUploads = 4
  MaxMishaps = 1
INVARIANTS PullInv FramesIntact EventsSuffice DeviceTrue
PROPERTY AcceptedArePublished
CHECK_DEADLOCK FALSE
