SPECIFICATION FairSpec
CONSTANTS
  Topics = {"image", "disparity"}
  Pushers = {"image", "disparity"}
  Feeds <- MCFeeds
  QueueDepth <- MCQueueDepth
  Wanted <- MCWanted
  MessageBytes <- MCMessageBytes
  Memory = 2
  MaxPushes = 3
  Cameras <- MCCameras
  Staging = 2
  Tolerance = 1
  MaxErrors = 1
  FrameNames <- MCFrameNames
  SignBit = 5
  CutsPerRead = 9
INVARIANTS RecorderInv MessagesAccounted RawRecordingInv ReadersTrue
PROPERTY ClosesReturn
CHECK_DEADLOCK FALSE
