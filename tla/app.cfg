SPECIFICATION FairSpec
CONSTANTS
  Configs <- MCConfigs
  Depth = 2
  Slots = 1
  NoStream = NoStream
INVARIANTS AppInv TailRecorded
PROPERTIES LoopProgress ShutdownEnds
CHECK_DEADLOCK FALSE
