SPECIFICATION FairSpec
CONSTANTS
  Shots <- MCShots
  Buffers = 2
  Failing = {2}
  Tolerance = 1
  QueueFrames = 1
  Modes = {"free", "start", "frame"}
  KeyStates = {"absent", "write-only", "match", "differ"}
  MaxPairs = 2
  Period = 4
  Lead = 2
  Second = 4
  TaiOffset = 5
  SendTakes = {1, 6}
  CheckFrames = 2
  StartTolerance = 1
  StartOffset = 1
  MaxCommands = 2
  StartClocks = {0, 2}
  Tests = {"burst", "sweep"}
  BurstSizes <- MCBurstSizes
  BurstTakes = {1}
  Offsets = {0, 3}
  Ticks = 7
  Depth = 3
  RetryAttempts = 1
  MaxFaults = 1
INVARIANTS ToolsInv PairingTrue ScheduledAhead
PROPERTY ToolsProgress
CHECK_DEADLOCK FALSE
