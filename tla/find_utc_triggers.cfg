SPECIFICATION Spec
CONSTANTS
  Shots <- MCShots
  Buffers = 2
  Failing = {2}
  Tolerance = 1
  QueueFrames = 1
  Modes = {}
  KeyStates = {"absent", "write-only", "match", "differ"}
  MaxPairs = 2
  Period = 4
  Lead = 2
  Second = 4
  TaiOffset = 5
  SendTakes = {1, 6}
  CheckFrames = 2
  StartTolerance = 1
  StartOffset = 1
  MaxCommands = 2
  StartClocks = {0, 2}
  Tests = {"burst"}
  BurstSizes <- MCBurstSizes
  BurstTakes = {1}
  Offsets = {0, 3}
  Ticks = 0
  Depth = 3
  RetryAttempts = 1
  MaxFaults = 1
INVARIANT BurstScheduledAhead
CHECK_DEADLOCK FALSE
