SPECIFICATION FairSpec
CONSTANTS
  Bad = Bad
  None = None
  Packet = 4
  Lead = 1
  PtpWait = 2
  MaxLost = 2
  Cases <- MCCases
INVARIANTS BringUpInv TriggersReach
PROPERTY BringUpEnds
CHECK_DEADLOCK FALSE
