SPECIFICATION FairSpec
CONSTANTS
  SlotCount = 3
  Consumers = {c1, c2}
  MaxHeld = 2
  Oversize = TRUE
  MaxFrames = 5
INVARIANTS IInv HeldStable
PROPERTIES KeepsPromise StopReleases
CHECK_DEADLOCK FALSE
