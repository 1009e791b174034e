SPECIFICATION FairSpec
CONSTANTS
  p1 = p1
  p2 = p2
  Replica = {p1, p2}
  MaxEvent = 3
  BatchMax = 2
  DayCap = 2
  MaxTimeout = 1
  MaxCrash = 1
INVARIANT OneDrainPerEvent
PROPERTY FollowsLedger EveryEventDecided
CHECK_DEADLOCK FALSE
