SPECIFICATION Spec
CONSTANTS
  Replica = {a, b}
  MaxCut = 1
  MaxOverlap = 1
  MaxToggle = 1
  MaxBroken = 1
  MaxFaults = 1
  FailLimit = 2
  FeedSize = 3
  SeenCap = 3
  MaxItem = 4
  Request = {q1}
  MaxJudged = 2
  MaxWindow = 2
  MaxChange = 1
  MaxProposal = 1
  Hour = {1, 2, 3}
  ClampH = 1
  MaxEvent = 3
  MaxWake = 1
  MaxPending = 1
  DayCap = 2
  KillSwitch = 3
  Trigger = {1, 2}
  Once = 2
  Every <- Intervals
  MaxMinute = 4
  QuarantineAfter = 2
  PerCheck = 2
  Base = 2
  Multiplier = 2
  Longest = 8
  Deadline = 16
SYMMETRY Symmetry
INVARIANT WakeupFiresOnce FailingRoutineStops FiresOncePerInterval  DerivedOnce UndoneIsUndone DriftBounded
CHECK_DEADLOCK FALSE
