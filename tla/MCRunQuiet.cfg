SPECIFICATION Spec
CONSTANTS
  NoRun = NoRun
  NoTask = NoTask
  NoReplica = NoReplica
  Replica = {p1}
  Run = {r1, r2}
  Task = {t1, t2, t3}
  MaxConcurrent = 1
  WallClockOn = FALSE
  AmbientOn = FALSE
  MaxSpare = 0
  MaxCrash = 1
  MaxDrain = 0
  MaxCancel = 0
  MaxPause = 2
  MaxEvents = 3
SYMMETRY Symmetry
PROPERTY FollowsRecord
CHECK_DEADLOCK FALSE
