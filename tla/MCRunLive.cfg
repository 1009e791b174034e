SPECIFICATION FairSpec
CONSTANTS
  NoRun = NoRun
  NoTask = NoTask
  NoReplica = NoReplica
  Replica = {p1, p2}
  Run = {r1}
  Task = {t1, t2}
  MaxConcurrent = 1
  WallClockOn = TRUE
  AmbientOn = TRUE
  MaxSpare = 0
  MaxCrash = 1
  MaxDrain = 0
  MaxCancel = 1
  MaxPause = 1
  MaxEvents = 2
PROPERTY RunningSettles
CHECK_DEADLOCK FALSE
