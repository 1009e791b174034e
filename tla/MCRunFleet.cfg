SPECIFICATION Spec
CONSTANTS
  NoRun = NoRun
  NoTask = NoTask
  NoReplica = NoReplica
  Replica = {p1, p2}
  Run = {r1}
  Task = {t1, t2, t3}
  MaxConcurrent = 1
  WallClockOn = TRUE
  AmbientOn = TRUE
  MaxSpare = 1
  MaxCrash = 1
  MaxDrain = 1
  MaxCancel = 2
  MaxPause = 1
  MaxEvents = 3
SYMMETRY TaskSymmetry
INVARIANT RegistryAlive OneExecutor LiveRowHasTask
PROPERTY CompletedNotRevived
CHECK_DEADLOCK FALSE
