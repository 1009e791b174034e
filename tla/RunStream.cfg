CONSTANTS
  Replica = {a, b}
  NoReplica = NoReplica
  Creator = a
  QueueMax = 2
  ReopenLimit = 1
  MaxToken = 1
  MaxPause = 1
  MaxCrash = 1
  MaxDrop = 1
  MaxEvents = 2
SPECIFICATION FairSpec
INVARIANT EndIsRecorded NoGap
PROPERTY LearnsTheEnd
CHECK_DEADLOCK FALSE
