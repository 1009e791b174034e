SPECIFICATION FairSpec
CONSTANTS
  t1 = t1
  t2 = t2
  t3 = t3
  t4 = t4
  Task = {t1, t2, t3, t4}
  RunOf <- OwnRun
  Chat = {t1}
  NoSem = NoSem
  Limits = {1, 2}
  QueueMax = 1
  MaxChange = 1
INVARIANT SlotsConserved
PROPERTY EveryoneServed
CHECK_DEADLOCK FALSE
