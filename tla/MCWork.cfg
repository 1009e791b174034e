SPECIFICATION Spec
CONSTANTS
  Replica = {a, b}
  Request = {o1, o2}
  Loop = {k1}
  Tool = {t, u}
  MaxWrite = 1
  MaxBreak = 1
  MaxConn = 3
  MaxAttempts = 2
  MaxFault = 1
  MaxAsk = 2
  MaxSend = 2
  MaxParallel = 2
  MaxCall = 3
  MaxTurn = 2
  MaxPause = 1
  MaxEdit = 2
  MaxDispatch = 2
  MaxCut = 1
  Registry = {"skills"}
  Written = {"tools"}
  Entry = {"a", "b", "c", "d"}
  Direct = {"d"}
  Order <- Plan
  Depends <- Needs
  Nodes <- Flow
  Agent = {"x"}
  Node = {"a", "b", "c", "d"}
  Gate = {"b"}
  Edge <- Arrows
  Case = {"c1", "c2"}
INVARIANT ProcessedWritesShow NotAbandoned OutUntilAllowed SentOnce NotForgotten RanOnce OnePostOneGate RoutedOnce JoinsWait StrictLoopsFail RunsItsPin BatchAddsUp
SYMMETRY Symmetry
CHECK_DEADLOCK FALSE
