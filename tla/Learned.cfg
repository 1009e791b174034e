SPECIFICATION Spec
CONSTANTS
  Replica = {p1, p2}
  MaxCut = 1
  MaxTime = 3
  MaxRun = 2
  MaxFirst = 1
  MaxRow = 3
  Job = {"decay", "reflect", "retention"}
  Retention = {"retention"}
  Gated = {"reflect"}
  Quiet = {"reflect"}
  Interval = 2
  Episode = {"e1", "e2"}
  Text = {"t"}
  Extractor = {"x"}
INVARIANT StampMeansRan ServedStays RememberedOnce AppendOnly
CHECK_DEADLOCK FALSE
