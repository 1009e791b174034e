SPECIFICATION Spec
CONSTANTS
  MaxRow = 2
  Replica = {a, b}
  NoReplica = NoReplica
  k = k
  NoKey = NoKey
  Kind <- Kinds
  Routed = {"notify"}
  Budget = 1
  EscalationBudget = 1
  MaxAttempts = 2
  MaxCut = 1
  MaxLost = 1
  MaxMove = 1
  MaxEvents = 1
  MaxOverlap = 1
SYMMETRY Symmetry
INVARIANT RepeatsArePaid ReplacedByLater SentIsSent
CHECK_DEADLOCK FALSE
