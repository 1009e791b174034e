SPECIFICATION Spec
CONSTANTS
  Agent = {"x", "y"}
  MaxCall = 3
  MaxTurn = 2
INVARIANT OwnResult
CHECK_DEADLOCK FALSE
