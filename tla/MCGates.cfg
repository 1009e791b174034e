SPECIFICATION Spec
CONSTANTS
  Entry = {"a"}
  Order <- ThePlan
  Depends <- Needs
  Direct = {}
  Nodes <- Flow
  MaxParallel = 1
INVARIANT OnePostOneGate
CHECK_DEADLOCK FALSE
