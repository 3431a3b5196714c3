SPECIFICATION Spec
CONSTANTS
  Handlers = {h1}
  Pairs = {p}
  Null = Null
  MaxAssignments = 1
  MaxCalls = 2
  MaxFaults = 0
CHECK_DEADLOCK FALSE
INVARIANTS
  GoneIsRevoked
