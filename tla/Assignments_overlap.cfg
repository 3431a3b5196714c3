SPECIFICATION Spec
CONSTANTS
  Handlers = {h1, h2, h3}
  Pairs = {p, q}
  Null = Null
  MaxAssignments = 4
  MaxCalls = 6
  MaxFaults = 1
SYMMETRY Symmetry
CHECK_DEADLOCK FALSE
INVARIANTS
  TypeOK
  DuplicatesAreOverlaps
  AssignedIsAnnounced
