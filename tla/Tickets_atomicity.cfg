SPECIFICATION Spec
CONSTANTS
  Handlers = {h1}
  Statuses = {TODO, DONE}
  Texts = {a}
  Plans = {p}
  Todo = TODO
  MaxTickets = 1
  MaxComments = 0
  MaxCalls = 2
  MaxFaults = 1
  Null = Null
SYMMETRY Symmetry
CHECK_DEADLOCK FALSE
INVARIANTS
  EveryChangeIsRecorded
