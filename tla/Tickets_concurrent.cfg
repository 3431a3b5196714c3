SPECIFICATION Spec
CONSTANTS
  Handlers = {h1, h2, h3}
  Statuses = {TODO, DOING, DONE}
  Texts = {a}
  Plans = {}
  Todo = TODO
  MaxTickets = 1
  MaxComments = 1
  MaxCalls = 4
  MaxFaults = 1
  Null = Null
SYMMETRY Symmetry
CHECK_DEADLOCK FALSE
INVARIANTS
  GoneIsAnnounced
  StatusWasAnnounced
PROPERTY GoneForGood
