SPECIFICATION ApartSpec
CONSTANTS
  Handlers = {h1, h2}
  Statuses = {TODO, DONE}
  Texts = {a}
  Plans = {p}
  Todo = TODO
  MaxTickets = 2
  MaxComments = 1
  MaxCalls = 4
  MaxFaults = 1
  Null = Null
SYMMETRY Symmetry
CHECK_DEADLOCK FALSE
INVARIANTS
  TypeOK
  ReplicaMatches
  StatusHistoryIsAChain
  NothingAfterDeleted
PROPERTY ImplementsAtomicTickets
