SPECIFICATION Spec
CONSTANTS
  Handlers = {h1, h2, h3}
  Emails = {a, b}
  Null = Null
  MaxUsers = 2
  MaxCalls = 9
  MaxFaults = 2
SYMMETRY Symmetry
CHECK_DEADLOCK FALSE
INVARIANTS
  TypeOK
  RegistrationIsAnnounced
  OrphansAreFaults
  LogoutHolds
