SPECIFICATION FairSpec
CONSTANTS
  Requests = {r1}
  Users = {u1, u2}
  Managers = {u1}
  Asked = {"register", "createTicket", "deleteTicket"}
  Sockets = {s1, s2}
  Subjects = {x}
  Null = Null
INVARIANTS
  TypeOK
  AnswerIsTheVerdict
  StrangersStayOutside
  RoomsHoldUsers
PROPERTIES
  EveryRequestIsAnswered
  UsersAreReached
