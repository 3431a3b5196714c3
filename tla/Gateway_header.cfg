SPECIFICATION Spec
CONSTANTS
  Requests = {r1}
  Users = {u1}
  Managers = {u1}
  Asked = {"deleteComment"}
  Sockets = {s1}
  Subjects = {x}
  Null = Null
INVARIANT
  UsersAreKnown
