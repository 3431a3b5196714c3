------------------------------- MODULE Tokens --------------------------------
(* What the HTTP and the WebSocket side of the API gateway verify.         *)
CONSTANTS
  Users,  \* users with a valid access token
  Null    \* no valid token: missing, wrong or expired; nothing, nobody

ASSUME NullAssumption == Null \notin Users
=============================================================================
