------------------------------- MODULE Gateway -------------------------------
(***************************************************************************)
(* The API gateway as one process: it proxies the requests of module       *)
(* Requests and holds the sockets of module Notifications.  Both take part *)
(* in its end and its restart.                                             *)
(***************************************************************************)
EXTENDS Requests, Notifications

vars == <<requestVars, socketVars>>

Init == RequestsInit /\ SocketsInit

\* The process ends and is started again; it keeps nothing.
Restart == CutRequests /\ CutSockets

Next ==
  \/ RequestsNext /\ UNCHANGED socketVars
  \/ SocketsNext /\ UNCHANGED requestVars
  \/ Restart

Spec == Init /\ [][Next]_vars

\* The gateway goes on with the requests it has: its event loop runs, and so
\* does axios' timer.  Nothing is assumed of clients and services.
Serving ==
  \A r \in Requests : WF_vars(GatewayStep(r) /\ UNCHANGED socketVars)

FairSpec == Spec /\ Serving

TypeOK == RequestsTypeOK /\ SocketsTypeOK
=============================================================================
