---------------------------- MODULE Notifications ----------------------------
(***************************************************************************)
(* The WebSocket side of the API gateway: NotificationsGateway, the        *)
(* sockets that connect to it, its map from sockets to users, and the      *)
(* rooms that notifications are addressed to.                              *)
(*                                                                         *)
(* handleConnection awaits nothing, and Nest binds the message handlers of *)
(* a socket after it has run: no message of a socket is handled before.    *)
(* Messages may come in any order after it, from sockets of one user too.  *)
(***************************************************************************)
EXTENDS Tokens

CONSTANTS
  Sockets,   \* connections that are open at the same time
  Subjects   \* the tickets and projects that clients subscribe to

VARIABLES
  socket,            \* each connection: closed, or the token it came with
  connectedClients,  \* the gateway's map, Null where it has no entry
  rooms,             \* the rooms each socket has joined
  emitted            \* the last emission: the room, and the sockets it reached

socketVars == <<socket, connectedClients, rooms, emitted>>

Closed == [at |-> "closed"]

\* The rooms user:<id>, ticket:<id>, project:<id>: prefixes keep them apart.
UserRoom(u) == <<"user", u>>
SubjectRoom(x) == <<"subject", x>>
Rooms == {UserRoom(u) : u \in Users} \cup {SubjectRoom(x) : x \in Subjects}

ASSUME NoRoomAssumption == Null \notin Rooms

-----------------------------------------------------------------------------
\* socket.io accepts a connection and calls handleConnection.
Open(s, token) ==
  /\ socket[s] = Closed
  /\ socket' = [socket EXCEPT ![s] = [at |-> "opening", token |-> token]]
  /\ UNCHANGED <<connectedClients, rooms, emitted>>

\* handleConnection with a token that verifies.
HandleConnection(s) ==
  /\ socket[s].at = "opening" /\ socket[s].token # Null
  /\ socket' = [socket EXCEPT ![s].at = "open"]
  /\ connectedClients' = [connectedClients EXCEPT ![s] = socket[s].token]
  /\ rooms' = [rooms EXCEPT ![s] = @ \cup {UserRoom(socket[s].token)}]
  /\ UNCHANGED emitted

\* Mutant of RefuseConnection: the error is logged, the socket stays.
RefuseSilently(s) ==
  /\ socket[s].at = "opening" /\ socket[s].token = Null
  /\ socket' = [socket EXCEPT ![s].at = "open"]
  /\ UNCHANGED <<connectedClients, rooms, emitted>>

\* handleConnection without a token, or with one that does not verify.
RefuseConnection(s) ==
  /\ socket[s].at = "opening" /\ socket[s].token = Null
  /\ socket' = [socket EXCEPT ![s] = Closed]
  /\ UNCHANGED <<connectedClients, rooms, emitted>>

\* The connection ends: socket.io leaves the rooms, handleDisconnect runs.
HandleDisconnect(s) ==
  /\ socket[s].at = "open"
  /\ socket' = [socket EXCEPT ![s] = Closed]
  /\ rooms' = [rooms EXCEPT ![s] = {}]
  /\ connectedClients' = [connectedClients EXCEPT ![s] = Null]
  /\ UNCHANGED emitted

\* Mutant of Subscribe: a socket is in one room at a time.
SubscribeOnly(s, x) ==
  /\ socket[s].at = "open"
  /\ rooms' = [rooms EXCEPT ![s] = {SubjectRoom(x)}]
  /\ UNCHANGED <<socket, connectedClients, emitted>>

\* handleSubscribeToTicket, handleSubscribeToProject.
Subscribe(s, x) ==
  /\ socket[s].at = "open"
  /\ rooms' = [rooms EXCEPT ![s] = @ \cup {SubjectRoom(x)}]
  /\ UNCHANGED <<socket, connectedClients, emitted>>

\* handleUnsubscribeFromTicket, handleUnsubscribeFromProject.
Unsubscribe(s, x) ==
  /\ socket[s].at = "open"
  /\ rooms' = [rooms EXCEPT ![s] = @ \ {SubjectRoom(x)}]
  /\ UNCHANGED <<socket, connectedClients, emitted>>

Emit(room, reached) ==
  /\ emitted' = [to |-> room, reached |-> reached]
  /\ UNCHANGED <<socket, connectedClients, rooms>>

\* server.to(room).emit: the sockets that are in the room now.
Members(room) == {s \in Sockets : room \in rooms[s]}

(* The methods for the other parts of the gateway (none calls them yet).   *)

NotifyUser(u) == Emit(UserRoom(u), Members(UserRoom(u)))

\* notifyTicket, notifyProject.
NotifySubject(x) == Emit(SubjectRoom(x), Members(SubjectRoom(x)))

Broadcast == Emit(Null, {s \in Sockets : socket[s].at = "open"})

\* The gateway's process ends, and its connections with it.
CutSockets ==
  /\ socket' = [s \in Sockets |-> Closed]
  /\ connectedClients' = [s \in Sockets |-> Null]
  /\ rooms' = [s \in Sockets |-> {}]
  /\ UNCHANGED emitted

-----------------------------------------------------------------------------
SocketsInit ==
  /\ socket = [s \in Sockets |-> Closed]
  /\ connectedClients = [s \in Sockets |-> Null]
  /\ rooms = [s \in Sockets |-> {}]
  /\ emitted = Null

SocketsNext ==
  \/ \E s \in Sockets :
       \/ \E token \in Users \cup {Null} : Open(s, token)
       \/ HandleConnection(s) \/ RefuseConnection(s) \/ HandleDisconnect(s)
       \/ \E x \in Subjects : Subscribe(s, x) \/ Unsubscribe(s, x)
  \/ \E u \in Users : NotifyUser(u)
  \/ \E x \in Subjects : NotifySubject(x)
  \/ Broadcast

-----------------------------------------------------------------------------
(* Properties.                                                             *)

SocketsTypeOK ==
  /\ socket \in [Sockets -> {Closed} \cup [at: {"opening", "open"},
                                           token: Users \cup {Null}]]
  /\ connectedClients \in [Sockets -> Users \cup {Null}]
  /\ rooms \in [Sockets -> SUBSET Rooms]
  /\ emitted \in {Null} \cup [to: Rooms \cup {Null}, reached: SUBSET Sockets]

\* The map holds the open sockets with the user whose token each came with,
\* and nobody else is in a room, or in another user's room: whatever order
\* connections, refusals, messages and disconnects of a user's sockets take.
RoomsHoldUsers ==
  \A s \in Sockets :
    /\ IF socket[s].at = "open"
       THEN connectedClients[s] # Null /\ connectedClients[s] = socket[s].token
       ELSE connectedClients[s] = Null /\ rooms[s] = {}
    /\ \A u \in Users : UserRoom(u) \in rooms[s] => connectedClients[s] = u

\* A notification for a user reaches every socket the user has open, however
\* many there are and whatever they subscribe to, and no other.
UsersAreReached ==
  [][\A u \in Users :
       (emitted' # emitted /\ emitted'.to = UserRoom(u)) =>
         emitted'.reached =
           {s \in Sockets : socket[s].at = "open" /\ socket[s].token = u}]_socketVars
=============================================================================
