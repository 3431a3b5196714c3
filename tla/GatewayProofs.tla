----------------------------- MODULE GatewayProofs -----------------------------
(***************************************************************************)
(* Theorems about the API gateway, for any requests, users, sockets and    *)
(* subjects.                                                               *)
(***************************************************************************)
EXTENDS Gateway, TLAPS

USE NullAssumption

-----------------------------------------------------------------------------
(* Type correctness.                                                       *)

\* What the state of a request tells of its fields.
LEMMA RequestFields ==
  ASSUME NEW q \in RequestStates, q.at # "idle"
  PROVE  /\ q \in [at: {"arrived", "waiting", "answered"}, op: Operations,
                   user: Users \cup {Null}, filled: BOOLEAN,
                   status: Statuses \cup {NoAnswer, Null}]
         /\ q.at \in {"arrived", "waiting"} => q.status = Null
         /\ q.at = "answered" => q.status \in Statuses \cup {NoAnswer}
BY DEF RequestStates, Idle

\* What the state of a call tells of its fields.
LEMMA CallFields ==
  ASSUME NEW c \in Calls
  PROVE  /\ c \in [at: {"sent", "handling", "lost", "replied"}, op: Operations,
                   user: Users \cup {Null}, filled: BOOLEAN, handled: BOOLEAN,
                   status: Statuses \cup {Null}]
         /\ c.at # "replied" => c.status = Null
         /\ c.at = "replied" => c.status \in Statuses
BY DEF Calls

\* Every status a handler comes to is one of Statuses.
LEMMA OutcomesType == \A op : Outcomes(op) \subseteq Statuses
BY DEF Outcomes, HttpExceptionFilter, Thrown, Statuses, Refusals, OK

\* An answer is a state of a request.
LEMMA AnswerType ==
  ASSUME request \in [Requests -> RequestStates], NEW r \in Requests,
         request[r].at \in {"arrived", "waiting"},
         NEW status \in Statuses \cup {NoAnswer}, Answer(r, status)
  PROVE  request' \in [Requests -> RequestStates]
<1>1. [request[r] EXCEPT !.at = "answered", !.status = status] \in RequestStates
  BY RequestFields DEF RequestStates
<1> QED  BY <1>1 DEF Answer

\* A reply is a state of a call.
LEMMA ReplyType ==
  ASSUME call \in [Requests -> Calls \cup {Null}], NEW r \in Requests,
         call[r] # Null, NEW status \in Statuses, NEW handled \in BOOLEAN,
         Reply(r, status, handled)
  PROVE  call' \in [Requests -> Calls \cup {Null}] /\ call'[r] \in Calls
<1>1. [call[r] EXCEPT !.at = "replied", !.status = status, !.handled = handled]
        \in Calls
  BY CallFields DEF Calls
<1> QED  BY <1>1 DEF Reply

LEMMA RefusalTypes ==
  /\ \A q : GatewayRefusal(q) # Null => GatewayRefusal(q) \in {400, 401}
  /\ \A c : ServiceRefusal(c) # Null => ServiceRefusal(c) \in Refusals
BY DEF GatewayRefusal, ServiceRefusal, Refusals

\* A call is there from the time the proxy waits for it.
CallsAreAwaited ==
  \A r \in Requests :
    /\ request[r].at \in {"idle", "arrived"} => call[r] = Null
    /\ request[r].at = "waiting" => call[r] # Null

LEMMA RequestsTypeStep ==
  ASSUME RequestsTypeOK, CallsAreAwaited, RequestsNext
  PROVE  RequestsTypeOK'
<1> USE DEF RequestsTypeOK
<1>1. ASSUME NEW r \in Requests, NEW op \in Asked, NEW user \in Users \cup {Null},
             NEW filled \in BOOLEAN, Ask(r, op, user, filled)
      PROVE  RequestsTypeOK'
  <2>1. [at |-> "arrived", op |-> op, user |-> user, filled |-> filled,
         status |-> Null] \in RequestStates
    BY AskedAssumption DEF RequestStates
  <2> QED  BY <1>1, <2>1 DEF Ask
<1>2. ASSUME NEW r \in Requests, Refuse(r)
      PROVE  RequestsTypeOK'
  BY <1>2, AnswerType, RefusalTypes DEF Refuse, Statuses, Refusals
<1>3. ASSUME NEW r \in Requests, Forward(r)
      PROVE  RequestsTypeOK'
  <2>1. request[r] \in RequestStates /\ request[r].at = "arrived"
    BY <1>3 DEF Forward
  <2>2. [request[r] EXCEPT !.at = "waiting"] \in RequestStates
    BY <2>1, RequestFields DEF RequestStates
  <2>3. request' \in [Requests -> RequestStates]
    BY <1>3, <2>2 DEF Forward
  <2>4. \A at \in {"sent", "lost"} :
          [at |-> at, op |-> request[r].op, user |-> request[r].user,
           filled |-> request[r].filled, handled |-> FALSE, status |-> Null]
            \in Calls
    BY <2>1, RequestFields DEF Calls
  <2>5. call' \in [Requests -> Calls \cup {Null}]
    BY <1>3, <2>4 DEF Forward
  <2> QED  BY <1>3, <2>3, <2>5 DEF Forward
<1>4. ASSUME NEW r \in Requests, Receive(r) \/ GiveUp(r)
      PROVE  RequestsTypeOK'
  <2>1. CASE Receive(r)
    <3>1. call[r].status \in Statuses
      BY <2>1, CallFields DEF Receive, CallsAreAwaited
    <3>2. HandleAxiosError(call[r].status) \in Statuses
      BY <3>1 DEF HandleAxiosError, Statuses
    <3> QED  BY <2>1, <3>1, <3>2, AnswerType DEF Receive
  <2>2. CASE GiveUp(r)
    BY <2>2, AnswerType DEF GiveUp, HandleAxiosError, Statuses
  <2> QED  BY <1>4, <2>1, <2>2
<1>5. ASSUME NEW r \in Requests, RefuseCall(r)
      PROVE  RequestsTypeOK'
  <2>1. ServiceRefusal(call[r]) \in Statuses
    BY <1>5, RefusalTypes DEF RefuseCall, Statuses
  <2> QED  BY <1>5, <2>1, ReplyType DEF RefuseCall
<1>6. ASSUME NEW r \in Requests, Handle(r)
      PROVE  RequestsTypeOK'
  <2>1. [call[r] EXCEPT !.at = "handling", !.handled = TRUE] \in Calls
    BY <1>6, CallFields DEF Calls, Handle
  <2> QED  BY <1>6, <2>1 DEF Handle
<1>7. ASSUME NEW r \in Requests, Finish(r)
      PROVE  RequestsTypeOK'
  BY <1>7, ReplyType, OutcomesType DEF Finish
<1>8. ASSUME NEW s \in Services, Stop(s)
      PROVE  RequestsTypeOK'
  <2>1. \A c \in Calls : c.at \in {"sent", "handling"} =>
                           [c EXCEPT !.at = "lost"] \in Calls
    BY CallFields DEF Calls
  <2> QED  BY <1>8, <2>1 DEF Stop
<1>9. ASSUME NEW s \in Services, Start(s)
      PROVE  RequestsTypeOK'
  BY <1>9 DEF Start
<1> QED
  BY <1>1, <1>2, <1>3, <1>4, <1>5, <1>6, <1>7, <1>8, <1>9
     DEF RequestsNext, GatewayStep, ServiceStep

-----------------------------------------------------------------------------
(* What answers and calls tell of each other.                              *)

\* The routes marked @Public, in the gateway and in the services, and that
\* each of them takes a DTO.
LEMMA PublicRoutes ==
  /\ Public(GatewayControllers) = Public(ServiceControllers)
  /\ Public(ServiceControllers) \subseteq Dto(ServiceControllers)
<1>1. Public(GatewayControllers) = {"register", "login", "refresh"}
  BY DEF Public, GatewayControllers, GatewayAuth, GatewayTickets,
         GatewayComments, GatewayAssignments
<1>2. Public(ServiceControllers) = {"register", "login", "refresh"}
  BY DEF Public, ServiceControllers, ServiceAuth, ServiceTickets,
         ServiceComments, ServiceAssignments
<1>3. {"register", "login", "refresh"} \subseteq Dto(ServiceControllers)
  BY DEF Dto, ServiceControllers, ServiceAuth
<1> QED  BY <1>1, <1>2, <1>3

\* A request the gateway lets through has a token or asks for a public route.
LEMMA LetThrough ==
  ASSUME NEW q, GatewayRefusal(q) = Null
  PROVE  q.user # Null \/ q.op \in Public(GatewayControllers)
BY NoStatusAssumption DEF GatewayRefusal, GatewayGuard

\* A service lets only empty requests for public routes through.
LEMMA LetIn ==
  ASSUME NEW c \in Calls, ServiceRefusal(c) = Null
  PROVE  c.op \in Public(ServiceControllers) /\ ~ c.filled
<1>1. JwtAuthGuard(c) /\ ValidationPipe(c, ServiceControllers)
  BY NoStatusAssumption DEF ServiceRefusal
<1> QED  BY <1>1, PublicRoutes DEF JwtAuthGuard, RequestUser, ValidationPipe

\* The inductive invariant, for one request: beside the properties, a call is
\* there while it is awaited, and a running handler was let in.
Exchange(r) ==
  /\ request[r].at \in {"idle", "arrived"} => call[r] = Null
  /\ request[r].at = "waiting" => call[r] # Null
  /\ call[r] # Null =>
       /\ call[r].user = Null => call[r].op \in Public(GatewayControllers)
       /\ call[r].handled =>
            call[r].op \in Public(ServiceControllers) /\ ~ call[r].filled
       /\ call[r].at = "handling" => call[r].handled
  /\ (request[r].at = "answered" /\ request[r].status \notin {NoAnswer, 500}) =>
       IF call[r] = Null THEN request[r].status \in {400, 401}
       ELSE call[r].at = "replied" /\ call[r].status = request[r].status

ExchangeInv == RequestsTypeOK /\ \A r \in Requests : Exchange(r)

LEMMA ExchangeStep ==
  ASSUME ExchangeInv, RequestsNext
  PROVE  ExchangeInv'
<1> USE DEF ExchangeInv, RequestsTypeOK
<1>1. RequestsTypeOK'
  BY RequestsTypeStep DEF CallsAreAwaited, Exchange
<1>2. ASSUME NEW q \in Requests, request'[q] = request[q], call'[q] = call[q]
      PROVE  Exchange(q)'
  BY <1>2 DEF Exchange
<1>3. ASSUME NEW r \in Requests, NEW op \in Asked, NEW user \in Users \cup {Null},
             NEW filled \in BOOLEAN, Ask(r, op, user, filled), NEW q \in Requests
      PROVE  Exchange(q)'
  BY <1>2, <1>3 DEF Ask, Idle, Exchange
<1>4. ASSUME NEW r \in Requests, Refuse(r), NEW q \in Requests
      PROVE  Exchange(q)'
  <2>1. CASE q = r
    <3>1. GatewayRefusal(request[r]) \in {400, 401}
      BY <1>4, RefusalTypes DEF Refuse
    <3>2. request'[r].at = "answered"
          /\ request'[r].status = GatewayRefusal(request[r])
      BY <1>4, RequestFields DEF Refuse, Answer
    <3> QED  BY <1>4, <2>1, <3>1, <3>2 DEF Refuse, Exchange
  <2>2. CASE q # r
    BY <1>2, <1>4, <2>2 DEF Refuse, Answer
  <2> QED  BY <2>1, <2>2
<1>5. ASSUME NEW r \in Requests, Forward(r), NEW q \in Requests
      PROVE  Exchange(q)'
  <2>1. CASE q = r
    <3>1. request'[r].at = "waiting"
      BY <1>5, RequestFields DEF Forward
    <3>2. /\ call'[r].at \in {"sent", "lost"} /\ ~ call'[r].handled
          /\ call'[r].op = request[r].op /\ call'[r].user = request[r].user
          /\ call'[r].status = Null
      BY <1>5 DEF Forward
    <3>3. call'[r] # Null
      <4>1. \A at \in {"sent", "lost"} :
              [at |-> at, op |-> request[r].op, user |-> request[r].user,
               filled |-> request[r].filled, handled |-> FALSE, status |-> Null]
                \in Calls
        BY <1>5, RequestFields DEF Forward, Calls
      <4> QED  BY <1>5, <4>1, NoCallAssumption DEF Forward
    <3>4. call'[r].user = Null => call'[r].op \in Public(GatewayControllers)
      BY <1>5, <3>2, LetThrough DEF Forward
    <3> QED  BY <2>1, <3>1, <3>2, <3>3, <3>4 DEF Exchange
  <2>2. CASE q # r
    BY <1>2, <1>5, <2>2 DEF Forward
  <2> QED  BY <2>1, <2>2
<1>6. ASSUME NEW r \in Requests, Receive(r), NEW q \in Requests
      PROVE  Exchange(q)'
  <2>1. CASE q = r
    <3>1. call[r] \in Calls /\ call[r].status \in Statuses
      BY <1>6, CallFields DEF Receive, Exchange
    <3>2. HandleAxiosError(call[r].status) = call[r].status
      BY <3>1, NoStatusAssumption
         DEF HandleAxiosError, Statuses, Refusals, OK
    <3>3. request'[r].at = "answered" /\ request'[r].status = call[r].status
      BY <1>6, <3>1, <3>2, RequestFields DEF Receive, Answer, Exchange
    <3> QED  BY <1>6, <2>1, <3>1, <3>3 DEF Receive, Exchange
  <2>2. CASE q # r
    BY <1>2, <1>6, <2>2 DEF Receive, Answer
  <2> QED  BY <2>1, <2>2
<1>7. ASSUME NEW r \in Requests, GiveUp(r), NEW q \in Requests
      PROVE  Exchange(q)'
  <2>1. CASE q = r
    <3>1. request'[r].at = "answered" /\ request'[r].status = 500
      BY <1>7, RequestFields DEF GiveUp, Answer, HandleAxiosError
    <3> QED  BY <1>7, <2>1, <3>1 DEF GiveUp, Exchange
  <2>2. CASE q # r
    BY <1>2, <1>7, <2>2 DEF GiveUp, Answer
  <2> QED  BY <2>1, <2>2
<1>8. ASSUME NEW r \in Requests, RefuseCall(r), NEW q \in Requests
      PROVE  Exchange(q)'
  <2>1. CASE q = r
    <3>1. ServiceRefusal(call[r]) \in Refusals
      BY <1>8, RefusalTypes DEF RefuseCall
    <3>2. call[r] \in Calls
      BY <1>8 DEF RefuseCall
    <3>3. /\ call'[r].at = "replied" /\ ~ call'[r].handled
          /\ call'[r].op = call[r].op /\ call'[r].user = call[r].user
      BY <1>8, <3>1, <3>2, CallFields DEF RefuseCall, Reply
    <3>4. call'[r] # Null
      BY <1>8, <3>1, ReplyType, NoCallAssumption DEF RefuseCall, Statuses
    <3> QED  BY <1>8, <2>1, <3>3, <3>4 DEF RefuseCall, Exchange
  <2>2. CASE q # r
    BY <1>2, <1>8, <2>2 DEF RefuseCall, Reply
  <2> QED  BY <2>1, <2>2
<1>9. ASSUME NEW r \in Requests, Handle(r), NEW q \in Requests
      PROVE  Exchange(q)'
  <2>1. CASE q = r
    <3>1. call[r] \in Calls
      BY <1>9 DEF Handle
    <3>2. call[r].op \in Public(ServiceControllers) /\ ~ call[r].filled
      BY <1>9, <3>1, LetIn DEF Handle
    <3>3. /\ call'[r].at = "handling" /\ call'[r].handled
          /\ call'[r].status = call[r].status /\ call'[r].filled = call[r].filled
          /\ call'[r].op = call[r].op /\ call'[r].user = call[r].user
      BY <1>9, <3>1, CallFields DEF Handle
    <3>4. call'[r] # Null
      <4>1. [call[r] EXCEPT !.at = "handling", !.handled = TRUE] \in Calls
        BY <1>9, <3>1, CallFields DEF Calls, Handle
      <4> QED  BY <1>9, <4>1, NoCallAssumption DEF Handle
    <3> QED  BY <1>9, <2>1, <3>2, <3>3, <3>4 DEF Handle, Exchange
  <2>2. CASE q # r
    BY <1>2, <1>9, <2>2 DEF Handle
  <2> QED  BY <2>1, <2>2
<1>10. ASSUME NEW r \in Requests, Finish(r), NEW q \in Requests
       PROVE  Exchange(q)'
  <2>1. CASE q = r
    <3>1. call[r] \in Calls
      BY <1>10 DEF Finish
    <3>2. PICK status \in Outcomes(call[r].op) : Reply(r, status, TRUE)
      BY <1>10 DEF Finish
    <3>3. /\ call'[r].at = "replied" /\ call'[r].status = status
          /\ call'[r].filled = call[r].filled
          /\ call'[r].op = call[r].op /\ call'[r].user = call[r].user
      BY <3>1, <3>2, CallFields DEF Reply
    <3>4. call'[r] # Null
      BY <1>10, <3>2, ReplyType, OutcomesType, NoCallAssumption DEF Finish
    <3> QED  BY <1>10, <2>1, <3>3, <3>4 DEF Finish, Exchange
  <2>2. CASE q # r
    BY <1>2, <1>10, <2>2 DEF Finish, Reply
  <2> QED  BY <2>1, <2>2
<1>11. ASSUME NEW s \in Services, Stop(s), NEW q \in Requests
       PROVE  Exchange(q)'
  <2>1. CASE call'[q] = call[q]
    BY <1>2, <1>11, <2>1 DEF Stop
  <2>2. CASE /\ call[q] # Null /\ call[q].at \in {"sent", "handling"}
             /\ call'[q] = [call[q] EXCEPT !.at = "lost"]
    <3>1. call[q] \in Calls
      BY <2>2
    <3>2. /\ call'[q].at = "lost" /\ call'[q].handled = call[q].handled
          /\ call'[q].status = call[q].status /\ call'[q].filled = call[q].filled
          /\ call'[q].op = call[q].op /\ call'[q].user = call[q].user
      BY <2>2, <3>1, CallFields
    <3>3. call'[q] # Null
      BY <2>2, <3>1, NoCallAssumption, CallFields DEF Calls
    <3> QED  BY <1>11, <2>2, <3>2, <3>3 DEF Stop, Exchange
  <2> QED  BY <1>11, <2>1, <2>2 DEF Stop
<1>12. ASSUME NEW s \in Services, Start(s), NEW q \in Requests
       PROVE  Exchange(q)'
  BY <1>2, <1>12 DEF Start
<1> QED
  BY <1>1, <1>3, <1>4, <1>5, <1>6, <1>7, <1>8, <1>9, <1>10, <1>11, <1>12
     DEF RequestsNext, GatewayStep, ServiceStep

\* The end of the gateway ends the requests it has, with no answer.
LEMMA ExchangeCut ==
  ASSUME ExchangeInv, CutRequests
  PROVE  ExchangeInv'
<1> USE DEF ExchangeInv, RequestsTypeOK
<1>1. ASSUME NEW q \in Requests
      PROVE  request'[q] \in RequestStates /\ Exchange(q)'
  <2>1. CASE request[q].at \in {"arrived", "waiting"}
    <3> DEFINE end == [request[q] EXCEPT !.at = "answered", !.status = NoAnswer]
    <3>1. request'[q] = end /\ call'[q] = call[q]
      BY <2>1 DEF CutRequests
    <3>2. end \in RequestStates /\ end.at = "answered" /\ end.status = NoAnswer
      BY <2>1, RequestFields DEF RequestStates
    <3> QED  BY <3>1, <3>2 DEF Exchange, NoAnswer
  <2>2. CASE request[q].at \notin {"arrived", "waiting"}
    <3>1. request'[q] = request[q] /\ call'[q] = call[q]
      BY <2>2 DEF CutRequests
    <3> QED  BY <3>1 DEF Exchange
  <2> QED  BY <2>1, <2>2
<1>2. request' \in [Requests -> RequestStates]
  BY <1>1 DEF CutRequests
<1>3. RequestsTypeOK'
  BY <1>2 DEF CutRequests
<1> QED  BY <1>1, <1>3

-----------------------------------------------------------------------------
(* Sockets and rooms.                                                      *)

\* The prefixes keep the rooms apart.
LEMMA RoomsDiffer ==
  /\ \A u, v : UserRoom(u) = UserRoom(v) => u = v
  /\ \A u, x : UserRoom(u) # SubjectRoom(x)
BY DEF UserRoom, SubjectRoom

\* The inductive invariant, for one socket: beside RoomsHoldUsers, an open
\* socket stays in the room of its user.
Member(s) ==
  /\ IF socket[s].at = "open"
     THEN /\ connectedClients[s] # Null
          /\ connectedClients[s] = socket[s].token
          /\ UserRoom(socket[s].token) \in rooms[s]
     ELSE connectedClients[s] = Null /\ rooms[s] = {}
  /\ \A u \in Users : UserRoom(u) \in rooms[s] => connectedClients[s] = u

MembersInv == SocketsTypeOK /\ \A s \in Sockets : Member(s)

LEMMA MembersStep ==
  ASSUME MembersInv, SocketsNext
  PROVE  MembersInv'
<1> USE DEF MembersInv, SocketsTypeOK
<1>0. ASSUME NEW t \in Sockets, socket'[t] = socket[t], rooms'[t] = rooms[t],
             connectedClients'[t] = connectedClients[t]
      PROVE  Member(t)'
  BY <1>0 DEF Member
<1>1. ASSUME NEW s \in Sockets, NEW token \in Users \cup {Null}, Open(s, token)
      PROVE  MembersInv'
  <2>1. SocketsTypeOK'
    BY <1>1 DEF Open
  <2>2. ASSUME NEW t \in Sockets
        PROVE  Member(t)'
    <3>1. CASE t = s
      BY <1>1, <3>1 DEF Open, Member, Closed
    <3>2. CASE t # s
      BY <1>0, <1>1, <3>2 DEF Open
    <3> QED  BY <3>1, <3>2
  <2> QED  BY <2>1, <2>2
<1>2. ASSUME NEW s \in Sockets, HandleConnection(s)
      PROVE  MembersInv'
  <2>1. socket[s] \in [at: {"opening"}, token: Users]
    BY <1>2 DEF HandleConnection, Closed
  <2>2. [socket[s] EXCEPT !.at = "open"] \in [at: {"open"}, token: Users]
        /\ [socket[s] EXCEPT !.at = "open"].token = socket[s].token
    BY <2>1
  <2>3. SocketsTypeOK'
    BY <1>2, <2>1, <2>2 DEF HandleConnection, Rooms
  <2>4. ASSUME NEW t \in Sockets
        PROVE  Member(t)'
    <3>1. CASE t = s
      <4>1. rooms[s] = {} /\ rooms'[s] = {UserRoom(socket[s].token)}
        BY <1>2 DEF HandleConnection, Member
      <4>2. socket'[s].at = "open" /\ socket'[s].token = socket[s].token
            /\ connectedClients'[s] = socket[s].token
        BY <1>2, <2>2 DEF HandleConnection
      <4> QED  BY <2>1, <3>1, <4>1, <4>2, RoomsDiffer DEF Member
    <3>2. CASE t # s
      BY <1>0, <1>2, <3>2 DEF HandleConnection
    <3> QED  BY <3>1, <3>2
  <2> QED  BY <2>3, <2>4
<1>3. ASSUME NEW s \in Sockets, RefuseConnection(s)
      PROVE  MembersInv'
  <2>1. SocketsTypeOK'
    BY <1>3 DEF RefuseConnection
  <2>2. ASSUME NEW t \in Sockets
        PROVE  Member(t)'
    <3>1. CASE t = s
      BY <1>3, <3>1 DEF RefuseConnection, Member, Closed
    <3>2. CASE t # s
      BY <1>0, <1>3, <3>2 DEF RefuseConnection
    <3> QED  BY <3>1, <3>2
  <2> QED  BY <2>1, <2>2
<1>4. ASSUME NEW s \in Sockets, HandleDisconnect(s)
      PROVE  MembersInv'
  <2>1. SocketsTypeOK'
    BY <1>4 DEF HandleDisconnect
  <2>2. ASSUME NEW t \in Sockets
        PROVE  Member(t)'
    <3>1. CASE t = s
      BY <1>4, <3>1 DEF HandleDisconnect, Member, Closed
    <3>2. CASE t # s
      BY <1>0, <1>4, <3>2 DEF HandleDisconnect
    <3> QED  BY <3>1, <3>2
  <2> QED  BY <2>1, <2>2
<1>5. ASSUME NEW s \in Sockets, NEW x \in Subjects,
             Subscribe(s, x) \/ Unsubscribe(s, x)
      PROVE  MembersInv'
  <2>1. SocketsTypeOK'
    BY <1>5 DEF Subscribe, Unsubscribe, Rooms
  <2>2. ASSUME NEW t \in Sockets
        PROVE  Member(t)'
    <3>1. CASE t = s
      <4>1. \A u : UserRoom(u) \in rooms'[s] <=> UserRoom(u) \in rooms[s]
        BY <1>5, RoomsDiffer DEF Subscribe, Unsubscribe
      <4> QED  BY <1>5, <3>1, <4>1 DEF Subscribe, Unsubscribe, Member
    <3>2. CASE t # s
      BY <1>0, <1>5, <3>2 DEF Subscribe, Unsubscribe
    <3> QED  BY <3>1, <3>2
  <2> QED  BY <2>1, <2>2
<1>6. ASSUME NEW room \in Rooms \cup {Null}, NEW reached \in SUBSET Sockets,
             Emit(room, reached)
      PROVE  MembersInv'
  BY <1>0, <1>6 DEF Emit
<1>7. ASSUME NEW u \in Users, NotifyUser(u)
      PROVE  MembersInv'
  BY <1>6, <1>7 DEF NotifyUser, Members, Rooms
<1>8. ASSUME NEW x \in Subjects, NotifySubject(x)
      PROVE  MembersInv'
  BY <1>6, <1>8 DEF NotifySubject, Members, Rooms
<1>9. CASE Broadcast
  BY <1>6, <1>9 DEF Broadcast
<1> QED
  BY <1>1, <1>2, <1>3, <1>4, <1>5, <1>7, <1>8, <1>9 DEF SocketsNext

\* The end of the gateway closes every socket.
LEMMA MembersCut ==
  ASSUME MembersInv, CutSockets
  PROVE  MembersInv'
BY DEF MembersInv, SocketsTypeOK, Member, CutSockets, Closed

-----------------------------------------------------------------------------
(* Both together.                                                          *)

Inv == ExchangeInv /\ MembersInv

LEMMA InvInit == Init => Inv
<1> SUFFICES ASSUME Init PROVE Inv
  OBVIOUS
<1>1. ExchangeInv
  BY DEF Init, RequestsInit, ExchangeInv, RequestsTypeOK, Exchange,
         RequestStates, Idle
<1>2. MembersInv
  BY DEF Init, SocketsInit, MembersInv, SocketsTypeOK, Member, Closed
<1> QED  BY <1>1, <1>2 DEF Inv

LEMMA InvStep == Inv /\ [Next]_vars => Inv'
<1> SUFFICES ASSUME Inv, [Next]_vars PROVE Inv'
  OBVIOUS
<1> USE DEF Inv
<1>1. ASSUME UNCHANGED requestVars
      PROVE  ExchangeInv'
  BY <1>1 DEF requestVars, ExchangeInv, RequestsTypeOK, Exchange
<1>2. ASSUME UNCHANGED socketVars
      PROVE  MembersInv'
  BY <1>2 DEF socketVars, MembersInv, SocketsTypeOK, Member
<1>3. CASE RequestsNext /\ UNCHANGED socketVars
  BY <1>2, <1>3, ExchangeStep
<1>4. CASE SocketsNext /\ UNCHANGED requestVars
  BY <1>1, <1>4, MembersStep
<1>5. CASE Restart
  BY <1>5, ExchangeCut, MembersCut DEF Restart
<1>6. CASE UNCHANGED vars
  BY <1>1, <1>2, <1>6 DEF vars
<1> QED  BY <1>3, <1>4, <1>5, <1>6 DEF Next

LEMMA Invariance == Spec => []Inv
BY InvInit, InvStep, PTL DEF Spec

\* Type correctness of the gateway, its calls and its sockets.
THEOREM TypeCorrect == Spec => []TypeOK
<1>1. Inv => TypeOK
  BY DEF Inv, ExchangeInv, MembersInv, TypeOK
<1> QED  BY <1>1, Invariance, PTL

\* Whatever races the time limit, stops or is restarted, a client is told what
\* the gateway or the service decided, or 500.
THEOREM Verdict == Spec => []AnswerIsTheVerdict
<1>1. Inv => AnswerIsTheVerdict
  BY DEF Inv, ExchangeInv, Exchange, AnswerIsTheVerdict
<1> QED  BY <1>1, Invariance, PTL

\* No service is called for a request without a token but for a public route.
THEOREM Strangers == Spec => []StrangersStayOutside
<1>1. Inv => StrangersStayOutside
  BY PublicRoutes DEF Inv, ExchangeInv, Exchange, StrangersStayOutside
<1> QED  BY <1>1, Invariance, PTL

\* How far the findings reach: whatever route, no handler of a service ever runs
\* for a user, or with a body or a query.
NobodyIsServed ==
  \A r \in Requests :
    (call[r] # Null /\ call[r].handled) =>
      call[r].op \in Public(ServiceControllers) /\ ~ call[r].filled

\* The guards and pipes let no handler run but for an empty request of a public
\* route.
THEOREM Unserved == Spec => []NobodyIsServed
<1>1. Inv => NobodyIsServed
  BY DEF Inv, ExchangeInv, Exchange, NobodyIsServed
<1> QED  BY <1>1, Invariance, PTL

\* The map and the rooms hold the users of the open sockets.
THEOREM RoomMembers == Spec => []RoomsHoldUsers
<1>1. Inv => RoomsHoldUsers
  BY DEF Inv, MembersInv, Member, RoomsHoldUsers
<1> QED  BY <1>1, Invariance, PTL

-----------------------------------------------------------------------------
(* Steps.                                                                  *)

LEMMA ReachStep ==
  ASSUME Inv, [Next]_vars, NEW u \in Users, emitted' # emitted,
         emitted'.to = UserRoom(u)
  PROVE  emitted'.reached =
           {s \in Sockets : socket[s].at = "open" /\ socket[s].token = u}
<1> USE DEF Inv, MembersInv
<1>1. UserRoom(u) # Null
  BY NoRoomAssumption DEF Rooms
<1>2. SocketsNext
  BY DEF Next, Restart, CutSockets, vars, socketVars
<1>3. PICK v \in Users : NotifyUser(v)
  <2>1. \A s \in Sockets :
          /\ \A token \in Users \cup {Null} : ~ Open(s, token)
          /\ ~ HandleConnection(s) /\ ~ RefuseConnection(s) /\ ~ HandleDisconnect(s)
          /\ \A x \in Subjects : ~ Subscribe(s, x) /\ ~ Unsubscribe(s, x)
    BY DEF Open, HandleConnection, RefuseConnection, HandleDisconnect,
           Subscribe, Unsubscribe
  <2>2. \A x \in Subjects : ~ NotifySubject(x)
    BY RoomsDiffer DEF NotifySubject, Emit
  <2>3. ~ Broadcast
    BY <1>1 DEF Broadcast, Emit
  <2> QED  BY <1>2, <2>1, <2>2, <2>3 DEF SocketsNext
<1>4. v = u /\ emitted'.reached = Members(UserRoom(u))
  BY <1>3, RoomsDiffer DEF NotifyUser, Emit
<1>5. \A s \in Sockets :
        UserRoom(u) \in rooms[s] <=> socket[s].at = "open" /\ socket[s].token = u
  BY DEF Member
<1> QED  BY <1>4, <1>5 DEF Members

\* A notification for a user reaches every socket the user has open, no other.
THEOREM Reached == Spec => UsersAreReached
<1>1. Inv /\ [Next]_vars =>
        [\A u \in Users :
           (emitted' # emitted /\ emitted'.to = UserRoom(u)) =>
             emitted'.reached =
               {s \in Sockets : socket[s].at = "open" /\ socket[s].token = u}]_socketVars
  BY ReachStep
<1> QED  BY <1>1, Invariance, PTL DEF Spec, UsersAreReached
=============================================================================
