------------------------------ MODULE Requests -------------------------------
(***************************************************************************)
(* HTTP requests on their way through the API gateway to a service and     *)
(* back: guard and validation pipe of the gateway, the proxy's call with   *)
(* its time limit, guards and pipe of the service, the handler, and the    *)
(* answers on the way back.                                                *)
(*                                                                         *)
(* The answer of a service races the time limit, services stop with calls  *)
(* in progress or never answer, and the gateway itself may stop.           *)
(*                                                                         *)
(* The operations of what a handler does are the other modules' business:  *)
(* here it runs, and comes to a status.                                    *)
(***************************************************************************)
EXTENDS Naturals, Tokens

CONSTANTS
  Requests,  \* requests of clients
  Managers,  \* those whose role is ADMIN or PROJECT_MANAGER
  Asked      \* bound: the operations the requests ask for

ASSUME ManagersAssumption == Managers \subseteq Users
ASSUME NoStatusAssumption == Null \notin Nat

VARIABLES
  request,   \* what the gateway knows of each request, and its answer
  call,      \* the call the gateway made for it, as its service has it
  up         \* which services run

requestVars == <<request, call, up>>

Idle == [at |-> "idle"]
NoAnswer == 0  \* the connection ended without a response
OK == 200      \* any status that is not an error

-----------------------------------------------------------------------------
(* The controllers: their routes, those marked @Public, and those that     *)
(* take a body or a query as a DTO.  First those of the gateway.           *)

GatewayAuth ==
  [routes |-> {"register", "login", "refresh", "logout", "me"},
   public |-> {"register", "login", "refresh"},
   dto    |-> {"register", "login", "refresh"}]

GatewayTickets ==
  [routes |-> {"createTicket", "findTickets", "findTicket", "updateTicket",
               "deleteTicket"},
   public |-> {},
   dto    |-> {"createTicket", "findTickets", "updateTicket"}]

GatewayComments ==
  [routes |-> {"createComment", "findComments", "deleteComment"},
   public |-> {},
   dto    |-> {"createComment"}]

GatewayAssignments ==
  [routes |-> {"assign", "unassign", "findAssignments", "findByTicket",
               "findByUser"},
   public |-> {},
   dto    |-> {"assign", "unassign", "findAssignments"}]

GatewayControllers ==
  {GatewayAuth, GatewayTickets, GatewayComments, GatewayAssignments}

(* Those of the services; managed are the routes with @Roles.              *)

ServiceAuth ==
  [routes  |-> {"register", "login", "refresh", "logout", "me"},
   public  |-> {"register", "login", "refresh"},
   dto     |-> {"register", "login", "refresh"},
   managed |-> {}]

ServiceTickets ==
  [routes  |-> {"createTicket", "findTickets", "findTicket", "updateTicket",
                "deleteTicket"},
   public  |-> {},
   dto     |-> {"createTicket", "findTickets", "updateTicket"},
   managed |-> {"deleteTicket"}]

ServiceComments ==
  [routes  |-> {"createComment", "findComments", "deleteComment"},
   public  |-> {},
   dto     |-> {"createComment"},
   managed |-> {}]

ServiceAssignments ==
  [routes  |-> {"assign", "unassign", "findAssignments", "findByTicket",
                "findByUser"},
   public  |-> {},
   dto     |-> {"assign", "unassign", "findAssignments"},
   managed |-> {}]

ServiceControllers ==
  {ServiceAuth, ServiceTickets, ServiceComments, ServiceAssignments}

Public(controllers) == UNION {c.public : c \in controllers}
Dto(controllers) == UNION {c.dto : c \in controllers}
Managed == UNION {c.managed : c \in ServiceControllers}
Operations == UNION {c.routes : c \in GatewayControllers}

ASSUME AskedAssumption == Asked \subseteq Operations

(* The proxies: the service each method calls, and the methods that put    *)
(* the user's id into the header x-user-id.  (logout and getProfile send   *)
(* it as a body and a query that no handler takes.)                        *)

ProxyAuth ==
  [to |-> "auth", calls |-> GatewayAuth.routes, header |-> {}]

ProxyTickets ==
  [to |-> "ticket", calls |-> GatewayTickets.routes,
   header |-> {"createTicket", "updateTicket"}]

ProxyComments ==
  [to |-> "ticket", calls |-> GatewayComments.routes,
   header |-> {"createComment", "deleteComment"}]

ProxyAssignments ==
  [to |-> "assignment", calls |-> GatewayAssignments.routes,
   header |-> {"assign", "unassign"}]

Proxies == {ProxyAuth, ProxyTickets, ProxyComments, ProxyAssignments}

ServiceOf(op) == (CHOOSE p \in Proxies : op \in p.calls).to
Services == {ServiceOf(op) : op \in Asked}
InHeader == UNION {p.header : p \in Proxies}

-----------------------------------------------------------------------------
(* Guards, pipes and error handling.  A refusal is a status, or Null.      *)

\* Mutant of GatewayGuard: every route counts as @Public.
GuardOpen(q) == TRUE

\* JwtAuthGuard of the gateway: @Public, or a token passport accepts.
GatewayGuard(q) == q.op \in Public(GatewayControllers) \/ q.user # Null

\* The ValidationPipe of main.ts, in the gateway and in the services alike:
\* whitelist and forbidNonWhitelisted refuse every property that carries no
\* decorator, and no DTO of @app/contracts has one.
ValidationPipe(q, controllers) == ~ (q.filled /\ q.op \in Dto(controllers))

\* request.user in a service: no strategy or middleware there sets it.
RequestUser(c) == Null

\* JwtAuthGuard and RolesGuard of the services.
JwtAuthGuard(c) ==
  c.op \in Public(ServiceControllers) \/ RequestUser(c) # Null

RolesGuard(c) == c.op \in Managed => RequestUser(c) \in Managers

GatewayRefusal(q) ==
  IF ~ GatewayGuard(q) THEN 401
  ELSE IF ~ ValidationPipe(q, GatewayControllers) THEN 400
  ELSE Null

ServiceRefusal(c) ==
  IF ~ JwtAuthGuard(c) THEN 401
  ELSE IF ~ RolesGuard(c) THEN 403
  ELSE IF ~ ValidationPipe(c, ServiceControllers) THEN 400
  ELSE Null

\* What handlers throw: an HttpException by its status, Null any other error.
\* The public ones only ever see an empty DTO, for which register meets some
\* account or fails to hash, login fails to compare, and refresh to verify.
Thrown(op) ==
  CASE op = "register" -> {409, Null}
    [] op = "login" -> {401, Null}
    [] op = "refresh" -> {401}
    [] OTHER -> {404, 409, Null}

\* HttpExceptionFilter: the status of an HttpException, else 500.
HttpExceptionFilter(exception) == IF exception # Null THEN exception ELSE 500

Outcomes(op) ==
  {HttpExceptionFilter(e) : e \in Thrown(op)}
  \cup (IF op \in Public(ServiceControllers) THEN {} ELSE {OK})

\* Mutant of HandleAxiosError: no default for an error without a response.
HandleAxiosErrorBare(response) == response

\* handleAxiosError: the status of the response, 500 when there is none.
HandleAxiosError(response) == IF response # Null THEN response ELSE 500

-----------------------------------------------------------------------------
(* Clients and the gateway.                                                *)

Answer(r, status) ==
  request' = [request EXCEPT ![r].at = "answered", ![r].status = status]

Ask(r, op, user, filled) ==
  /\ request[r] = Idle
  /\ filled => op \in Dto(GatewayControllers)
  /\ request' = [request EXCEPT ![r] = [at |-> "arrived", op |-> op,
                    user |-> user, filled |-> filled, status |-> Null]]
  /\ UNCHANGED <<call, up>>

\* Guard or pipe refuses.
Refuse(r) ==
  /\ request[r].at = "arrived"
  /\ GatewayRefusal(request[r]) # Null
  /\ Answer(r, GatewayRefusal(request[r]))
  /\ UNCHANGED <<call, up>>

\* The proxy calls the service and awaits; a service that is down refuses
\* the connection.
Forward(r) ==
  /\ request[r].at = "arrived"
  /\ GatewayRefusal(request[r]) = Null
  /\ request' = [request EXCEPT ![r].at = "waiting"]
  /\ LET q == request[r] IN
       call' = [call EXCEPT ![r] =
                  [at |-> IF up[ServiceOf(q.op)] THEN "sent" ELSE "lost",
                   op |-> q.op, user |-> q.user, filled |-> q.filled,
                   handled |-> FALSE, status |-> Null]]
  /\ UNCHANGED up

\* Mutant of Receive: axios takes every status for a success.
ReceiveAnyStatus(r) ==
  /\ request[r].at = "waiting"
  /\ call[r].at = "replied"
  /\ Answer(r, OK)
  /\ UNCHANGED <<call, up>>

\* The service's answer arrives: return response.data, or catch.
Receive(r) ==
  /\ request[r].at = "waiting"
  /\ call[r].at = "replied"
  /\ Answer(r, IF call[r].status = OK THEN OK ELSE HandleAxiosError(call[r].status))
  /\ UNCHANGED <<call, up>>

\* Mutant of GiveUp: axios has no time limit.
GiveUpWhenLost(r) ==
  /\ request[r].at = "waiting"
  /\ call[r].at = "lost"
  /\ Answer(r, HandleAxiosError(Null))
  /\ UNCHANGED <<call, up>>

\* The connection is refused or breaks, or the time limit passes, which it
\* may do at any time from here: while the service works, or while its answer
\* is on the way.  The service is not told.
GiveUp(r) ==
  /\ request[r].at = "waiting"
  /\ Answer(r, HandleAxiosError(Null))
  /\ UNCHANGED <<call, up>>

-----------------------------------------------------------------------------
(* The services.                                                           *)

Reply(r, status, handled) ==
  call' = [call EXCEPT ![r].at = "replied", ![r].status = status,
                       ![r].handled = handled]

\* A guard or the pipe of the service refuses.
RefuseCall(r) ==
  /\ call[r] # Null /\ call[r].at = "sent"
  /\ ServiceRefusal(call[r]) # Null
  /\ Reply(r, ServiceRefusal(call[r]), FALSE)
  /\ UNCHANGED <<request, up>>

Handle(r) ==
  /\ call[r] # Null /\ call[r].at = "sent"
  /\ ServiceRefusal(call[r]) = Null
  /\ call' = [call EXCEPT ![r].at = "handling", ![r].handled = TRUE]
  /\ UNCHANGED <<request, up>>

Finish(r) ==
  /\ call[r] # Null /\ call[r].at = "handling"
  /\ \E status \in Outcomes(call[r].op) : Reply(r, status, TRUE)
  /\ UNCHANGED <<request, up>>

\* The process of a service ends, and with it the calls it has not answered.
Stop(s) ==
  /\ up[s]
  /\ up' = [up EXCEPT ![s] = FALSE]
  /\ call' = [r \in Requests |->
                IF call[r] # Null /\ call[r].at \in {"sent", "handling"}
                     /\ ServiceOf(call[r].op) = s
                THEN [call[r] EXCEPT !.at = "lost"] ELSE call[r]]
  /\ UNCHANGED request

Start(s) ==
  /\ ~ up[s]
  /\ up' = [up EXCEPT ![s] = TRUE]
  /\ UNCHANGED <<request, call>>

\* The gateway's process ends: clients lose the connections it has open, the
\* services go on with the calls they have.
CutRequests ==
  request' = [r \in Requests |->
                IF request[r].at \in {"arrived", "waiting"}
                THEN [request[r] EXCEPT !.at = "answered", !.status = NoAnswer]
                ELSE request[r]]
  /\ UNCHANGED <<call, up>>

-----------------------------------------------------------------------------
RequestsInit ==
  /\ request = [r \in Requests |-> Idle]
  /\ call = [r \in Requests |-> Null]
  /\ up = [s \in Services |-> TRUE]

GatewayStep(r) == Refuse(r) \/ Forward(r) \/ Receive(r) \/ GiveUp(r)

ServiceStep(r) == RefuseCall(r) \/ Handle(r) \/ Finish(r)

RequestsNext ==
  \/ \E r \in Requests :
       \/ \E op \in Asked, user \in Users \cup {Null}, filled \in BOOLEAN :
            Ask(r, op, user, filled)
       \/ GatewayStep(r)
       \/ ServiceStep(r)
  \/ \E s \in Services : Stop(s) \/ Start(s)
-----------------------------------------------------------------------------
(* Properties.                                                             *)

Refusals == {400, 401, 403}
Statuses == Refusals \cup {OK, 404, 409, 500}

RequestStates ==
  {Idle}
  \cup [at: {"arrived", "waiting"}, op: Operations, user: Users \cup {Null},
        filled: BOOLEAN, status: {Null}]
  \cup [at: {"answered"}, op: Operations, user: Users \cup {Null},
        filled: BOOLEAN, status: Statuses \cup {NoAnswer}]

Calls ==
  [at: {"sent", "handling", "lost"}, op: Operations, user: Users \cup {Null},
   filled: BOOLEAN, handled: BOOLEAN, status: {Null}]
  \cup [at: {"replied"}, op: Operations, user: Users \cup {Null},
        filled: BOOLEAN, handled: BOOLEAN, status: Statuses]

ASSUME NoCallAssumption == Null \notin Calls

RequestsTypeOK ==
  /\ request \in [Requests -> RequestStates]
  /\ call \in [Requests -> Calls \cup {Null}]
  /\ up \in [Services -> BOOLEAN]

\* What a client is told is what was decided: a status other than 500 is the
\* gateway's own refusal of a request it sent nowhere, or the status the
\* service came to, whatever raced the time limit, stopped or was restarted.
AnswerIsTheVerdict ==
  \A r \in Requests :
    (request[r].at = "answered" /\ request[r].status \notin {NoAnswer, 500}) =>
      IF call[r] = Null THEN request[r].status \in {400, 401}
      ELSE call[r].at = "replied" /\ call[r].status = request[r].status

\* A service is called for a request without a valid token only for what it
\* marks @Public itself: the @Public of the two controllers agree, and the
\* gateway's guard stands in front of every proxy.
StrangersStayOutside ==
  \A r \in Requests :
    (call[r] # Null /\ call[r].user = Null) =>
      call[r].op \in Public(ServiceControllers)

\* What the documents promise of authorization: the gateway puts the user's id
\* into x-user-id, and a service that is sent it takes the request for that
\* user's, not for one without a user.
UsersAreKnown ==
  \A r \in Requests :
    (call[r] # Null /\ call[r].user # Null /\ call[r].op \in InHeader) =>
      call[r].status # 401

\* Every request is answered, also when its service never answers or stops.
EveryRequestIsAnswered ==
  \A r \in Requests : request[r].at = "arrived" ~> request[r].at = "answered"
=============================================================================
