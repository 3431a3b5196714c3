# SyncroBoard task system: TLA+ specifications

SyncroBoard is a NestJS monorepo: four HTTP services behind an API gateway, a
consumer of their events, and shared libraries. This directory holds the
specifications of its stateful core and of the gateway in front of it, the model-checking configurations and the
machine-checked proofs. `PROJECT.json` maps every definition to the lines it
models, and lists the hazards, the runs, the mutants and the theorems.

## The system

| Component | State | Operations | Correct when |
|---|---|---|---|
| Outbox (`libs/common/src/outbox`) | table `outbox_events`: status, retry count, processed-at | `createOutboxEvent`, `processPendingEvents`, `retryFailedEvents`, `cleanupOldEvents` | SENT and deleted rows stand for published events; no row is stuck; every recorded event is published; order and duplicates are explained by failures |
| Kafka client (`libs/common/src/kafka`) | the topics, outside the process | `emit` (logs and rethrows), `send`, `subscribeToResponseOf` (the last two unused) | an error of the broker reaches the caller |
| Ticket service | tables `tickets`, `comments` (cascade) and its outbox | create, update and delete of tickets; create and delete of comments | every change has its event; events tell the history of the ticket; nothing follows a deletion |
| Assignment service | table `assignments` and its outbox | assign, unassign | at most one assignment of a user to a ticket; each change has its event |
| Auth service | table `users` (unique e-mail, hashed refresh token) and its outbox | register, login, refresh, logout | one account per e-mail; after logout no stored refresh token |
| Gateway proxies | none of their own; a call in progress with a time limit | guard, pipe, one HTTP call downstream for each request | every request is answered, with what was decided; nobody without a token gets behind the gateway |
| Gateway notifications | map socket -> user, rooms of each socket | connect, disconnect, (un)subscribe, notify | the map holds the authenticated open sockets; messages go to the room's members |
| Notification service | none | handlers of the topics, which only log | - |
| Controllers, guards, pipe and filter of the services | none | route, refuse, run the handler, turn errors into a status | they let in whom the gateway vouches for |
| Interceptors, Redis service, contracts | none (the Redis service has no caller) | - | - |

**How they interact.** The gateway calls the services over HTTP (axios with a
time limit). A service writes its own table and then the outbox table of its
database, in separate statements. The relay (`processPendingEvents`) reads the
outbox table and emits to Kafka, from which the notification service consumes.
Nothing in the repository calls `processPendingEvents`, `retryFailedEvents` or
`cleanupOldEvents`: a comment (`outbox.service.ts:45`) says a scheduled job
should.

**What is hard.** There are no transactions and no locks. Every operation is a
chain of awaited statements that any other call, replica or relay may interleave
with and after each of which the process may stop. TypeORM's `save` of an entity
with an id is itself two statements, a SELECT and then an INSERT, an UPDATE of
the columns that differ, or nothing. Emits may fail, or be reported as failed
after the broker stored the message. The repository has no tests of these
services; its documents say what they should guarantee.

## Modules

| Module | What it is |
|---|---|
| `Outbox` | the outbox table, its writers, any number of overlapping relays, the maintenance operations |
| `OutboxMC` | symmetry of the relays, for TLC |
| `OutboxProofs` | theorems about `Outbox` for every number of events and relays and every limit |
| `Channel` | what an outbox promises its consumers; `Outbox` implements it when executions do not overlap |
| `OneRelayProofs` | theorems about `Outbox` with one relay, the refinement of `Channel` among them |
| `Tickets` | concurrent calls of the ticket service and the events they record |
| `TicketsMC` | symmetry of the handlers, the texts and the plans, for TLC |
| `TicketsProofs` | theorems about `Tickets` for any handlers, statuses, texts and bounds, however calls overlap |
| `ApartProofs` | theorems about `Tickets` when calls about one ticket do not overlap: what a consumer of the events learns |
| `AtomicTickets` | what the documents promise of the service: a change and its events are saved together; `Tickets` implements it when calls about one ticket do not overlap, but for what faults take |
| `AtomicTicketsProofs` | the proof of that refinement |
| `Assignments` | concurrent calls of assign and unassign and the events they record |
| `AssignmentsMC` | symmetry of the handlers and of the pairs, for TLC |
| `AssignmentsProofs` | theorems about `Assignments` for any handlers, pairs and bounds |
| `Auth` | concurrent calls of register, login, refresh and logout on the users table |
| `AuthMC` | symmetry of the handlers and of the e-mails, for TLC |
| `AuthProofs` | theorems about `Auth` for any handlers, e-mails and bounds |
| `Tokens` | the users whose tokens verify, which the two sides of the gateway share |
| `Requests` | HTTP requests through the gateway to a service and back, with everything that refuses, fails or stops on the way |
| `Notifications` | sockets, the map of connected clients, rooms and emissions |
| `Gateway` | the process that does both, and its restart; the specification the run and the proofs are about |
| `GatewayProofs` | theorems about `Gateway` for any requests, users, sockets and subjects |

### Outbox

`row` is the table: `Null`, or the three columns that change after the INSERT.
Events are numbered in the order of their `createdAt`, and their INSERTs commit
in any order. A relay is one execution of `processPendingEvents` at a time:
`batch` is its `pendingEvents` (the in-memory entities it has still to finish),
`pc` the place in `processEvent`, `loaded` the row its current `save` selected.
`published` counts the messages of each event in the topic, and `today` is the
clock of `processedAt` and `cutoffDate`.

| Code | Actions |
|---|---|
| `createOutboxEvent` | `CreateOutboxEvent` |
| the `find` of `processPendingEvents` | `FindPending` |
| first `save` of `processEvent` | `SelectProcessing`, `SaveProcessing` |
| `kafkaService.emit` | `Emit`, `EmitFails` |
| second `save`, and the loop's next iteration | `SelectSent`, `SaveSent` |
| an error in the try block | `SaveFails`, `SaveConflicts`, `EmitFails`, all through `Catch` |
| the `save` of the catch block | `SelectCaught`, `SaveCaught`; when it throws, `CaughtSaveFails`, `CaughtSaveConflicts`, which drop the rest of the batch |
| the process stops | `Crash` |
| `retryFailedEvents`, `cleanupOldEvents` | actions of the same names, one statement each |

`Merge` is what a `save` does to a row that others changed between its two
statements: only columns that differ from what it selected are written, a row
deleted since is left alone, and a row that was not there is inserted.

`Channel` is the abstract specification: messages are recorded, delivered any
number of times, and settled once they have been delivered, after which they are
not delivered again. `C == INSTANCE Channel` in `Outbox` maps `created`,
`published`, and `Settled`, the events whose row is SENT or deleted, to it.
`ImplementsChannel` is a property of one relay: with two, TLC finds the run in
which a stale save opens a settled event again.

Assumptions. A `save` that fails has committed nothing. `lastError` and the
payload decide nothing and are left out; so is the order of rows with equal
`createdAt`. An empty result of `find` returns without a step.

### Tickets

`ticket` and `comment` are the tables, `events` the rows added to the outbox in
the order of their commit (the relay of `Outbox` takes over from there), and
`call[h]` what a handler is executing, with the values it holds in local
variables: the entity it found, `oldStatus`, the DTO. A row has three columns, told
apart by what tells of them. The status has an event of its own. `text` (title,
description, type and priority together) is in TICKET_CREATED and, when an update
sets it, in TICKET_UPDATED. `plan` (`sprintId`) is in TICKET_UPDATED only: the payload at
`tickets.service.ts:36-45` leaves it out, though `CreateTicketDto` carries it and the row
stores it. Left out are `estimatedHours`, a second column treated like `sprintId`, and
the columns that no update sets: the project and the reporter, which TICKET_CREATED
carries, and `parentTicketId`, which no event ever tells. `Null` in a DTO is a property
it lacks. Calls that end with 404, or are refused by the
foreign key of comments, change nothing and are not steps. Projects, whose
deletion would cascade, have no operation in the repository.

| Code | Actions |
|---|---|
| `TicketsService.create` | `CreateTicket`, `RecordCreated` |
| `TicketsService.update` | `FindForUpdate`, `SelectForUpdate`, `WriteUpdate` or `WriteConflicts`, `RecordUpdated`, `RecordStatusChanged` |
| `TicketsService.delete` | `FindForDelete`, `RemoveTicket`, `RecordDeleted` |
| `CommentsService.create`, `delete` | `CreateComment`, `RecordComment`; `FindComment`, `RemoveComment` |
| an await rejects, the process stops | `CallFails` |

`Apart` says that no two calls in progress are about the same ticket, and `ApartSpec` is
the service as long as that holds. Calls about different tickets, and deletions of
comments, still overlap as they like. Nothing in the code sees to it. It is a condition
under which the events tell the whole story; `tickets_concurrent` shows what is left of
the story without it.

`AtomicTickets` is the abstract specification, after the README of the repository
(`README.md:363`, "en la misma transacción que los cambios de datos") and the comment
of `createOutboxEvent`: a change of a ticket's row and its events are one step, the
status change is told with the status it replaces, a deletion and a comment find the
ticket there, a comment is told once. The exception the code makes is an action of
its own: a fault takes at most two events from the end of one ticket's log, and leaves
the change. `A == INSTANCE AtomicTickets` maps the table to `ticket`, and the log of a
ticket to the recorded events about it (`View.told`) followed by those the call about
it still owes (`Owed`). So the step that writes the row is the one that tells, the
steps that record are stutters, and `CallFails` is `Fault`.

The consumer of the events is `Views`: after each number of events the table it
arrives at (`Apply` for one event) and the events it has about each ticket. `Replica`
is the table after all of them.

### Assignments

`assignment` is the table (a row is its pair of ticket and user), `events` the
outbox rows, `call[h]` what a handler is executing, and `by` the handler that
inserted a row, a history the duplicates are stated with. The table has no
unique constraint on the pair, so only the query at the start of `assign` keeps
a pair from having two rows. `remove(entity)` clears the id of the entity, from
which `unassign` then takes the event's `aggregateId`: `Record` refuses it, as the
NOT NULL column does, and the call ends with an error after its change. Of
several rows of a pair the query of `unassign` returns any. Calls that end with
404 or 409 are not steps.

| Code | Actions |
|---|---|
| `AssignmentsService.assign` | `FindForAssign`, `InsertAssignment`, `RecordAssigned` |
| `AssignmentsService.unassign` | `FindForUnassign`, `RemoveAssignment`, `RecordUnassigned` |
| an await rejects, the process stops | `CallFails` |

### Auth

`user` is the table with the columns that decide something: the e-mail, which has
a unique index, and the hashed refresh token. `holders` are the users who were
answered with tokens and so can call refresh and logout. `loggedOut` is a
history. `lastLogin` decides nothing, and no call changes `status`
(`UsersService.update` and `delete` have no caller and are left out).

`HashOf` models the comparison of `refreshToken`. `bcrypt` reads 72 bytes, which
for these tokens are the header and the payload up to part of the user's id. So
what the service stores tells users apart, but not two tokens of one user: the
model has one hash for each user.

| Code | Actions |
|---|---|
| `AuthService.register`, `UsersService.create` | `FindForRegister`, `InsertUser` or `InsertRefused`, `RecordRegistered`, `StoreToken` |
| `AuthService.login` | `FindForLogin`, `StoreToken` |
| `AuthService.refreshToken` | `FindForRefresh`, `StoreToken` |
| `AuthService.logout` | `Logout`, one UPDATE |
| an await rejects, the process stops | `CallFails` |

### Requests

`request[r]` is what the gateway knows of a request: `arrived`, `waiting` for its
service, or `answered` with a status. `call[r]` is the HTTP call made for it, as
its service has it: `sent`, `handling`, `replied`, or `lost` with the process or the
connection. `up[s]` says which services run. A token is its user, or `Null` when
it is missing, wrong or expired; a body or query is `filled` or empty.

The controllers are tables, one record for each, transcribed from their
decorators: routes, `@Public`, `@Roles`, and routes with a DTO. So are the proxies:
the service a method calls, and whether it sends `x-user-id`. That the tables of
the two sides agree is something to check, not something the model assumes
(`StrangersStayOutside`).

| Code | Actions |
|---|---|
| a client sends a request | `Ask` |
| the gateway's `JwtAuthGuard` and `ValidationPipe` refuse | `Refuse` |
| `firstValueFrom(httpService...)` of a proxy | `Forward`; a service that is down refuses the connection (`lost`) |
| `return response.data`, or `catch` with a response | `Receive` |
| `catch` without a response: the connection is refused or breaks, the time limit passes | `GiveUp` |
| `JwtAuthGuard`, `RolesGuard`, `ValidationPipe` of a service refuse | `RefuseCall` |
| a controller's handler runs, and ends | `Handle`, `Finish` |
| processes end and are started | `Stop`, `Start`; `CutRequests` for the gateway |

There is no clock: the time limit may pass at any moment while the proxy waits,
which covers every relation between the limit and how long a service takes. A
handler comes to any status its errors allow; what it does to the tables is the
subject of the modules above. `HandleAxiosError` passes a response's status on,
and makes 500 of everything else. `CutRequests` is a connection that ends without
an answer (`NoAnswer`).

**What comes through.** In this commit nothing a user asks for does. The services'
`JwtAuthGuard` needs a `request.user`, which no strategy or middleware of a service
sets; the gateway passes the identity as a header that no service reads
(`RequestUser`). `docs/specs/spec-base-000-requerimientos.md:238` and :240 and
`docs/specs/README.md:201` promise that the header is injected and validated.
`UsersAreKnown` states that promise, and the run `gateway_header` shows it broken.

`ValidationPipe` adds to it: `forbidNonWhitelisted` refuses every property of a DTO
without decorators, and no DTO of `libs/contracts` carries one, where
`docs/specs/spec-base-000-requerimientos.md:246` has class-validator in all of them.
So a request with a body or a query is answered 400 by the gateway. What is left is
the public routes with an empty body. `GatewayProofs.Unserved` proves it for all routes:
no other handler of a service runs. The modules of the services say what happens for
calls that reach a handler, from wherever they come.

### Notifications

`socket[s]` is a connection and the token it came with, `connectedClients` the
gateway's map, `rooms` what socket.io keeps, `emitted` the last emission and the
sockets it reached. Tickets and projects are one kind of subject, since their
handlers differ in the prefix only; the prefix that keeps them apart from users
is kept. Nest does not apply the global `JwtAuthGuard` to message handlers, so what
keeps strangers out of rooms is `handleConnection`. It awaits nothing, and Nest
binds the message handlers of a socket after it has run: messages a refused
client sent are never handled.

| Code | Actions |
|---|---|
| socket.io accepts a connection | `Open` |
| `handleConnection` | `HandleConnection`, or `RefuseConnection` when there is no valid token |
| `handleDisconnect`, and socket.io leaving the rooms | `HandleDisconnect` |
| `handleSubscribeToTicket`, `-Project`; `handleUnsubscribeFrom...` | `Subscribe`, `Unsubscribe` |
| `notifyUser`; `notifyTicket`, `notifyProject`; `broadcast` | `NotifyUser`; `NotifySubject`; `Broadcast` |

No code of the repository calls the notifying methods: they are modelled as the
operations they offer.

### Gateway

The two sides are independent but for the process they share: `Restart` ends every
request with no answer, closes every socket and empties the map and the rooms,
while the services go on with the calls they have.

## Runs

| Run | Question | Bounds, and why they are enough |
|---|---|---|
| `outbox_three_relays` | Can stale saves make a row SENT, or lose it, without its event published, or leave it PROCESSING with nobody to change it? | one event, since the properties speak of one row; 3 relays, so that two of them meet on a row that a third settled and `cleanupOldEvents` deleted, and their INSERTs conflict; 2 faults with limit 2 give both outcomes of the catch block; one crash exercises the exception of `ProcessingHasOwner` |
| `outbox_one_relay` | What holds when executions never overlap, liveness and the order of the topic included? | batches of 2 of 3 events: a failed event is overtaken within its batch, and the third waits behind the batch; 2 faults with limit 2 take an event to FAILED and back through `retryFailedEvents`; one crash |
| `outbox_crash` | (violation) Is every event published eventually, when an execution may be lost? | one crash |
| `outbox_overlap` | (violation) The same without crashes, when two executions overlap? | 4 faults take the count past the limit |
| `tickets_apart` | Do the events tell the whole story when calls about one ticket do not overlap, and does the service then implement `AtomicTickets`? | 2 handlers and 2 tickets, so that calls about different tickets interleave; a plan and none, so that a creation may have one to leave out; one text, since updates treat texts as they treat plans; 4 calls, one comment and a fault: create, update of both kinds of columns, comment, delete of one ticket, or calls about both tickets at once |
| `tickets_concurrent` | What do the events still tell when calls do overlap? | 3 handlers, so that an update re-inserts a deleted row while another is about to insert it; 4 calls, the first the creation; a comment and a fault, so that every step of the service happens with others in between; 3 statuses, and no plans, which no property of the run is about |
| `tickets_atomicity` | (violation) Is a change recorded with its event? | one call and one fault |
| `assignments_overlap` | When can a user be assigned to a ticket twice, and does a consumer know of every assignment? | 3 handlers, so that an unassign meets two overlapping assigns; 4 rows and 6 calls assign, unassign and assign again; 2 pairs |
| `assignments_unassign` | (violation) Does a consumer learn of an unassign? | one assign and one unassign, no fault |
| `auth_overlap` | Is an account announced once, and is a logout final? | 3 handlers let registrations, a refresh and a logout meet; 9 calls register two e-mails and log in, out and refresh; 2 users, one for each e-mail, and 2 faults, so that both may stay unannounced |
| `gateway_restarts` | Is every request answered, with what was decided, and does a notification reach the sockets of its user, while services hang, stop and start and the gateway restarts? | requests share nothing but `up` and the restart, so one is enough (the theorems are about any number); one public route, one for users and one for managers, on two services; a manager and another user, so that a room can hold the wrong one; 2 sockets, of one user or of two; one subject |
| `gateway_header` | (violation) Does a service know whose request it is? | one request of a manager for a route whose proxy sends the header |

`DaysOld` is 0 and `MaxDay` 1, so that a row can be too old. `MaxRetries` is 2
for the 5 of the code. The runs of `Tickets`, `Assignments` and `Auth` switch the
deadlock check off: the budget `MaxCalls` ends the behaviour. The runs of `Outbox` and `Gateway` leave it on.

**What the passing runs show.** With any overlap of relays SENT means
published, a deleted row was published, a PROCESSING row has a relay that will
change it unless an execution was lost. That an event is overtaken only behind a
failed or unfinished attempt is checked with one relay and proved for any number. When
executions do not overlap, the outbox implements `Channel`, a FAILED row is one `retryFailedEvents` finds, each duplicate is accounted for by a failure, SENT
is final, and every event is published and settled unless an execution was lost.
When calls about one ticket do not overlap, a consumer that applies the events in
order has the service's tickets once no call is in progress and unless one failed, but
for what TICKET_CREATED leaves out and no update has set since (`Shown`); the
status events of a ticket are an unbroken chain, and, failures or not, nothing follows a
TICKET_DELETED and the service implements `AtomicTickets`: the missing transaction
costs events only to faults, and then the last ones of a ticket. When calls about a ticket do
overlap all this is lost (stale columns are written back, deleted tickets come back),
and what remains is that a ticket that has gone was announced as deleted, that a status a
ticket has was announced, and that a deleted ticket stays gone, with nothing told of it but
its deletion, once no update or comment is in progress that had found it. A user is assigned to a ticket twice only by assigns of
different handlers, and an assignment there is was announced. Registrations
with one e-mail announce one account, the one that is stored, and after a logout
that meets no call of the same account no token is stored until a login begins.
A logout that does meet one has no such effect: the call in progress stores its
token after it. An account nobody announced cost a fault of its own; it
stays, and refuses every later registration of its e-mail.

Every request to the gateway is answered, also when its service hangs or stops,
unless the gateway itself ends, and then its connection does. A status other than
500 is what was decided: the service's own, or the gateway's refusal of a request
it sent nowhere (`apps/gateway/README.md` says errors of the services are passed
on correctly). The converse does not hold, and the model shows it: a client told
500 may have been served, or be served later, and nothing keeps a repeated
request from being executed twice. No service
is called without a token for a route it does not mark `@Public` itself. Whoever is
in a room came with a valid token, and a notification for a user reaches all open
sockets of the user and no other.

**What the violation runs show** (`findings` in `PROJECT.json`).
`outbox_crash`: a row saved as PROCESSING by an execution that then stops is
never read again, against "at-least-once delivery" in
`docs/specs/spec-base-000-requerimientos.md:118`. `outbox_overlap`: two
executions that fail on one event can combine PENDING with a full retry count;
its next failure makes it FAILED with a count that the equality in
`retryFailedEvents` never matches. `tickets_atomicity`: a failure between the
two saves leaves a ticket without its event, against `README.md:363` and the
comment of `createOutboxEvent`; the shortest run lacks a TICKET_CREATED, and a status
change without its second event would violate the property as well (`StatusIsTold`). `assignments_unassign`: `remove` has cleared the id
when `unassign` records its event, so the INSERT is refused and the assignment is
gone without one. `gateway_header`: a valid token gets through the gateway, whose proxy
sends `x-user-id`, and the service answers 401, against
`docs/specs/spec-base-000-requerimientos.md:238`.

**Fairness.** `Scheduled` is an assumption on the deployment, the job the
comment of `processPendingEvents` asks for: each relay is run again and again
and its awaits return (`WF` on `RelayStep`), and `retryFailedEvents` is run again
and again. `cleanupOldEvents`, new events and faults have no fairness; faults
are bounded, so a broker that is down for ever is excluded.
`Serving` in `Gateway` is the event loop of a running process and axios' timer: a
request the gateway has goes on (`WF` on `GatewayStep`). Nothing is assumed of
services, which may hang, stop and stay down, nor of clients.

## Proofs

The theorems hold for every value of the constants and rest only on the
assumptions the modules name: the bounds are naturals (any, so that faults and
calls are as many as one likes) and `Null` is no value of the tables. The sets
of relays, handlers, pairs, e-mails, requests and sockets may be infinite.

`OutboxProofs`:

- `TypeCorrect`: `Spec => []TypeOK`.
- `Delivery`: `SentIsPublished`; `Deletion`: `GoneIsPublished`. Neither is inductive:
  a relay may hold an entity marked SENT, or a stale one with which it will
  insert a deleted row. `DeliveryInv` adds that created events are exactly
  those with a row or a publication (`RowsAreCreated`, `BatchIsCreated`) and that
  an entity with status SENT is of a published event (`SentEntityIsPublished`).
- `Ownership`: `ProcessingHasOwner`. `OwnerInv` adds `StatusFollowsPc`, the
  status of the current entity at each place of `processEvent`. The step that
  matters is `Write`: a save that leaves the row PROCESSING either is the
  first save of its own relay, which then owns the row, or did not write the
  status, and the old owner remains.
- `Order`: `OvertakenOnlyAfterTrouble`. `OrderInv` adds to `DeliveryInv` and
  `StatusFollowsPc` that a batch has no gap (`BatchIsOrdered`): whatever older
  event was committed before a member was published, failed, is in progress, or
  is in the batch before it. `OldestPending` takes a prefix of the pending rows,
  and the loop works from the oldest on. That is what makes `find` ordered by
  `createdAt` and the sequential loop sufficient for the order.

`OneRelayProofs`, under `OneAtATime` (`Relays` has at most one element):

- `Refinement`: `ImplementsChannel`. Every step of `Next` is a step of the channel
  or changes nothing in it.
- `SentStays`: `SentIsFinal`; `FailedAreFound`: `FailedIsRetryable`; `Duplicates`:
  `DuplicatesAreRetries`.

All rest on `SingleInv`: `DeliveryInv`, `StatusFollowsPc`, and that nobody wrote
behind the relay's back (`EntitiesMatchRows`): an entity that waits in the batch
is the row itself, still PENDING, and at each place of `processEvent` the row of
the current entity has the status and the count the relay gave it, and is what
its last SELECT returned. So each save replaces the row as a whole (`MergeFresh`).
`RetriesInLimit` says that an open row has attempts left and a FAILED one has
none. `CountInv` adds the number of publications before and after an attempt.

`TicketsProofs`:

- `TypeCorrect`; it includes that a status change is recorded only for a DTO with
  a status.
- `GoneAreAnnounced`: `GoneIsAnnounced`. `GoneInv` says that, without faults, a
  ticket without a row was announced as deleted or some call that removed it is
  about to (`Gone`); an update that loses its row to a deletion writes nothing, or
  inserts it again, and neither takes the event back.
- `StatusesAreAnnounced`: `StatusWasAnnounced`. `Known` is, per ticket, TODO, the
  statuses announced, and those an update has written and is about to announce
  (`Pending`); it never shrinks (`KnownKept`). `StatusInv` says that the status of
  every ticket, and the `oldStatus` of every call that has not written yet, is
  known: what such a call writes is that `oldStatus` or becomes pending with the
  write, and a stale column it leaves alone was known (`MergeType`).

- `DeletedStayGone`: `GoneForGood`, an action property that needs no more than `TypeOK`.
  A call about a ticket that is over goes on with a deletion or fails, and no call begins
  to be about it, since its query would have to find the row (`OverActs`); so the step
  inserts nothing and tells only of the deletion (`OverStep`).

`ApartProofs`, for `ApartSpec`, any number of handlers and any faults. Its first lemmas
say that a step is about one ticket or about none (`ActsAbout`) and so leaves what the
other calls are about as it was (`OthersApart`); every invariant below then has to be
looked at for the ticket of the step only.

- `DeletedIsLast`: `NothingAfterDeleted`. `SerialInv` adds that no event and no call is
  about a ticket not yet created (`Bounded`), that a ticket announced as deleted has no
  row and no call about it, and that a call about to announce it has removed the row
  (`DeletedInv`).
- `ConsumersFollow`: `ReplicaMatches`. `FreshInv` says that the row an update is about to
  write is still the one it found, so that `save` writes what `Object.assign` made of it
  (`MergeFresh`). `Follows` says of each ticket that the consumer's row is
  what events can have told of the service's (`Shown`), or becomes it with the event that
  the one call about the ticket is about to record; without faults that is an invariant
  (`ReplayInv`). `PlanToldEffect` says when an event is the first to tell of a plan.
- `HistoryIsUnbroken`: `StatusHistoryIsAChain`. `Tells` adds to it that the chain leads to
  the status of the row, or, while an update is recording, to the `oldStatus` it found,
  from which its event will lead to the status it wrote (`ChainInv`).

`Views` is a recursive function on the events, and what it is needs no induction over
data here: `ViewInv` is an invariant of the *behaviour*, that there is exactly one
function that satisfies the recursion, and that its last value is a table and logs of
the right type. It holds of no events, and a step that records one extends the function
by one value (`ViewRecord`). TLC cannot evaluate `ViewInv`, which quantifies over all
functions; it computes `Views` instead.

`AtomicTicketsProofs`:

- `Refinement`: `ApartSpec => ImplementsAtomicTickets`. `AtomicInv` joins `FreshInv`,
  `SerialInv` and `ViewInv` and adds what the guards of the abstract actions need: a
  deletion still finds its ticket (`Found`), and nothing is told yet of a ticket or a
  comment that is not created (`Commented`, `ToldInv`). `LogTold`, `LogRecord` and `LogCut` say what
  a step does to the abstract log when a call begins to owe events, records one, or
  ends with some left; `RefinementActs` takes one action of the service each.

All three modules assume that `Null` is no row, status, text, plan or number, that TODO is a
status, and that the bounds are numbers. Under `Apart` they say nothing of calls about one
ticket that overlap; the theorems of `TicketsProofs` do.

`AssignmentsProofs`:

- `TypeCorrect`; it includes that no event with a NULL `aggregate_id` is stored.
- `Duplicates`: `DuplicatesAreOverlaps`. `DuplicatesInv` adds that a stored row
  has a handler (`RowsWereInserted`) and that a handler about to insert has no
  row of that pair (`InsertsWithoutOwnRow`): its query saw none, and since then
  only other handlers inserted.
- `AssignedAreAnnounced`: `AssignedIsAnnounced`. `AnnouncedInv` says that, without
  faults, a stored row has its event or a handler that is about to record it
  (`RowsAreAnnounced`), that events and pending records carry the pair of the
  row, and that no event of unassign exists.

`AuthProofs`:

- `TypeCorrect`; it includes that a call that is past its queries, and a user
  who holds a token, have a row.
- `LogoutIsFinal`: `LogoutHolds`. `LogoutInv` adds that no call of a user in
  `loggedOut` is on its way to store a token (`NobodyIsComing`); `refreshToken`
  cannot start one, since the stored hash is Null.
- `Registration`: `RegistrationIsAnnounced`. `RegistrationInv` adds that e-mails
  are unique in the table, that an event names a stored account with its
  e-mail, and that a handler about to record the event of an account is the only
  one and has not recorded it.
- `OrphansCostFaults`: `OrphansAreFaults`. `OrphansInv` adds that the calls about to
  announce an account are finitely many, whatever `Handlers` is, since a step adds at
  most one; then an INSERT adds an orphan and a call, an event takes both away, and a
  call that fails leaves an orphan for its fault.

`GatewayProofs`, for any requests, routes asked for, users, sockets and subjects:

- `TypeCorrect`, `Verdict`, `Strangers`, `RoomMembers`: the invariants of the run, and `Unserved`.
  `ExchangeInv` says of each request (`Exchange`) that a call is there exactly from
  the time it is awaited, that a call without a user is for a route public in the
  gateway, that a handler that has run is of a public route and was let in with an empty body; `PublicRoutes` compares the tables of the two sides. `MembersInv`
  adds to `RoomsHoldUsers` that an open socket stays in the room of its user.
- `Reached`: `UsersAreReached`, an action property from the
  same invariants; that rooms with different prefixes differ (`RoomsDiffer`) is
  what keeps an unsubscription from taking a socket out of its user's room.

They assume that `Null` is no user, status, call or room, and that the requests ask
for routes there are.

The step lemmas treat one action of `Next` each; lemmas about operators (`Merge`,
`Caught`, `Current` and `OldestPending` in `Outbox`, `Owed` and the concatenation of logs in
`Tickets`) are stated once. TLC checked each inductive invariant before it was proved,
`ViewInv` excepted.

Model-checked only: liveness (`PublishedUnlessLost`, `SettledUnlessLost`,
`EveryRequestIsAnswered`), which is beyond the prover. Every safety property and every
action property of the passing runs is a theorem.

## Plan

In this order, each with its runs, and the theorems that follow.

1. Done: `Outbox` and its proofs; `Tickets`; `Assignments` and `Auth` with
   their proofs; `Channel` and the theorems about one relay.
2. Done: `Requests`, `Notifications` and their composition `Gateway`, with the proofs
   of all their safety and action properties.
3. Done: the theorems about `Tickets` for overlapping calls; for calls about one ticket
   that do not overlap, what its consumers learn, and the refinement of
   `AtomicTickets`; the count of unannounced accounts in `Auth`.
4. Left: an abstract specification each for `Assignments` and `Auth`, and its refinement, as
   for the outbox and the tickets.

## Not modelled

- The interceptors, the mapping to responses, the texts of errors and logging: they
  decide nothing.
- The notification service: each handler logs and returns.
- The Redis service, `KafkaService.send` and `subscribeToResponseOf`,
  `UsersService.update` and `delete`: nothing calls them.
- Queries (`findAll`, `findOne`, `findByTicket`, `findByUser`): they change no state and
  do not feed a later write, and what they return is the database's answer to
  one statement. In `Requests` their routes are handlers like any other.
- Contracts: types and constants, which appear as the records of the modules
  that use them, and as the missing decorators `ValidationPipe` is about.
- Connecting to and closing Kafka, the modules' wiring beyond the routes, and the
  front end, which the repository only describes.
