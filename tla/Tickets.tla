------------------------------ MODULE Tickets -------------------------------
(***************************************************************************)
(* The ticket service: TicketsService and CommentsService, handler calls   *)
(* that may run concurrently, and the rows they add to the outbox.         *)
(*                                                                         *)
(* A call is a chain of awaited statements; between two of them any other  *)
(* call may run, and after any of them the call may end in an error or     *)
(* with its process.  No transaction spans two statements.  save(entity)   *)
(* of an entity that has an id is a SELECT followed by an INSERT or an     *)
(* UPDATE of the columns that differ, as in module Outbox.                 *)
(*                                                                         *)
(* A row is three columns here, told apart by what tells of them: the      *)
(* status, the texts that TICKET_CREATED carries too, and the plan that it *)
(* leaves out, which is sprint_id; estimated_hours, a second one that is   *)
(* treated like it, is left out.  So are project_id, reporter_id and       *)
(* parent_ticket_id, which are set when a ticket is created, never again.  *)
(*                                                                         *)
(* The relay of module Outbox takes over from `events'.                    *)
(***************************************************************************)
EXTENDS Naturals, Sequences

CONSTANTS
  Handlers,     \* handler calls in progress at the same time
  Statuses,     \* the values of TicketStatus that updates set
  Texts,        \* title, description, type and priority together
  Plans,        \* values of sprintId, where it is set
  Todo,         \* TicketStatus.TODO, the default of the column
  Null,         \* SQL NULL, the property a DTO lacks, the row not there
  MaxTickets,   \* bound: tickets created; they are numbered in that order
  MaxComments,  \* bound: comments created
  MaxCalls,     \* bound: calls that get past their first query
  MaxFaults     \* bound: calls that end in an error or a crash

ASSUME NullAssumption == Null \notin Statuses \cup Texts \cup Plans \cup Nat
ASSUME TodoAssumption == Todo \in Statuses
ASSUME BoundsAssumption ==
  /\ MaxTickets \in Nat /\ MaxComments \in Nat
  /\ MaxCalls \in Nat /\ MaxFaults \in Nat

VARIABLES
  ticket,     \* table tickets
  comment,    \* table comments: the ticket_id of each
  events,     \* the rows added to the outbox, in the order of their commit
  call,       \* what each handler is executing
  born,       \* tickets and comments ever created
  calls,      \* counts calls against MaxCalls
  faults      \* counts faults against MaxFaults

vars == <<ticket, comment, events, call, born, calls, faults>>

Tickets == 1..MaxTickets
Comments == 1..MaxComments
Columns == {"status", "text", "plan"}
Row == [status: Statuses, text: Texts, plan: Plans \cup {Null}]
Dto ==
  [status: Statuses \cup {Null}, text: Texts \cup {Null}, plan: Plans \cup {Null}]
Idle == [at |-> "idle"]

ASSUME NoRowAssumption == Null \notin Row

-----------------------------------------------------------------------------
(* Helpers.                                                                *)

\* Mutant of Assign: absent properties are copied too.
AssignAll(row, dto) == [c \in Columns |-> dto[c]]

\* Object.assign(ticket, updateTicketDto): the properties the DTO has.
Assign(row, dto) ==
  [c \in Columns |-> IF dto[c] = Null THEN row[c] ELSE dto[c]]

\* What the second statement of save() makes of the row `current'.
Merge(current, base, entity) ==
  CASE base = Null -> entity
    [] base # Null /\ current = Null -> Null
    [] OTHER -> [c \in Columns |->
                   IF entity[c] # base[c] THEN entity[c] ELSE current[c]]

Begin(h, activity) ==
  /\ calls < MaxCalls
  /\ calls' = calls + 1
  /\ call[h] = Idle
  /\ call' = [call EXCEPT ![h] = activity]

Continue(h, place) == call' = [call EXCEPT ![h].at = place]
Return(h) == call' = [call EXCEPT ![h] = Idle]

\* createOutboxEvent, which is awaited before the call goes on.
Record(event) == events' = Append(events, event)

-----------------------------------------------------------------------------
(* TicketsService.create: INSERT, and the event, which carries the saved     *)
(* row but for estimatedHours, sprintId and parentTicketId.                *)

CreateTicket(h, text, plan) ==
  /\ born.tickets < MaxTickets
  /\ LET t == born.tickets + 1 IN
       /\ Begin(h, [at |-> "recordCreated", ticket |-> t, text |-> text])
       /\ ticket' = [ticket EXCEPT ![t] =
                        [status |-> Todo, text |-> text, plan |-> plan]]
       /\ born' = [born EXCEPT !.tickets = t]
  /\ UNCHANGED <<comment, events, faults>>

RecordCreated(h) ==
  /\ call[h].at = "recordCreated"
  /\ Record([type |-> "TICKET_CREATED", ticket |-> call[h].ticket,
             status |-> Todo, text |-> call[h].text])
  /\ Return(h)
  /\ UNCHANGED <<ticket, comment, born, calls, faults>>

(* TicketsService.update: findOne (404 when there is none), Object.assign, *)
(* save, TICKET_UPDATED, and TICKET_STATUS_CHANGED when the DTO has a      *)
(* status other than the one that was found.                               *)

\* Mutant of FindForUpdate: oldStatus is read after Object.assign.
FindForUpdateLate(h, t, dto) ==
  /\ ticket[t] # Null
  /\ Begin(h, [at |-> "select", ticket |-> t, dto |-> dto, loaded |-> Null,
               oldStatus |-> Assign(ticket[t], dto).status,
               entity |-> Assign(ticket[t], dto)])
  /\ UNCHANGED <<ticket, comment, events, born, faults>>

FindForUpdate(h, t, dto) ==
  /\ ticket[t] # Null
  /\ Begin(h, [at |-> "select", ticket |-> t, dto |-> dto, loaded |-> Null,
               oldStatus |-> ticket[t].status,
               entity |-> Assign(ticket[t], dto)])
  /\ UNCHANGED <<ticket, comment, events, born, faults>>

SelectForUpdate(h) ==
  /\ call[h].at = "select"
  /\ call' = [call EXCEPT ![h].at = "write", ![h].loaded = ticket[call[h].ticket]]
  /\ UNCHANGED <<ticket, comment, events, born, calls, faults>>

WriteUpdate(h) ==
  /\ call[h].at = "write"
  /\ LET c == call[h] IN
       /\ ~ (c.loaded = Null /\ ticket[c.ticket] # Null)
       /\ ticket' = [ticket EXCEPT ![c.ticket] = Merge(@, c.loaded, c.entity)]
  /\ Continue(h, "recordUpdated")
  /\ UNCHANGED <<comment, events, born, calls, faults>>

\* The INSERT of a ticket deleted meanwhile, which another call re-inserted.
WriteConflicts(h) ==
  /\ call[h].at = "write"
  /\ call[h].loaded = Null /\ ticket[call[h].ticket] # Null
  /\ Return(h)
  /\ UNCHANGED <<ticket, comment, events, born, calls, faults>>

\* Mutant of RecordUpdated: a status change is recorded instead of the update.
RecordUpdatedOrStatus(h) ==
  /\ call[h].at = "recordUpdated"
  /\ LET c == call[h] IN
       IF c.dto.status # Null /\ c.oldStatus # c.dto.status
       THEN Continue(h, "recordStatusChanged") /\ UNCHANGED events
       ELSE /\ Record([type |-> "TICKET_UPDATED", ticket |-> c.ticket,
                       status |-> c.dto.status, text |-> c.dto.text,
                       plan |-> c.dto.plan])
            /\ Return(h)
  /\ UNCHANGED <<ticket, comment, born, calls, faults>>

RecordUpdated(h) ==
  /\ call[h].at = "recordUpdated"
  /\ LET c == call[h] IN
       /\ Record([type |-> "TICKET_UPDATED", ticket |-> c.ticket,
                  status |-> c.dto.status, text |-> c.dto.text,
                  plan |-> c.dto.plan])
       /\ IF c.dto.status # Null /\ c.oldStatus # c.dto.status
          THEN Continue(h, "recordStatusChanged")
          ELSE Return(h)
  /\ UNCHANGED <<ticket, comment, born, calls, faults>>

RecordStatusChanged(h) ==
  /\ call[h].at = "recordStatusChanged"
  /\ Record([type |-> "TICKET_STATUS_CHANGED", ticket |-> call[h].ticket,
             oldStatus |-> call[h].oldStatus, newStatus |-> call[h].dto.status])
  /\ Return(h)
  /\ UNCHANGED <<ticket, comment, born, calls, faults>>

(* TicketsService.delete: findOne (404), remove, TICKET_DELETED.           *)

\* Mutant of FindForDelete: the event is recorded before the removal.
AnnounceDelete(h, t) ==
  /\ ticket[t] # Null
  /\ Begin(h, [at |-> "remove", ticket |-> t])
  /\ Record([type |-> "TICKET_DELETED", ticket |-> t])
  /\ UNCHANGED <<ticket, comment, born, faults>>

FindForDelete(h, t) ==
  /\ ticket[t] # Null
  /\ Begin(h, [at |-> "remove", ticket |-> t])
  /\ UNCHANGED <<ticket, comment, events, born, faults>>

\* Mutant of RemoveTicket: the call returns after the removal.
RemoveUnannounced(h) ==
  /\ call[h].at = "remove"
  /\ ticket' = [ticket EXCEPT ![call[h].ticket] = Null]
  /\ comment' = [c \in Comments |->
                   IF comment[c] = call[h].ticket THEN Null ELSE comment[c]]
  /\ Return(h)
  /\ UNCHANGED <<events, born, calls, faults>>

\* DELETE by id, silent when the row is gone; comments go by ON DELETE CASCADE.
RemoveTicket(h) ==
  /\ call[h].at = "remove"
  /\ ticket' = [ticket EXCEPT ![call[h].ticket] = Null]
  /\ comment' = [c \in Comments |->
                   IF comment[c] = call[h].ticket THEN Null ELSE comment[c]]
  /\ Continue(h, "recordDeleted")
  /\ UNCHANGED <<events, born, calls, faults>>

RecordDeleted(h) ==
  /\ call[h].at = "recordDeleted"
  /\ Record([type |-> "TICKET_DELETED", ticket |-> call[h].ticket])
  /\ Return(h)
  /\ UNCHANGED <<ticket, comment, born, calls, faults>>

(* CommentsService.create: INSERT, which the foreign key refuses when the  *)
(* ticket does not exist (nobody looks before), then the event.            *)

\* Mutant of CreateComment: no foreign key refuses the INSERT.
CreateCommentUnchecked(h, t) ==
  /\ t <= born.tickets
  /\ born.comments < MaxComments
  /\ LET c == born.comments + 1 IN
       /\ Begin(h, [at |-> "recordComment", ticket |-> t, comment |-> c])
       /\ comment' = [comment EXCEPT ![c] = t]
       /\ born' = [born EXCEPT !.comments = c]
  /\ UNCHANGED <<ticket, events, faults>>

CreateComment(h, t) ==
  /\ ticket[t] # Null
  /\ born.comments < MaxComments
  /\ LET c == born.comments + 1 IN
       /\ Begin(h, [at |-> "recordComment", ticket |-> t, comment |-> c])
       /\ comment' = [comment EXCEPT ![c] = t]
       /\ born' = [born EXCEPT !.comments = c]
  /\ UNCHANGED <<ticket, events, faults>>

RecordComment(h) ==
  /\ call[h].at = "recordComment"
  /\ Record([type |-> "TICKET_COMMENT_ADDED", ticket |-> call[h].ticket,
             comment |-> call[h].comment])
  /\ Return(h)
  /\ UNCHANGED <<ticket, comment, born, calls, faults>>

(* CommentsService.delete: findOne (404), remove, no event.                *)

FindComment(h, c) ==
  /\ comment[c] # Null
  /\ Begin(h, [at |-> "removeComment", comment |-> c])
  /\ UNCHANGED <<ticket, comment, events, born, faults>>

RemoveComment(h) ==
  /\ call[h].at = "removeComment"
  /\ comment' = [comment EXCEPT ![call[h].comment] = Null]
  /\ Return(h)
  /\ UNCHANGED <<ticket, events, born, calls, faults>>

\* A statement is refused, or the process ends: the call does nothing more.
CallFails(h) ==
  /\ call[h] # Idle
  /\ faults < MaxFaults
  /\ faults' = faults + 1
  /\ Return(h)
  /\ UNCHANGED <<ticket, comment, events, born, calls>>

-----------------------------------------------------------------------------
Init ==
  /\ ticket = [t \in Tickets |-> Null]
  /\ comment = [c \in Comments |-> Null]
  /\ events = <<>>
  /\ call = [h \in Handlers |-> Idle]
  /\ born = [tickets |-> 0, comments |-> 0]
  /\ calls = 0
  /\ faults = 0

Start(h) ==
  \/ \E text \in Texts, plan \in Plans \cup {Null} : CreateTicket(h, text, plan)
  \/ \E t \in Tickets :
       \/ \E dto \in Dto : FindForUpdate(h, t, dto)
       \/ FindForDelete(h, t)
       \/ CreateComment(h, t)
  \/ \E c \in Comments : FindComment(h, c)

Step(h) ==
  \/ RecordCreated(h)
  \/ SelectForUpdate(h) \/ WriteUpdate(h) \/ WriteConflicts(h)
  \/ RecordUpdated(h) \/ RecordStatusChanged(h)
  \/ RemoveTicket(h) \/ RecordDeleted(h)
  \/ RecordComment(h) \/ RemoveComment(h)

Next == \E h \in Handlers : Start(h) \/ Step(h) \/ CallFails(h)

Spec == Init /\ [][Next]_vars

-----------------------------------------------------------------------------
(* Type invariant.                                                         *)

UpdateCalls ==
  [at: {"select", "write", "recordUpdated", "recordStatusChanged"},
   ticket: Tickets, dto: Dto, loaded: Row \cup {Null}, oldStatus: Statuses,
   entity: Row]

DeleteCalls == [at: {"remove", "recordDeleted"}, ticket: Tickets]

Calls ==
  {Idle}
  \cup [at: {"recordCreated"}, ticket: Tickets, text: Texts]
  \cup UpdateCalls
  \cup DeleteCalls
  \cup [at: {"recordComment"}, ticket: Tickets, comment: Comments]
  \cup [at: {"removeComment"}, comment: Comments]

Events ==
  [type: {"TICKET_CREATED"}, ticket: Tickets, status: {Todo}, text: Texts]
  \cup [type: {"TICKET_UPDATED"}, ticket: Tickets, status: Statuses \cup {Null},
        text: Texts \cup {Null}, plan: Plans \cup {Null}]
  \cup [type: {"TICKET_STATUS_CHANGED"}, ticket: Tickets, oldStatus: Statuses,
        newStatus: Statuses]
  \cup [type: {"TICKET_DELETED"}, ticket: Tickets]
  \cup [type: {"TICKET_COMMENT_ADDED"}, ticket: Tickets, comment: Comments]

TypeOK ==
  /\ ticket \in [Tickets -> Row \cup {Null}]
  /\ comment \in [Comments -> Tickets \cup {Null}]
  /\ events \in Seq(Events)
  /\ call \in [Handlers -> Calls]
  /\ \A h \in Handlers :
       call[h].at = "recordStatusChanged" => call[h].dto.status # Null
  /\ born \in [tickets: 0..MaxTickets, comments: 0..MaxComments]
  /\ calls \in 0..MaxCalls
  /\ faults \in 0..MaxFaults

-----------------------------------------------------------------------------
(* What the events say.                                                    *)

Quiet == \A h \in Handlers : call[h] = Idle

\* The call is about the ticket it names.
Talks(h) == call[h].at \notin {"idle", "removeComment"}

\* Calls about one ticket come one after the other.  Nothing in the code sees to
\* that; it is what the properties under ApartSpec take.
Apart ==
  \A g, h \in Handlers :
    (g # h /\ Talks(g) /\ Talks(h)) => call[g].ticket # call[h].ticket

ApartSpec == Init /\ [][Next /\ Apart']_vars

\* The table a consumer arrives at that applies the events in their order.
Apply(table, event) ==
  LET t == event.ticket IN
  CASE event.type = "TICKET_CREATED" ->
         [table EXCEPT ![t] =
            [status |-> event.status, text |-> event.text, plan |-> Null]]
    [] event.type = "TICKET_UPDATED" /\ table[t] # Null ->
         [table EXCEPT ![t] = Assign(@, event)]
    [] event.type = "TICKET_DELETED" -> [table EXCEPT ![t] = Null]
    [] OTHER -> table

NoTickets == [t \in Tickets |-> Null]

\* What a consumer has: its table, and the events about each ticket.
NothingSeen == [table |-> NoTickets, told |-> [t \in Tickets |-> <<>>]]

Seen(view, event) ==
  [table |-> Apply(view.table, event),
   told |-> [view.told EXCEPT ![event.ticket] = Append(@, event)]]

\* What it has after each number of events.
Views[n \in 0..Len(events)] ==
  IF n = 0 THEN NothingSeen ELSE Seen(Views[n - 1], events[n])

View == Views[Len(events)]
Replica == View.table

\* Where the status changes of a ticket are among the events.
StatusChanges(t) ==
  {i \in DOMAIN events :
     events[i].type = "TICKET_STATUS_CHANGED" /\ events[i].ticket = t}

\* The status that the changes before position n lead to.
IsReached(t, n, status) ==
  \/ status = Todo /\ \A i \in StatusChanges(t) : n <= i
  \/ \E i \in StatusChanges(t) :
       /\ i < n /\ events[i].newStatus = status
       /\ \A j \in StatusChanges(t) : j <= i \/ n <= j

StatusIsTold(t) ==
  ticket[t] # Null => IsReached(t, Len(events) + 1, ticket[t].status)

\* An update has told of the plan of a ticket, which its creation does not.
PlanIsTold(t) ==
  \E i \in DOMAIN events :
    events[i].type = "TICKET_UPDATED" /\ events[i].ticket = t /\ events[i].plan # Null

Visible(row, planIsTold) == IF planIsTold THEN row ELSE [row EXCEPT !.plan = Null]

\* What events can have told of a ticket: its row, but for a plan that it was
\* created with and no update has set.
Shown(t) ==
  IF ticket[t] = Null THEN Null ELSE Visible(ticket[t], PlanIsTold(t))

\* ApartSpec, no fault: a consumer of the events of a quiet service has its
\* tickets, but for the plans they were created with.
ReplicaMatches ==
  (Quiet /\ faults = 0) => \A t \in Tickets : Replica[t] = Shown(t)

\* ApartSpec, no fault: the status events of a ticket form an unbroken
\* chain from TODO to its present status.
StatusHistoryIsAChain ==
  (Quiet /\ faults = 0) =>
    \A t \in Tickets :
      /\ \A i \in StatusChanges(t) : IsReached(t, i, events[i].oldStatus)
      /\ StatusIsTold(t)

\* ApartSpec, with faults: TICKET_DELETED is the last word about a
\* ticket, from updates and comments alike.
NothingAfterDeleted ==
  \A i, j \in DOMAIN events :
    (i < j /\ events[i].type = "TICKET_DELETED")
      => events[j].ticket # events[i].ticket

\* Any number of concurrent calls, no fault: a ticket that has gone was
\* announced as deleted.
GoneIsAnnounced ==
  (Quiet /\ faults = 0) =>
    \A t \in 1..born.tickets :
      ticket[t] = Null =>
        \E i \in DOMAIN events :
          events[i].type = "TICKET_DELETED" /\ events[i].ticket = t

\* Any number of concurrent calls, no fault: whatever stale columns updates
\* write over each other, a ticket's status was announced before.
StatusWasAnnounced ==
  (Quiet /\ faults = 0) =>
    \A t \in 1..born.tickets :
      (ticket[t] # Null /\ ticket[t].status # Todo) =>
        \E i \in DOMAIN events :
          /\ events[i].type = "TICKET_STATUS_CHANGED"
          /\ events[i].ticket = t
          /\ events[i].newStatus = ticket[t].status

\* A ticket that was created and is gone, which no call but deletions is about.
Over(t) ==
  /\ t <= born.tickets
  /\ ticket[t] = Null
  /\ \A h \in Handlers :
       (Talks(h) /\ call[h].ticket = t) => call[h].at \in {"remove", "recordDeleted"}

\* Any number of concurrent calls and faults: only a call that was already in
\* progress can insert a deleted ticket again, or tell of it.  Once none is left
\* the ticket stays gone, and what is told of it is that it was deleted.
GoneForGood ==
  [][\A t \in Tickets :
       Over(t) =>
         /\ Over(t)'
         /\ \A i \in DOMAIN events' \ DOMAIN events :
              events'[i].ticket = t => events'[i].type = "TICKET_DELETED"]_vars

-----------------------------------------------------------------------------
(* The service as its consumers may think of it.                           *)

\* The events that a call has yet to record.
Owed(c) ==
  LET updated == [type |-> "TICKET_UPDATED", ticket |-> c.ticket,
                  status |-> c.dto.status, text |-> c.dto.text, plan |-> c.dto.plan]
      changed == [type |-> "TICKET_STATUS_CHANGED", ticket |-> c.ticket,
                  oldStatus |-> c.oldStatus, newStatus |-> c.dto.status]
  IN
  CASE c.at = "recordCreated" ->
         <<[type |-> "TICKET_CREATED", ticket |-> c.ticket, status |-> Todo,
            text |-> c.text]>>
    [] c.at = "recordUpdated" ->
         IF c.dto.status \in {Null, c.oldStatus} THEN <<updated>>
         ELSE <<updated, changed>>
    [] c.at = "recordStatusChanged" -> <<changed>>
    [] c.at = "recordDeleted" -> <<[type |-> "TICKET_DELETED", ticket |-> c.ticket]>>
    [] c.at = "recordComment" ->
         <<[type |-> "TICKET_COMMENT_ADDED", ticket |-> c.ticket,
            comment |-> c.comment]>>
    [] OTHER -> <<>>

\* The events about a ticket that are recorded, and those still owed.
Log(t) ==
  LET callers == {h \in Handlers : Talks(h) /\ call[h].ticket = t} IN
  View.told[t] \o IF callers = {} THEN <<>>
                  ELSE Owed(call[CHOOSE h \in callers : TRUE])

A == INSTANCE AtomicTickets WITH
       table <- ticket,
       log <- [t \in Tickets |-> Log(t)]

\* ApartSpec: the write of a call and the events it goes on to record are one
\* step, of which a fault takes events only, the last ones.
ImplementsAtomicTickets == A!Spec

-----------------------------------------------------------------------------
\* What createOutboxEvent and the README promise: the business operation and
\* its event are atomic, so no change of a quiet service lacks an event that it
\* has when nothing fails, TICKET_STATUS_CHANGED among them.
EveryChangeIsRecorded ==
  Quiet => \A t \in Tickets : Replica[t] = Shown(t) /\ StatusIsTold(t)
=============================================================================
