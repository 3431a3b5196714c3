----------------------------- MODULE TicketsProofs -----------------------------
(***************************************************************************)
(* Theorems about Tickets, for any handlers, columns and bounds.           *)
(***************************************************************************)
EXTENDS Tickets, TLAPS

-----------------------------------------------------------------------------
(* Type correctness.                                                       *)

UpdatePlaces == {"select", "write", "recordUpdated", "recordStatusChanged"}

\* What the fields of a call are, by the place it has reached.
LEMMA CallFields ==
  ASSUME NEW c \in Calls
  PROVE  /\ c.at = "recordCreated" => c.ticket \in Tickets /\ c.text \in Texts
         /\ c.at \in UpdatePlaces => c \in UpdateCalls
         /\ c.at \in {"remove", "recordDeleted"} => c \in DeleteCalls
         /\ c.at = "recordComment" => c.ticket \in Tickets /\ c.comment \in Comments
         /\ c.at = "removeComment" => c.comment \in Comments
BY DEF Calls, Idle, UpdateCalls, DeleteCalls, UpdatePlaces

\* Object.assign keeps a row a row, and the status is the old one or the
\* DTO's.
LEMMA AssignType ==
  ASSUME NEW row \in Row, NEW dto \in Dto
  PROVE  /\ Assign(row, dto) \in Row
         /\ Assign(row, dto).status =
              IF dto.status = Null THEN row.status ELSE dto.status
<1>1. Assign(row, dto) =
        [status |-> IF dto.status = Null THEN row.status ELSE dto.status,
         text   |-> IF dto.text = Null THEN row.text ELSE dto.text,
         plan   |-> IF dto.plan = Null THEN row.plan ELSE dto.plan]
  BY DEF Assign, Columns
<1> QED  BY <1>1 DEF Row, Dto

\* A save of an entity writes it, writes nothing, or leaves a row that has the
\* status of the entity or of the row before.
LEMMA MergeType ==
  ASSUME NEW current \in Row \cup {Null}, NEW base \in Row \cup {Null},
         NEW entity \in Row
  PROVE  /\ Merge(current, base, entity) \in Row \cup {Null}
         /\ Merge(current, base, entity) = Null => current = Null
         /\ Merge(current, base, entity) # Null =>
              \/ Merge(current, base, entity).status = entity.status
              \/ /\ current # Null
                 /\ Merge(current, base, entity).status = current.status
<1>1. CASE base = Null
  BY <1>1, NoRowAssumption DEF Merge
<1>2. CASE base # Null /\ current = Null
  BY <1>2 DEF Merge
<1>3. CASE base # Null /\ current # Null
  <2>1. Merge(current, base, entity) =
          [status |-> IF entity.status # base.status THEN entity.status
                      ELSE current.status,
           text   |-> IF entity.text # base.text THEN entity.text
                      ELSE current.text,
           plan   |-> IF entity.plan # base.plan THEN entity.plan
                      ELSE current.plan]
    BY <1>3 DEF Merge, Columns
  <2>2. Merge(current, base, entity) \in Row
    BY <1>3, <2>1 DEF Row
  <2> QED  BY <1>3, <2>1, <2>2, NoRowAssumption
<1> QED  BY <1>1, <1>2, <1>3

LEMMA RecordType ==
  ASSUME TypeOK, NEW event \in Events, Record(event)
  PROVE  events' \in Seq(Events)
<1>1. events \in Seq(Events)
  BY DEF TypeOK
<1> HIDE DEF Events
<1> QED  BY <1>1 DEF Record

LEMMA BeginType ==
  ASSUME TypeOK, NEW h \in Handlers, NEW c \in Calls, Begin(h, c),
         c.at # "recordStatusChanged"
  PROVE  /\ calls' \in 0..MaxCalls
         /\ call' \in [Handlers -> Calls]
         /\ \A g \in Handlers :
              call'[g].at = "recordStatusChanged" => call'[g].dto.status # Null
BY BoundsAssumption DEF TypeOK, Begin

LEMMA ReturnType ==
  ASSUME TypeOK, NEW h \in Handlers, Return(h)
  PROVE  /\ call' \in [Handlers -> Calls]
         /\ \A g \in Handlers :
              call'[g].at = "recordStatusChanged" => call'[g].dto.status # Null
BY DEF TypeOK, Return, Calls, Idle

LEMMA ContinueType ==
  ASSUME TypeOK, NEW h \in Handlers, NEW c \in Calls,
         call' = [call EXCEPT ![h] = c],
         c.at = "recordStatusChanged" => c.dto.status # Null
  PROVE  /\ call' \in [Handlers -> Calls]
         /\ \A g \in Handlers :
              call'[g].at = "recordStatusChanged" => call'[g].dto.status # Null
BY DEF TypeOK

\* Each record a call adds to the outbox is one of Events.
LEMMA EventType ==
  ASSUME TypeOK, NEW h \in Handlers
  PROVE  /\ call[h].at = "recordCreated" =>
              [type |-> "TICKET_CREATED", ticket |-> call[h].ticket,
               status |-> Todo, text |-> call[h].text] \in Events
         /\ call[h].at = "recordUpdated" =>
              [type |-> "TICKET_UPDATED", ticket |-> call[h].ticket,
               status |-> call[h].dto.status, text |-> call[h].dto.text,
               plan |-> call[h].dto.plan] \in Events
         /\ call[h].at = "recordStatusChanged" =>
              [type |-> "TICKET_STATUS_CHANGED", ticket |-> call[h].ticket,
               oldStatus |-> call[h].oldStatus,
               newStatus |-> call[h].dto.status] \in Events
         /\ call[h].at = "recordDeleted" =>
              [type |-> "TICKET_DELETED", ticket |-> call[h].ticket] \in Events
         /\ call[h].at = "recordComment" =>
              [type |-> "TICKET_COMMENT_ADDED", ticket |-> call[h].ticket,
               comment |-> call[h].comment] \in Events
<1>1. call[h] \in Calls
      /\ (call[h].at = "recordStatusChanged" => call[h].dto.status # Null)
  BY DEF TypeOK
<1> QED  BY <1>1, CallFields
         DEF Events, UpdatePlaces, UpdateCalls, DeleteCalls, Dto

LEMMA TypeStep == TypeOK /\ [Next]_vars => TypeOK'
<1> SUFFICES ASSUME TypeOK, [Next]_vars PROVE TypeOK'
  OBVIOUS
<1>1. ASSUME NEW h \in Handlers, NEW text \in Texts, NEW plan \in Plans \cup {Null},
             CreateTicket(h, text, plan)
      PROVE  TypeOK'
  <2> DEFINE t == born.tickets + 1
  <2>1. t \in Tickets /\ born' \in [tickets: 0..MaxTickets, comments: 0..MaxComments]
    BY <1>1, BoundsAssumption DEF TypeOK, CreateTicket, Tickets
  <2>2. [at |-> "recordCreated", ticket |-> t, text |-> text] \in Calls
    BY <2>1 DEF Calls
  <2>3. ticket' \in [Tickets -> Row \cup {Null}]
    BY <1>1, TodoAssumption DEF TypeOK, CreateTicket, Row
  <2> QED  BY <1>1, <2>1, <2>2, <2>3, BeginType DEF TypeOK, CreateTicket
<1>2. ASSUME NEW h \in Handlers, RecordCreated(h)
      PROVE  TypeOK'
  BY <1>2, EventType, RecordType, ReturnType DEF TypeOK, RecordCreated
<1>3. ASSUME NEW h \in Handlers, NEW t \in Tickets, NEW dto \in Dto,
             FindForUpdate(h, t, dto)
      PROVE  TypeOK'
  <2>1. ticket[t] \in Row
    BY <1>3 DEF TypeOK, FindForUpdate
  <2>2. [at |-> "select", ticket |-> t, dto |-> dto, loaded |-> Null,
         oldStatus |-> ticket[t].status, entity |-> Assign(ticket[t], dto)]
          \in Calls
    BY <2>1, AssignType DEF Calls, UpdateCalls, Row
  <2> QED  BY <1>3, <2>2, BeginType DEF TypeOK, FindForUpdate
<1>4. ASSUME NEW h \in Handlers, SelectForUpdate(h)
      PROVE  TypeOK'
  <2> DEFINE c == [call[h] EXCEPT !.at = "write", !.loaded = ticket[call[h].ticket]]
  <2>1. call[h] \in UpdateCalls
    BY <1>4, CallFields DEF TypeOK, SelectForUpdate, UpdatePlaces
  <2>2. c \in Calls /\ c.at = "write"
    BY <2>1 DEF TypeOK, Calls, UpdateCalls
  <2>3. call' = [call EXCEPT ![h] = c]
    BY <1>4 DEF SelectForUpdate
  <2> QED  BY <1>4, <2>2, <2>3 DEF TypeOK, SelectForUpdate
<1>5. ASSUME NEW h \in Handlers, WriteUpdate(h)
      PROVE  TypeOK'
  <2> DEFINE c == [call[h] EXCEPT !.at = "recordUpdated"]
  <2>1. call[h] \in UpdateCalls
    BY <1>5, CallFields DEF TypeOK, WriteUpdate, UpdatePlaces
  <2>2. ticket' \in [Tickets -> Row \cup {Null}]
    <3>1. call[h].ticket \in Tickets /\ call[h].loaded \in Row \cup {Null}
          /\ call[h].entity \in Row
      BY <2>1 DEF UpdateCalls
    <3>2. Merge(ticket[call[h].ticket], call[h].loaded, call[h].entity)
            \in Row \cup {Null}
      BY <3>1, MergeType DEF TypeOK
    <3> QED  BY <1>5, <3>1, <3>2 DEF TypeOK, WriteUpdate
  <2>3. c \in Calls /\ c.at = "recordUpdated"
    BY <2>1 DEF Calls, UpdateCalls
  <2>4. call' = [call EXCEPT ![h] = c]
    BY <1>5 DEF WriteUpdate, Continue
  <2> HIDE DEF c
  <2> QED  BY <1>5, <2>2, <2>3, <2>4, ContinueType DEF TypeOK, WriteUpdate
<1>6. ASSUME NEW h \in Handlers, WriteConflicts(h)
      PROVE  TypeOK'
  BY <1>6, ReturnType DEF TypeOK, WriteConflicts
<1>7. ASSUME NEW h \in Handlers, RecordUpdated(h)
      PROVE  TypeOK'
  <2>1. call[h] \in UpdateCalls
    BY <1>7, CallFields DEF TypeOK, RecordUpdated, UpdatePlaces
  <2>2. events' \in Seq(Events)
    BY <1>7, EventType, RecordType DEF RecordUpdated
  <2>3. CASE call[h].dto.status # Null /\ call[h].oldStatus # call[h].dto.status
    <3> DEFINE c == [call[h] EXCEPT !.at = "recordStatusChanged"]
    <3>1. c \in Calls /\ c.dto = call[h].dto
      BY <2>1 DEF Calls, UpdateCalls
    <3>2. call' = [call EXCEPT ![h] = c]
      BY <1>7, <2>3 DEF RecordUpdated, Continue
    <3> HIDE DEF c
    <3> QED  BY <1>7, <2>2, <2>3, <3>1, <3>2, ContinueType
             DEF TypeOK, RecordUpdated
  <2>4. CASE ~ (call[h].dto.status # Null /\ call[h].oldStatus # call[h].dto.status)
    BY <1>7, <2>2, <2>4, ReturnType DEF TypeOK, RecordUpdated
  <2> QED  BY <2>3, <2>4
<1>8. ASSUME NEW h \in Handlers, RecordStatusChanged(h)
      PROVE  TypeOK'
  BY <1>8, EventType, RecordType, ReturnType DEF TypeOK, RecordStatusChanged
<1>9. ASSUME NEW h \in Handlers, NEW t \in Tickets, FindForDelete(h, t)
      PROVE  TypeOK'
  <2>1. [at |-> "remove", ticket |-> t] \in Calls
    BY DEF Calls, DeleteCalls
  <2> QED  BY <1>9, <2>1, BeginType DEF TypeOK, FindForDelete
<1>10. ASSUME NEW h \in Handlers, RemoveTicket(h)
       PROVE  TypeOK'
  <2> DEFINE c == [call[h] EXCEPT !.at = "recordDeleted"]
  <2>1. call[h] \in DeleteCalls
    BY <1>10, CallFields DEF TypeOK, RemoveTicket
  <2>2. c \in Calls /\ c.at = "recordDeleted"
    BY <2>1 DEF Calls, DeleteCalls
  <2>3. call' = [call EXCEPT ![h] = c]
    BY <1>10 DEF RemoveTicket, Continue
  <2>4. ticket' \in [Tickets -> Row \cup {Null}]
        /\ comment' \in [Comments -> Tickets \cup {Null}]
    BY <1>10 DEF TypeOK, RemoveTicket
  <2> HIDE DEF c
  <2> QED  BY <1>10, <2>2, <2>3, <2>4, ContinueType DEF TypeOK, RemoveTicket
<1>11. ASSUME NEW h \in Handlers, RecordDeleted(h)
       PROVE  TypeOK'
  BY <1>11, EventType, RecordType, ReturnType DEF TypeOK, RecordDeleted
<1>12. ASSUME NEW h \in Handlers, NEW t \in Tickets, CreateComment(h, t)
       PROVE  TypeOK'
  <2> DEFINE c == born.comments + 1
  <2>1. c \in Comments /\ born' \in [tickets: 0..MaxTickets, comments: 0..MaxComments]
    BY <1>12, BoundsAssumption DEF TypeOK, CreateComment, Comments
  <2>2. [at |-> "recordComment", ticket |-> t, comment |-> c] \in Calls
    BY <2>1 DEF Calls
  <2> QED  BY <1>12, <2>1, <2>2, BeginType DEF TypeOK, CreateComment
<1>13. ASSUME NEW h \in Handlers, RecordComment(h)
       PROVE  TypeOK'
  BY <1>13, EventType, RecordType, ReturnType DEF TypeOK, RecordComment
<1>14. ASSUME NEW h \in Handlers, NEW c \in Comments, FindComment(h, c)
       PROVE  TypeOK'
  <2>1. [at |-> "removeComment", comment |-> c] \in Calls
    BY DEF Calls
  <2> QED  BY <1>14, <2>1, BeginType DEF TypeOK, FindComment
<1>15. ASSUME NEW h \in Handlers, RemoveComment(h)
       PROVE  TypeOK'
  BY <1>15, ReturnType DEF TypeOK, RemoveComment
<1>16. ASSUME NEW h \in Handlers, CallFails(h)
       PROVE  TypeOK'
  BY <1>16, ReturnType, BoundsAssumption DEF TypeOK, CallFails
<1>17. CASE UNCHANGED vars
  BY <1>17 DEF TypeOK, vars
<1> QED
  BY <1>1, <1>2, <1>3, <1>4, <1>5, <1>6, <1>7, <1>8, <1>9, <1>10, <1>11, <1>12,
     <1>13, <1>14, <1>15, <1>16, <1>17 DEF Next, Start, Step

\* Type correctness: the tables, the outbox and the calls hold what the code
\* puts there, whatever the calls and faults.
THEOREM TypeCorrect == Spec => []TypeOK
<1>1. Init => TypeOK
  BY BoundsAssumption DEF Init, TypeOK, Calls, Idle
<1> QED  BY <1>1, TypeStep, PTL DEF Spec

-----------------------------------------------------------------------------
(* How calls and events change.                                            *)

\* The events of a step are those before, and at most one more.
LEMMA RecordEffect ==
  ASSUME TypeOK, NEW event, Record(event)
  PROVE  /\ DOMAIN events' = DOMAIN events \cup {Len(events) + 1}
         /\ events'[Len(events) + 1] = event
         /\ \A i \in DOMAIN events : events'[i] = events[i] /\ i < Len(events) + 1
<1>1. events \in Seq(Events)
  BY DEF TypeOK
<1> HIDE DEF Events
<1> QED  BY <1>1 DEF Record

\* A step adds one event or none.
LEMMA RecordsOrNot ==
  ASSUME [Next]_vars
  PROVE  (\E event : Record(event)) \/ UNCHANGED events
<1>1. ASSUME NEW h \in Handlers, RecordUpdated(h)
      PROVE  \E event : Record(event)
  BY <1>1 DEF RecordUpdated
<1>2. ASSUME NEW h \in Handlers,
             \/ RecordCreated(h) \/ RecordStatusChanged(h) \/ RecordDeleted(h)
             \/ RecordComment(h)
      PROVE  \E event : Record(event)
  BY <1>2 DEF RecordCreated, RecordStatusChanged, RecordDeleted, RecordComment
<1>3. ASSUME NEW h \in Handlers,
             \/ SelectForUpdate(h) \/ WriteUpdate(h) \/ WriteConflicts(h)
             \/ RemoveTicket(h) \/ RemoveComment(h) \/ CallFails(h)
      PROVE  UNCHANGED events
  BY <1>3 DEF SelectForUpdate, WriteUpdate, WriteConflicts, RemoveTicket,
              RemoveComment, CallFails
<1>4. ASSUME NEW h \in Handlers, Start(h)
      PROVE  UNCHANGED events
  BY <1>4 DEF Start, CreateTicket, FindForUpdate, FindForDelete, CreateComment,
              FindComment
<1>5. CASE UNCHANGED vars
  BY <1>5 DEF vars
<1> QED  BY <1>1, <1>2, <1>3, <1>4, <1>5 DEF Next, Step

Said(type, t) ==
  \E i \in DOMAIN events : events[i].type = type /\ events[i].ticket = t

ChangedTo(t, s) ==
  \E i \in DOMAIN events :
    /\ events[i].type = "TICKET_STATUS_CHANGED"
    /\ events[i].ticket = t
    /\ events[i].newStatus = s

LEMMA SaidKept ==
  ASSUME TypeOK, [Next]_vars
  PROVE  /\ \A type, t : Said(type, t) => Said(type, t)'
         /\ \A t, s : ChangedTo(t, s) => ChangedTo(t, s)'
<1>1. ASSUME \A i \in DOMAIN events : i \in DOMAIN events' /\ events'[i] = events[i]
      PROVE  /\ \A type, t : Said(type, t) => Said(type, t)'
             /\ \A t, s : ChangedTo(t, s) => ChangedTo(t, s)'
  BY <1>1 DEF Said, ChangedTo
<1>2. CASE \E event : Record(event)
  BY <1>1, <1>2, RecordEffect
<1>3. CASE UNCHANGED events
  BY <1>1, <1>3
<1> QED  BY <1>2, <1>3, RecordsOrNot

\* Faults are counted, and never forgotten.
LEMMA FaultsKept ==
  ASSUME TypeOK, [Next]_vars, faults' = 0
  PROVE  faults = 0
<1>1. ASSUME NEW h \in Handlers, Start(h)
      PROVE  UNCHANGED faults
  BY <1>1 DEF Start, CreateTicket, FindForUpdate, FindForDelete, CreateComment,
              FindComment
<1>2. ASSUME NEW h \in Handlers, Step(h)
      PROVE  UNCHANGED faults
  BY <1>2 DEF Step, RecordCreated, SelectForUpdate, WriteUpdate, WriteConflicts,
              RecordUpdated, RecordStatusChanged, RemoveTicket, RecordDeleted,
              RecordComment, RemoveComment
<1>3. ASSUME NEW h \in Handlers, CallFails(h)
      PROVE  FALSE
  <2>1. faults \in Nat /\ faults' = faults + 1
    BY <1>3, BoundsAssumption DEF TypeOK, CallFails
  <2> QED  BY <2>1
<1>4. CASE UNCHANGED vars
  BY <1>4 DEF vars
<1> QED  BY <1>1, <1>2, <1>3, <1>4 DEF Next

-----------------------------------------------------------------------------
(* A ticket that has gone.                                                 *)

\* A ticket without a row was announced as deleted, or a call that removed it
\* is about to.
Gone(t) ==
  ticket[t] = Null =>
    \/ Said("TICKET_DELETED", t)
    \/ \E h \in Handlers : call[h].at = "recordDeleted" /\ call[h].ticket = t

GoneInv == TypeOK /\ (faults = 0 => \A t \in 1..born.tickets : Gone(t))

LEMMA GoneStep == GoneInv /\ [Next]_vars => GoneInv'
<1> SUFFICES ASSUME GoneInv, [Next]_vars, faults' = 0, NEW t \in 1..born'.tickets
             PROVE  Gone(t)'
  BY TypeStep DEF GoneInv
<1> USE DEF GoneInv
<1>1. TypeOK /\ TypeOK'
  BY TypeStep
<1>2. t \in Tickets
  BY <1>1, BoundsAssumption DEF TypeOK, Tickets
<1>3. faults = 0
  BY FaultsKept
<1>4. ASSUME t \in 1..born.tickets, ticket'[t] = Null => ticket[t] = Null,
             \A g \in Handlers : call[g].at = "recordDeleted" => call'[g] = call[g]
      PROVE  Gone(t)'
  BY <1>1, <1>3, <1>4, SaidKept DEF Gone
<1>5. ASSUME NEW h \in Handlers, NEW text \in Texts, NEW plan \in Plans \cup {Null},
             CreateTicket(h, text, plan)
      PROVE  Gone(t)'
  <2>1. CASE t = born.tickets + 1
    <3>1. ticket'[t] \in Row
      BY <1>1, <1>2, <1>5, <2>1, TodoAssumption DEF TypeOK, CreateTicket, Row
    <3> QED  BY <3>1, NoRowAssumption DEF Gone
  <2>2. CASE t # born.tickets + 1
    <3>1. t \in 1..born.tickets
      BY <1>1, <1>5, <2>2 DEF TypeOK, CreateTicket
    <3> QED  BY <1>1, <1>4, <1>5, <2>2, <3>1 DEF TypeOK, CreateTicket, Begin, Idle
  <2> QED  BY <2>1, <2>2
<1>6. ASSUME NEW h \in Handlers, WriteUpdate(h)
      PROVE  Gone(t)'
  <2>1. /\ call[h].ticket \in Tickets /\ call[h].loaded \in Row \cup {Null}
        /\ call[h].entity \in Row
    BY <1>1, <1>6, CallFields DEF TypeOK, WriteUpdate, UpdatePlaces, UpdateCalls
  <2>2. ticket'[t] = Null => ticket[t] = Null
    BY <1>1, <1>2, <1>6, <2>1, MergeType DEF TypeOK, WriteUpdate
  <2> QED  BY <1>1, <1>4, <1>6, <2>2 DEF TypeOK, WriteUpdate, Continue
<1>7. ASSUME NEW h \in Handlers, RemoveTicket(h)
      PROVE  Gone(t)'
  <2>1. call[h] \in DeleteCalls
    BY <1>1, <1>7, CallFields DEF TypeOK, RemoveTicket
  <2>2. CASE t = call[h].ticket
    <3>1. call'[h].at = "recordDeleted" /\ call'[h].ticket = t
      BY <1>1, <1>7, <2>1, <2>2 DEF TypeOK, RemoveTicket, Continue, DeleteCalls
    <3> QED  BY <3>1 DEF Gone
  <2>3. CASE t # call[h].ticket
    BY <1>1, <1>2, <1>4, <1>7, <2>3 DEF TypeOK, RemoveTicket, Continue
  <2> QED  BY <2>2, <2>3
<1>8. ASSUME NEW h \in Handlers, RecordDeleted(h)
      PROVE  Gone(t)'
  <2>1. CASE t = call[h].ticket
    <3>1. Said("TICKET_DELETED", t)'
      BY <1>1, <1>8, <2>1, RecordEffect DEF RecordDeleted, Said
    <3> QED  BY <3>1 DEF Gone
  <2>2. CASE t # call[h].ticket
    <3>1. \A g \in Handlers :
            call[g].at = "recordDeleted" /\ call[g].ticket = t => call'[g] = call[g]
      BY <1>1, <1>8, <2>2 DEF TypeOK, RecordDeleted, Return
    <3>2. ticket'[t] = ticket[t] /\ t \in 1..born.tickets
      BY <1>8 DEF RecordDeleted
    <3> QED  BY <1>1, <1>3, <3>1, <3>2, SaidKept DEF Gone
  <2> QED  BY <2>1, <2>2
<1>9. ASSUME NEW h \in Handlers,
             \/ RecordCreated(h) \/ SelectForUpdate(h) \/ WriteConflicts(h)
             \/ RecordUpdated(h) \/ RecordStatusChanged(h) \/ RecordComment(h)
             \/ RemoveComment(h)
      PROVE  Gone(t)'
  BY <1>1, <1>4, <1>9
     DEF TypeOK, RecordCreated, SelectForUpdate, WriteConflicts, RecordUpdated,
         RecordStatusChanged, RecordComment, RemoveComment, Return, Continue
<1>10. ASSUME NEW h \in Handlers,
              \/ \E u \in Tickets :
                   \/ \E dto \in Dto : FindForUpdate(h, u, dto)
                   \/ FindForDelete(h, u)
                   \/ CreateComment(h, u)
              \/ \E c \in Comments : FindComment(h, c)
       PROVE  Gone(t)'
  <2>1. call[h] = Idle /\ \A g \in Handlers : g # h => call'[g] = call[g]
    BY <1>1, <1>10
       DEF TypeOK, FindForUpdate, FindForDelete, CreateComment, FindComment, Begin
  <2>2. ticket' = ticket /\ born'.tickets = born.tickets
    BY <1>1, <1>10
       DEF TypeOK, FindForUpdate, FindForDelete, CreateComment, FindComment
  <2> QED  BY <1>4, <2>1, <2>2 DEF Idle
<1>11. ASSUME NEW h \in Handlers, CallFails(h)
       PROVE  Gone(t)'
  BY <1>3, <1>11 DEF CallFails
<1>12. CASE UNCHANGED vars
  BY <1>4, <1>12 DEF vars
<1> QED
  BY <1>5, <1>6, <1>7, <1>8, <1>9, <1>10, <1>11, <1>12 DEF Next, Start, Step

\* However calls overlap, and insert deleted tickets again: a ticket that has
\* gone was announced as deleted.
THEOREM GoneAreAnnounced == Spec => []GoneIsAnnounced
<1>1. Init => GoneInv
  BY BoundsAssumption DEF Init, GoneInv, TypeOK, Calls, Idle
<1>2. GoneInv => GoneIsAnnounced
  BY DEF GoneInv, Gone, Said, GoneIsAnnounced, Quiet, Idle
<1> QED  BY <1>1, <1>2, GoneStep, PTL DEF Spec
-----------------------------------------------------------------------------
(* The status of a ticket.                                                 *)

\* An update has written a status that it did not find, and is about to say so.
Pending(t, s) ==
  \E h \in Handlers :
    /\ call[h].at \in {"recordUpdated", "recordStatusChanged"}
    /\ call[h].ticket = t
    /\ call[h].dto.status = s /\ call[h].oldStatus # s

\* The statuses a ticket may have without anybody being misled.
Known ==
  [t \in Tickets |-> {s \in Statuses : s = Todo \/ ChangedTo(t, s) \/ Pending(t, s)}]

\* What a call that has not written yet found, and what it is going to write.
FoundKnown(h) ==
  call[h].at \in {"select", "write"} =>
    /\ call[h].oldStatus \in Known[call[h].ticket]
    /\ call[h].entity.status = IF call[h].dto.status = Null
                               THEN call[h].oldStatus ELSE call[h].dto.status

StatusInv ==
  /\ TypeOK
  /\ faults = 0 =>
       /\ \A t \in Tickets : ticket[t] # Null => ticket[t].status \in Known[t]
       /\ \A h \in Handlers : FoundKnown(h)

\* The call of a handler changes by a step of that handler alone.
LEMMA OneCallChanges ==
  ASSUME TypeOK, NEW h \in Handlers, Start(h) \/ Step(h)
  PROVE  \A g \in Handlers : g # h => call'[g] = call[g]
<1>1. CASE Start(h)
  BY <1>1 DEF TypeOK, Start, CreateTicket, FindForUpdate, FindForDelete,
              CreateComment, FindComment, Begin
<1>2. CASE Step(h)
  BY <1>2 DEF TypeOK, Step, RecordCreated, SelectForUpdate, WriteUpdate,
              WriteConflicts, RecordUpdated, RecordStatusChanged, RemoveTicket,
              RecordDeleted, RecordComment, RemoveComment, Continue, Return
<1> QED  BY <1>1, <1>2

\* A status once known stays known: the update that is about to announce it
\* announces it.
LEMMA KnownKept ==
  ASSUME TypeOK, [Next]_vars, faults' = 0, NEW t \in Tickets, NEW s \in Known[t]
  PROVE  s \in Known'[t]
<1> s \in Statuses
  BY DEF Known
<1>1. CASE s = Todo \/ ChangedTo(t, s)
  BY <1>1, SaidKept DEF Known
<1>2. CASE Pending(t, s)
  <2>1. PICK h \in Handlers :
          /\ call[h].at \in {"recordUpdated", "recordStatusChanged"}
          /\ call[h].ticket = t
          /\ call[h].dto.status = s /\ call[h].oldStatus # s
    BY <1>2 DEF Pending
  <2>2. ASSUME call'[h] = call[h]
        PROVE  s \in Known'[t]
    BY <2>1, <2>2 DEF Known, Pending
  <2>3. CASE RecordUpdated(h)
    <3>1. call[h] \in UpdateCalls
      BY <2>1, CallFields DEF TypeOK, UpdatePlaces
    <3>2. call' = [call EXCEPT ![h].at = "recordStatusChanged"]
      BY <2>1, <2>3, NullAssumption DEF RecordUpdated, Continue
    <3>3. /\ call'[h].at = "recordStatusChanged" /\ call'[h].ticket = t
          /\ call'[h].dto.status = s /\ call'[h].oldStatus # s
      BY <2>1, <3>1, <3>2 DEF TypeOK, UpdateCalls
    <3> QED  BY <3>3 DEF Known, Pending
  <2>4. CASE RecordStatusChanged(h)
    <3>1. ChangedTo(t, s)'
      BY <2>1, <2>4, RecordEffect DEF RecordStatusChanged, ChangedTo
    <3> QED  BY <3>1 DEF Known
  <2>5. ASSUME NEW g \in Handlers, Start(g) \/ Step(g)
        PROVE  s \in Known'[t]
    <3>1. CASE g # h
      BY <2>2, <2>5, <3>1, OneCallChanges
    <3>2. CASE Start(h)
      <4>1. call[h] = Idle
        BY <3>2 DEF Start, CreateTicket, FindForUpdate, FindForDelete,
                    CreateComment, FindComment, Begin
      <4> QED  BY <2>1, <4>1 DEF Idle
    <3>3. CASE Step(h)
      BY <2>1, <2>3, <2>4, <3>3
         DEF Step, RecordCreated, SelectForUpdate, WriteUpdate, WriteConflicts,
             RemoveTicket, RecordDeleted, RecordComment, RemoveComment
    <3> QED  BY <2>5, <3>1, <3>2, <3>3
  <2>6. ASSUME NEW g \in Handlers, CallFails(g)
        PROVE  FALSE
    BY <2>6, FaultsKept DEF CallFails
  <2>7. CASE UNCHANGED vars
    BY <2>2, <2>7 DEF vars
  <2> QED  BY <2>5, <2>6, <2>7 DEF Next
<1> QED  BY <1>1, <1>2 DEF Known

LEMMA StatusStep == StatusInv /\ [Next]_vars => StatusInv'
<1> SUFFICES ASSUME StatusInv, [Next]_vars, faults' = 0
             PROVE  /\ \A t \in Tickets : ticket'[t] # Null => ticket'[t].status \in Known'[t]
                    /\ \A h \in Handlers : FoundKnown(h)'
  BY TypeStep DEF StatusInv
<1>1. /\ TypeOK /\ TypeOK'
      /\ \A t \in Tickets : ticket[t] # Null => ticket[t].status \in Known[t]
      /\ \A h \in Handlers : FoundKnown(h)
  BY TypeStep, FaultsKept DEF StatusInv
<1>2. \A t \in Tickets : Known[t] \subseteq Known'[t]
  BY <1>1, KnownKept
<1>3. ASSUME NEW t \in Tickets, ticket'[t] = ticket[t]
      PROVE  ticket'[t] # Null => ticket'[t].status \in Known'[t]
  BY <1>1, <1>2, <1>3
<1>4. ASSUME NEW h \in Handlers, call'[h] = call[h]
      PROVE  FoundKnown(h)'
  <2>1. call[h].at \in {"select", "write"} => call[h].ticket \in Tickets
    BY <1>1, CallFields DEF TypeOK, UpdatePlaces, UpdateCalls
  <2> QED  BY <1>1, <1>2, <1>4, <2>1 DEF FoundKnown
<1>5. ASSUME NEW h \in Handlers, NEW text \in Texts, NEW plan \in Plans \cup {Null},
             CreateTicket(h, text, plan)
      PROVE  /\ \A t \in Tickets : ticket'[t] # Null => ticket'[t].status \in Known'[t]
             /\ FoundKnown(h)'
  <2>1. ASSUME NEW t \in Tickets, t = born.tickets + 1
        PROVE  ticket'[t].status \in Known'[t]
    BY <1>1, <1>5, <2>1, TodoAssumption DEF TypeOK, CreateTicket, Known
  <2>2. ASSUME NEW t \in Tickets, t # born.tickets + 1
        PROVE  ticket'[t] = ticket[t]
    BY <1>1, <1>5, <2>2 DEF TypeOK, CreateTicket
  <2>3. call'[h].at = "recordCreated"
    BY <1>1, <1>5 DEF TypeOK, CreateTicket, Begin
  <2> QED  BY <1>3, <2>1, <2>2, <2>3 DEF FoundKnown
<1>6. ASSUME NEW h \in Handlers, NEW t \in Tickets, NEW dto \in Dto,
             FindForUpdate(h, t, dto)
      PROVE  ticket' = ticket /\ FoundKnown(h)'
  <2>1. ticket[t] \in Row /\ ticket[t].status \in Known'[t]
    BY <1>1, <1>2, <1>6 DEF TypeOK, FindForUpdate
  <2>2. /\ call'[h].at = "select" /\ call'[h].ticket = t /\ call'[h].dto = dto
        /\ call'[h].oldStatus = ticket[t].status
        /\ call'[h].entity = Assign(ticket[t], dto)
    BY <1>1, <1>6 DEF TypeOK, FindForUpdate, Begin
  <2> QED  BY <1>6, <2>1, <2>2, AssignType DEF FindForUpdate, FoundKnown
<1>7. ASSUME NEW h \in Handlers, SelectForUpdate(h)
      PROVE  ticket' = ticket /\ FoundKnown(h)'
  <2>1. call[h] \in UpdateCalls
    BY <1>1, <1>7, CallFields DEF TypeOK, SelectForUpdate, UpdatePlaces
  <2>2. /\ call'[h].at = "write" /\ call'[h].ticket = call[h].ticket
        /\ call'[h].dto = call[h].dto /\ call'[h].oldStatus = call[h].oldStatus
        /\ call'[h].entity = call[h].entity
    BY <1>1, <1>7, <2>1 DEF TypeOK, SelectForUpdate, UpdateCalls
  <2>3. FoundKnown(h) /\ call[h].at = "select" /\ call[h].ticket \in Tickets
    BY <1>1, <1>7, <2>1 DEF SelectForUpdate, UpdateCalls
  <2> QED  BY <1>2, <1>7, <2>2, <2>3 DEF SelectForUpdate, FoundKnown
<1>8. ASSUME NEW h \in Handlers, WriteUpdate(h)
      PROVE  /\ \A t \in Tickets : ticket'[t] # Null => ticket'[t].status \in Known'[t]
             /\ FoundKnown(h)'
  <2> DEFINE c == call[h]
             merged == Merge(ticket[c.ticket], c.loaded, c.entity)
  <2>1. c \in UpdateCalls /\ c.at = "write"
    BY <1>1, <1>8, CallFields DEF TypeOK, WriteUpdate, UpdatePlaces
  <2>2. /\ call'[h].at = "recordUpdated" /\ call'[h].ticket = c.ticket
        /\ call'[h].dto = c.dto /\ call'[h].oldStatus = c.oldStatus
    BY <1>1, <1>8, <2>1 DEF TypeOK, WriteUpdate, Continue, UpdateCalls
  <2>3. /\ c.ticket \in Tickets /\ c.dto \in Dto /\ c.oldStatus \in Statuses
        /\ c.loaded \in Row \cup {Null} /\ c.entity \in Row
    BY <2>1 DEF UpdateCalls
  <2>4. c.entity.status \in Known'[c.ticket]
    <3>1. /\ c.oldStatus \in Known'[c.ticket]
          /\ c.entity.status = IF c.dto.status = Null THEN c.oldStatus ELSE c.dto.status
      BY <1>1, <1>2, <2>1, <2>3 DEF FoundKnown
    <3>2. ASSUME NEW t \in Tickets, t = c.ticket,
                 NEW s \in Statuses, s = c.dto.status, s # c.oldStatus
          PROVE  s \in Known'[t]
      <4>1. Pending(t, s)'
        BY <2>2, <3>2 DEF Pending
      <4> QED  BY <4>1 DEF Known
    <3> QED  BY <2>3, <3>1, <3>2 DEF Dto
  <2>5. merged # Null => merged.status \in Known'[c.ticket]
    <3>1. ticket[c.ticket] \in Row \cup {Null}
      BY <1>1, <2>3 DEF TypeOK
    <3>2. merged # Null =>
            \/ merged.status = c.entity.status
            \/ ticket[c.ticket] # Null /\ merged.status = ticket[c.ticket].status
      BY <2>3, <3>1, MergeType
    <3>3. ticket[c.ticket] # Null => ticket[c.ticket].status \in Known'[c.ticket]
      BY <1>1, <1>2, <2>3
    <3> QED  BY <2>4, <3>2, <3>3
  <2>6. ticket' = [ticket EXCEPT ![c.ticket] = merged]
    BY <1>8 DEF WriteUpdate
  <2>7. \A t \in Tickets : ticket'[t] # Null => ticket'[t].status \in Known'[t]
    BY <1>1, <1>3, <2>3, <2>5, <2>6 DEF TypeOK
  <2> QED  BY <2>2, <2>7 DEF FoundKnown
<1>9. ASSUME NEW h \in Handlers, RemoveTicket(h)
      PROVE  /\ \A t \in Tickets : ticket'[t] # Null => ticket'[t].status \in Known'[t]
             /\ FoundKnown(h)'
  <2>1. call[h] \in DeleteCalls
    BY <1>1, <1>9, CallFields DEF TypeOK, RemoveTicket
  <2>2. call'[h].at = "recordDeleted"
    BY <1>1, <1>9, <2>1 DEF TypeOK, RemoveTicket, Continue, DeleteCalls
  <2>3. \A t \in Tickets : ticket'[t] # Null => ticket'[t] = ticket[t]
    BY <1>1, <1>9 DEF TypeOK, RemoveTicket
  <2> QED  BY <1>3, <2>2, <2>3 DEF FoundKnown
<1>10. ASSUME NEW h \in Handlers,
              \/ RecordCreated(h) \/ WriteConflicts(h) \/ RecordStatusChanged(h)
              \/ RecordDeleted(h) \/ RecordComment(h) \/ RemoveComment(h)
       PROVE  ticket' = ticket /\ FoundKnown(h)'
  <2>1. call'[h] = Idle /\ ticket' = ticket
    BY <1>1, <1>10
       DEF TypeOK, RecordCreated, WriteConflicts, RecordStatusChanged, RecordDeleted,
           RecordComment, RemoveComment, Return
  <2> QED  BY <2>1 DEF FoundKnown, Idle
<1>11. ASSUME NEW h \in Handlers, RecordUpdated(h)
       PROVE  ticket' = ticket /\ FoundKnown(h)'
  <2>1. call[h] \in UpdateCalls
    BY <1>1, <1>11, CallFields DEF TypeOK, RecordUpdated, UpdatePlaces
  <2>2. call'[h].at \notin {"select", "write"}
    BY <1>1, <1>11, <2>1
       DEF TypeOK, RecordUpdated, Continue, Return, Idle, UpdateCalls
  <2> QED  BY <1>11, <2>2 DEF RecordUpdated, FoundKnown
<1>12. ASSUME NEW h \in Handlers,
              \/ \E t \in Tickets : FindForDelete(h, t) \/ CreateComment(h, t)
              \/ \E c \in Comments : FindComment(h, c)
       PROVE  ticket' = ticket /\ FoundKnown(h)'
  <2>1. call'[h].at \notin {"select", "write"} /\ ticket' = ticket
    BY <1>1, <1>12 DEF TypeOK, FindForDelete, CreateComment, FindComment, Begin
  <2> QED  BY <2>1 DEF FoundKnown
<1>13. ASSUME NEW h \in Handlers, Start(h) \/ Step(h)
       PROVE  /\ \A t \in Tickets : ticket'[t] # Null => ticket'[t].status \in Known'[t]
              /\ \A g \in Handlers : FoundKnown(g)'
  <2>1. \A g \in Handlers : g # h => FoundKnown(g)'
    BY <1>1, <1>4, <1>13, OneCallChanges
  <2> QED  BY <1>3, <1>5, <1>6, <1>7, <1>8, <1>9, <1>10, <1>11, <1>12, <1>13, <2>1
           DEF Start, Step
<1>14. ASSUME NEW h \in Handlers, CallFails(h)
       PROVE  FALSE
  BY <1>1, <1>14, FaultsKept DEF CallFails
<1>15. CASE UNCHANGED vars
  BY <1>3, <1>4, <1>15 DEF vars
<1> QED  BY <1>13, <1>14, <1>15 DEF Next

\* However calls overlap: a status a ticket has was announced before, or is
\* the one it was created with.
THEOREM StatusesAreAnnounced == Spec => []StatusWasAnnounced
<1>1. Init => StatusInv
  BY BoundsAssumption DEF Init, StatusInv, TypeOK, FoundKnown, Calls, Idle
<1>2. StatusInv => StatusWasAnnounced
  <2> SUFFICES ASSUME StatusInv, Quiet, faults = 0, NEW t \in 1..born.tickets,
                      ticket[t] # Null, ticket[t].status # Todo
               PROVE  ChangedTo(t, ticket[t].status)
    BY DEF StatusWasAnnounced, ChangedTo
  <2>1. t \in Tickets
    BY BoundsAssumption DEF StatusInv, TypeOK, Tickets
  <2> QED  BY <2>1 DEF StatusInv, Known, Pending, Quiet, Idle
<1> QED  BY <1>1, <1>2, StatusStep, PTL DEF Spec
-----------------------------------------------------------------------------
(* What a step is about.                                                   *)

Acts(h) == Start(h) \/ Step(h) \/ CallFails(h)

LEMMA ActsType ==
  ASSUME TypeOK, NEW h \in Handlers, Acts(h)
  PROVE  TypeOK' /\ [Next]_vars
BY TypeStep DEF Acts, Next

\* A call that talks names a ticket.
LEMMA TalksType ==
  ASSUME TypeOK, NEW h \in Handlers, Talks(h)
  PROVE  call[h].ticket \in Tickets
BY DEF TypeOK, Calls, UpdateCalls, DeleteCalls, Idle, Talks

\* A step is about one ticket or about none: it leaves other calls, the rows of
\* other tickets, and what is said of them, alone.
LEMMA ActsAbout ==
  ASSUME TypeOK, NEW h \in Handlers, Acts(h)
  PROVE  /\ \A g \in Handlers \ {h} : call'[g] = call[g]
         /\ \/ ~ Talks(h) /\ ~ Talks(h)' /\ UNCHANGED <<ticket, events>>
            \/ \E t \in Tickets :
                 /\ Talks(h) => call[h].ticket = t
                 /\ Talks(h)' => call'[h].ticket = t
                 /\ Talks(h) \/ Talks(h)'
                 /\ \A u \in Tickets \ {t} : ticket'[u] = ticket[u]
                 /\ \/ UNCHANGED events
                    \/ \E event \in Events : event.ticket = t /\ Record(event)
<1> DEFINE About(t) ==
             /\ Talks(h) => call[h].ticket = t
             /\ Talks(h)' => call'[h].ticket = t
             /\ Talks(h) \/ Talks(h)'
             /\ \A u \in Tickets \ {t} : ticket'[u] = ticket[u]
             /\ \/ UNCHANGED events
                \/ \E event \in Events : event.ticket = t /\ Record(event)
<1>1. CASE CallFails(h)
  <2>1. /\ call' = [call EXCEPT ![h] = Idle] /\ UNCHANGED <<ticket, events>>
        /\ call \in [Handlers -> Calls]
    BY <1>1 DEF CallFails, Return, TypeOK
  <2>2. (\A g \in Handlers \ {h} : call'[g] = call[g]) /\ ~ Talks(h)'
    BY <2>1 DEF Talks, Idle
  <2>3. Talks(h) => call[h].ticket \in Tickets
    BY TalksType
  <2> QED  BY <2>1, <2>2, <2>3
<1>2. CASE Start(h)
  <2>1. \A g \in Handlers \ {h} : call'[g] = call[g]
    BY <1>2, OneCallChanges
  <2>2. ASSUME NEW text \in Texts, NEW plan \in Plans \cup {Null},
             CreateTicket(h, text, plan)
        PROVE  \E t \in Tickets : About(t)
    <3>1. PICK t \in Tickets : t = born.tickets + 1
      BY <2>2, BoundsAssumption DEF TypeOK, CreateTicket, Tickets
    <3>2. About(t)
      BY <2>2, <3>1 DEF TypeOK, CreateTicket, Begin, Talks, Idle
    <3> QED  BY <3>2
  <2>3. ASSUME NEW t \in Tickets,
               \/ \E dto \in Dto : FindForUpdate(h, t, dto)
               \/ FindForDelete(h, t)
               \/ CreateComment(h, t)
        PROVE  About(t)
    BY <2>3 DEF TypeOK, FindForUpdate, FindForDelete, CreateComment, Begin, Talks, Idle
  <2>4. ASSUME NEW c \in Comments, FindComment(h, c)
        PROVE  ~ Talks(h) /\ ~ Talks(h)' /\ UNCHANGED <<ticket, events>>
    BY <2>4 DEF TypeOK, FindComment, Begin, Talks, Idle
  <2> QED  BY <1>2, <2>1, <2>2, <2>3, <2>4 DEF Start
<1>3. CASE Step(h)
  <2>1. \A g \in Handlers \ {h} : call'[g] = call[g]
    BY <1>3, OneCallChanges
  <2>2. CASE RemoveComment(h)
    BY <2>1, <2>2 DEF TypeOK, RemoveComment, Return, Talks, Idle
  <2>3. call[h] \in Calls
    BY DEF TypeOK
  <2>4. CASE RecordCreated(h) \/ RecordComment(h) \/ RecordDeleted(h)
             \/ RecordStatusChanged(h)
    <3>1. Talks(h) /\ call[h].ticket \in Tickets /\ call'[h] = Idle /\ UNCHANGED ticket
      BY <2>3, <2>4, CallFields
         DEF TypeOK, RecordCreated, RecordComment, RecordDeleted, RecordStatusChanged,
             Return, Talks, UpdatePlaces, UpdateCalls, DeleteCalls
    <3>2. \E event \in Events : event.ticket = call[h].ticket /\ Record(event)
      BY <2>4, EventType
         DEF RecordCreated, RecordComment, RecordDeleted, RecordStatusChanged
    <3>3. About(call[h].ticket)
      BY <3>1, <3>2 DEF Talks, Idle
    <3> QED  BY <2>1, <3>1, <3>3
  <2>5. CASE \/ SelectForUpdate(h) \/ WriteUpdate(h) \/ WriteConflicts(h)
             \/ RecordUpdated(h)
    <3>1. call[h] \in UpdateCalls /\ Talks(h)
      BY <2>3, <2>5, CallFields
         DEF SelectForUpdate, WriteUpdate, WriteConflicts, RecordUpdated, UpdatePlaces,
             Talks
    <3>2. call[h].ticket \in Tickets
      BY <3>1 DEF UpdateCalls
    <3>3. Talks(h)' => call'[h].ticket = call[h].ticket
      BY <2>5, <3>1
         DEF TypeOK, SelectForUpdate, WriteUpdate, WriteConflicts, RecordUpdated,
             Continue, Return, UpdateCalls, Talks, Idle
    <3>4. \A u \in Tickets \ {call[h].ticket} : ticket'[u] = ticket[u]
      BY <2>5, <3>2
         DEF TypeOK, SelectForUpdate, WriteUpdate, WriteConflicts, RecordUpdated
    <3>5. \/ UNCHANGED events
          \/ \E event \in Events : event.ticket = call[h].ticket /\ Record(event)
      <4>1. CASE RecordUpdated(h)
        <5> DEFINE event == [type |-> "TICKET_UPDATED", ticket |-> call[h].ticket,
                             status |-> call[h].dto.status, text |-> call[h].dto.text,
                             plan |-> call[h].dto.plan]
        <5>1. event \in Events /\ event.ticket = call[h].ticket /\ Record(event)
          BY <4>1, EventType DEF RecordUpdated
        <5> QED  BY <5>1
      <4> QED  BY <2>5, <4>1 DEF SelectForUpdate, WriteUpdate, WriteConflicts
    <3> QED  BY <2>1, <3>1, <3>2, <3>3, <3>4, <3>5
  <2>6. CASE RemoveTicket(h)
    <3>1. call[h] \in DeleteCalls /\ Talks(h)
      BY <2>3, <2>6, CallFields DEF RemoveTicket, Talks
    <3>2. About(call[h].ticket) /\ call[h].ticket \in Tickets
      BY <2>6, <3>1 DEF TypeOK, RemoveTicket, Continue, DeleteCalls, Talks
    <3> QED  BY <2>1, <3>2
  <2> QED  BY <1>3, <2>2, <2>4, <2>5, <2>6 DEF Step
<1> QED  BY <1>1, <1>2, <1>3 DEF Acts

-----------------------------------------------------------------------------
(* What is over stays over.                                                *)

\* A call about a ticket that is over goes on with a deletion, or fails.
LEMMA OverActs ==
  ASSUME TypeOK, NEW h \in Handlers, Acts(h), NEW t \in Tickets, Over(t),
         \/ Talks(h) /\ call[h].ticket = t
         \/ Talks(h)' /\ call'[h].ticket = t
  PROVE  RemoveTicket(h) \/ RecordDeleted(h) \/ CallFails(h)
<1>1. CASE Talks(h) /\ call[h].ticket = t
  <2>1. call[h].at \in {"remove", "recordDeleted"}
    BY <1>1 DEF Over
  <2>2. call[h] # Idle
    BY <2>1 DEF Idle
  <2>3. ~ Start(h)
    BY <2>2 DEF Start, CreateTicket, FindForUpdate, FindForDelete, CreateComment,
                FindComment, Begin
  <2> QED  BY <2>1, <2>3
           DEF Acts, Step, RecordCreated, SelectForUpdate, WriteUpdate, WriteConflicts,
               RecordUpdated, RecordStatusChanged, RecordComment, RemoveComment
<1>2. CASE ~ (Talks(h) /\ call[h].ticket = t) /\ Talks(h)' /\ call'[h].ticket = t
  <2>1. ~ Talks(h)
    BY <1>2, ActsAbout
  <2>2. ASSUME NEW text \in Texts, NEW plan \in Plans \cup {Null},
               CreateTicket(h, text, plan)
        PROVE  FALSE
    <3>1. call'[h].ticket = born.tickets + 1 /\ born.tickets \in Nat
      BY <2>2, BoundsAssumption DEF TypeOK, CreateTicket, Begin
    <3> QED  BY <1>2, <3>1 DEF Over
  <2>3. ASSUME NEW u \in Tickets,
               \/ \E dto \in Dto : FindForUpdate(h, u, dto)
               \/ FindForDelete(h, u)
               \/ CreateComment(h, u)
        PROVE  FALSE
    <3>1. ticket[u] # Null /\ call'[h].ticket = u
      BY <2>3 DEF TypeOK, FindForUpdate, FindForDelete, CreateComment, Begin
    <3> QED  BY <1>2, <3>1 DEF Over
  <2>4. ASSUME (\E c \in Comments : FindComment(h, c)) \/ RemoveComment(h)
        PROVE  FALSE
    <3>1. call'[h].at \in {"idle", "removeComment"}
      BY <2>4 DEF TypeOK, FindComment, RemoveComment, Begin, Return, Idle
    <3> QED  BY <1>2, <3>1 DEF Talks
  <2> QED  BY <2>1, <2>2, <2>3, <2>4
           DEF Acts, Start, Step, Talks, RecordCreated, SelectForUpdate, WriteUpdate,
               WriteConflicts, RecordUpdated, RecordStatusChanged, RecordComment
<1> QED  BY <1>1, <1>2

LEMMA OverStep ==
  ASSUME TypeOK, [Next]_vars, NEW t \in Tickets, Over(t)
  PROVE  /\ Over(t)'
         /\ \A i \in DOMAIN events' \ DOMAIN events :
              events'[i].ticket = t => events'[i].type = "TICKET_DELETED"
<1> DEFINE Goal == /\ Over(t)'
                   /\ \A i \in DOMAIN events' \ DOMAIN events :
                        events'[i].ticket = t => events'[i].type = "TICKET_DELETED"
<1>1. ASSUME NEW h \in Handlers, Acts(h)
      PROVE  Goal
  <2>1. t <= born'.tickets
    <3>1. born'.tickets \in {born.tickets, born.tickets + 1}
      BY <1>1 DEF Acts, Start, Step, CreateTicket, FindForUpdate, FindForDelete,
                  CreateComment, FindComment, RecordCreated, SelectForUpdate,
                  WriteUpdate, WriteConflicts, RecordUpdated, RecordStatusChanged,
                  RemoveTicket, RecordDeleted, RecordComment, RemoveComment,
                  CallFails, TypeOK
    <3>2. born.tickets \in Nat /\ t \in Nat
      BY BoundsAssumption DEF TypeOK, Tickets
    <3> QED  BY <3>1, <3>2 DEF Over
  <2>2. \A g \in Handlers \ {h} : call'[g] = call[g]
    BY <1>1, ActsAbout
  <2>3. ASSUME Talks(h) => call[h].ticket # t, Talks(h)' => call'[h].ticket # t
        PROVE  Goal
    <3>1. /\ ticket'[t] = ticket[t]
          /\ \/ UNCHANGED events
             \/ \E event : Record(event) /\ event.ticket # t
      BY <1>1, <2>3, ActsAbout
    <3>2. \A i \in DOMAIN events' \ DOMAIN events : events'[i].ticket # t
      BY <3>1, RecordEffect
    <3> QED  BY <2>1, <2>2, <2>3, <3>1, <3>2 DEF Over, Talks
  <2>4. ASSUME \/ Talks(h) /\ call[h].ticket = t
               \/ Talks(h)' /\ call'[h].ticket = t
        PROVE  Goal
    <3>1. CASE RemoveTicket(h)
      <4>1. call[h] \in DeleteCalls
        BY <3>1, CallFields DEF TypeOK, RemoveTicket
      <4>2. call'[h].at = "recordDeleted" /\ ticket'[t] = Null /\ events' = events
        BY <3>1, <4>1 DEF TypeOK, RemoveTicket, Continue, DeleteCalls, Over
      <4> QED  BY <2>1, <2>2, <4>2 DEF Over, Talks
    <3>2. CASE RecordDeleted(h)
      <4>1. call'[h] = Idle /\ ticket' = ticket
        BY <3>2 DEF TypeOK, RecordDeleted, Return
      <4>2. PICK event : Record(event) /\ event.type = "TICKET_DELETED"
        BY <3>2 DEF RecordDeleted
      <4>3. \A i \in DOMAIN events' \ DOMAIN events : events'[i].type = "TICKET_DELETED"
        BY <4>2, RecordEffect
      <4> QED  BY <2>1, <2>2, <4>1, <4>3 DEF Over, Talks, Idle
    <3>3. CASE CallFails(h)
      <4>1. call'[h] = Idle /\ ticket' = ticket /\ events' = events
        BY <3>3 DEF TypeOK, CallFails, Return
      <4> QED  BY <2>1, <2>2, <4>1 DEF Over, Talks, Idle
    <3> QED  BY <1>1, <2>4, <3>1, <3>2, <3>3, OverActs
  <2> QED  BY <2>3, <2>4
<1>2. CASE UNCHANGED vars
  BY <1>2 DEF vars, Over, Talks
<1> QED  BY <1>1, <1>2 DEF Next, Acts

\* However calls overlap, and whatever fails: once only deletions are about a
\* ticket that is gone, it is not inserted again, and nothing but its deletion is
\* told.
THEOREM DeletedStayGone == Spec => GoneForGood
<1>1. TypeOK /\ [Next]_vars =>
        [\A t \in Tickets :
           Over(t) =>
             /\ Over(t)'
             /\ \A i \in DOMAIN events' \ DOMAIN events :
                  events'[i].ticket = t => events'[i].type = "TICKET_DELETED"]_vars
  BY OverStep
<1> QED  BY <1>1, TypeCorrect, PTL DEF Spec, GoneForGood
=============================================================================
