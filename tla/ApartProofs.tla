----------------------------- MODULE ApartProofs -----------------------------
(***************************************************************************)
(* Theorems about Tickets when calls about one ticket do not overlap: what *)
(* a consumer that reads the events in their order learns.  Calls about    *)
(* different tickets overlap as they like, for any number of handlers.     *)
(***************************************************************************)
EXTENDS TicketsProofs

\* When calls about one ticket do not overlap, the others are about other tickets.
LEMMA OthersApart ==
  ASSUME TypeOK, Apart, Apart', NEW h \in Handlers, Acts(h),
         NEW g \in Handlers, g # h
  PROVE  /\ call'[g] = call[g]
         /\ Talks(g) =>
              /\ call[g].ticket \in Tickets
              /\ Talks(h) => call[h].ticket # call[g].ticket
              /\ Talks(h)' => call'[h].ticket # call[g].ticket
              /\ ticket'[call[g].ticket] = ticket[call[g].ticket]
<1>1. call'[g] = call[g]
  BY ActsAbout
<1>2. /\ Talks(g) /\ Talks(h) => call[h].ticket # call[g].ticket
      /\ Talks(g) /\ Talks(h)' => call'[h].ticket # call[g].ticket
  BY <1>1 DEF Apart, Talks
<1>3. Talks(g) => call[g].ticket \in Tickets
  BY TalksType
<1>4. Talks(g) => ticket'[call[g].ticket] = ticket[call[g].ticket]
  BY <1>2, <1>3, ActsAbout
<1> QED  BY <1>1, <1>2, <1>3, <1>4
-----------------------------------------------------------------------------
(* The last word about a ticket.                                           *)

Deleted == {t \in Tickets : Said("TICKET_DELETED", t)}

\* Nothing is about a ticket that is not created yet.
Bounded ==
  /\ \A i \in DOMAIN events : events[i].ticket <= born.tickets
  /\ \A t \in Tickets : ticket[t] # Null => t <= born.tickets
  /\ \A h \in Handlers : Talks(h) => call[h].ticket <= born.tickets

\* A ticket announced as deleted is gone, and no call talks about it.
DeletedInv ==
  /\ \A t \in Deleted : ticket[t] = Null
  /\ \A h \in Handlers :
       /\ Talks(h) => call[h].ticket \notin Deleted
       /\ call[h].at = "recordDeleted" => ticket[call[h].ticket] = Null

SerialInv == TypeOK /\ Apart /\ Bounded /\ DeletedInv /\ NothingAfterDeleted

\* What the event that a call records about its ticket changes.
LEMMA RecordSerial ==
  ASSUME SerialInv, NEW t \in Tickets, t <= born.tickets, t \notin Deleted,
         NEW event, event.ticket = t, Record(event)
  PROVE  /\ \A i \in DOMAIN events' : events'[i].ticket <= born.tickets
         /\ NothingAfterDeleted'
         /\ Deleted' = IF event.type = "TICKET_DELETED" THEN Deleted \cup {t}
                       ELSE Deleted
<1>1. TypeOK /\ Bounded /\ NothingAfterDeleted
  BY DEF SerialInv
<1>2. /\ DOMAIN events' = DOMAIN events \cup {Len(events) + 1}
      /\ events'[Len(events) + 1] = event
      /\ \A i \in DOMAIN events : events'[i] = events[i] /\ i < Len(events) + 1
  BY <1>1, RecordEffect
<1>3. \A i \in DOMAIN events' : events'[i].ticket <= born.tickets
  BY <1>1, <1>2 DEF Bounded
<1>4. Deleted' = IF event.type = "TICKET_DELETED" THEN Deleted \cup {t} ELSE Deleted
  BY <1>2 DEF Deleted, Said
<1>5. ASSUME NEW i \in DOMAIN events', NEW j \in DOMAIN events',
             i < j, events'[i].type = "TICKET_DELETED"
      PROVE  events'[j].ticket # events'[i].ticket
  <2>1. i \in DOMAIN events
    <3>1. events \in Seq(Events)
      BY <1>1 DEF TypeOK
    <3> HIDE DEF Events
    <3> QED  BY <1>2, <1>5, <3>1
  <2>2. CASE j \in DOMAIN events
    BY <1>1, <1>2, <1>5, <2>1, <2>2 DEF NothingAfterDeleted
  <2>3. CASE j = Len(events) + 1
    BY <1>2, <1>5, <2>1, <2>3 DEF Deleted, Said
  <2> QED  BY <1>2, <2>2, <2>3
<1>6. NothingAfterDeleted'
  BY <1>5 DEF NothingAfterDeleted
<1> QED  BY <1>3, <1>4, <1>6

LEMMA SerialActs ==
  ASSUME SerialInv, Apart', NEW h \in Handlers, Acts(h)
  PROVE  SerialInv'
<1> DEFINE Goal == Bounded' /\ DeletedInv' /\ NothingAfterDeleted'
<1>1. TypeOK /\ TypeOK' /\ Bounded /\ DeletedInv /\ NothingAfterDeleted
  BY ActsType DEF SerialInv
<1>2. born.tickets \in Nat
  BY <1>1, BoundsAssumption DEF TypeOK
<1>3. SUFFICES Goal
  BY <1>1 DEF SerialInv
<1>0. \A g \in Handlers \ {h} :
        /\ call'[g] = call[g]
        /\ Talks(g) => /\ call[g].ticket \in Tickets
                       /\ Talks(h) => call[h].ticket # call[g].ticket
                       /\ Talks(h)' => call'[h].ticket # call[g].ticket
                       /\ ticket'[call[g].ticket] = ticket[call[g].ticket]
  BY <1>1, OthersApart DEF SerialInv
<1>4. ASSUME UNCHANGED events
      PROVE  /\ Deleted' = Deleted
             /\ NothingAfterDeleted'
             /\ \A i \in DOMAIN events' : events'[i].ticket <= born.tickets
  BY <1>1, <1>4 DEF Deleted, Said, NothingAfterDeleted, Bounded
\* Steps that neither touch the tables nor record anything.
<1>5. ASSUME UNCHANGED <<events, ticket>>,
             born'.tickets = born.tickets,
             Talks(h)' => /\ call'[h].ticket <= born.tickets
                          /\ call'[h].ticket \notin Deleted,
             call'[h].at # "recordDeleted"
      PROVE  Goal
  BY <1>0, <1>1, <1>4, <1>5 DEF Bounded, DeletedInv, Talks
\* Steps that record an event other than TICKET_DELETED.
<1>6. ASSUME Talks(h), UNCHANGED <<ticket, born>>,
             NEW event, event.ticket = call[h].ticket, Record(event),
             event.type # "TICKET_DELETED",
             \/ call'[h] = Idle
             \/ /\ call'[h].at = "recordStatusChanged"
                /\ call'[h].ticket = call[h].ticket
      PROVE  Goal
  <2>1. /\ call[h].ticket \in Tickets /\ call[h].ticket <= born.tickets
        /\ call[h].ticket \notin Deleted
    BY <1>1, <1>6, TalksType DEF Bounded, DeletedInv
  <2>2. /\ \A i \in DOMAIN events' : events'[i].ticket <= born.tickets
        /\ NothingAfterDeleted' /\ Deleted' = Deleted
    BY <1>6, <2>1, RecordSerial
  <2> QED  BY <1>0, <1>1, <1>6, <2>1, <2>2 DEF Bounded, DeletedInv, Talks, Idle
<1>7. ASSUME NEW text \in Texts, NEW plan \in Plans \cup {Null},
             CreateTicket(h, text, plan)
      PROVE  Goal
  <2> DEFINE t == born.tickets + 1
  <2>1. t \in Tickets /\ born'.tickets = t
    BY <1>1, <1>2, <1>7, BoundsAssumption DEF TypeOK, CreateTicket, Tickets
  <2>2. t \notin Deleted
    BY <1>1, <1>2 DEF Bounded, Deleted, Said, TypeOK
  <2>3. call'[h].at = "recordCreated" /\ call'[h].ticket = t
    BY <1>1, <1>7 DEF TypeOK, CreateTicket, Begin
  <2>4. \A u \in Tickets : u # t => ticket'[u] = ticket[u]
    BY <1>1, <1>7, <2>1 DEF TypeOK, CreateTicket
  <2>5. /\ Deleted' = Deleted /\ NothingAfterDeleted'
        /\ \A i \in DOMAIN events' : events'[i].ticket <= born.tickets
    BY <1>4, <1>7 DEF CreateTicket
  <2>6. Bounded'
    <3>1. \A i \in DOMAIN events' : events'[i].ticket <= t
      <4>1. ASSUME NEW i \in DOMAIN events'
            PROVE  events'[i].ticket \in Nat /\ events'[i].ticket <= born.tickets
        <5>1. events'[i] \in Events
          BY <1>1, <4>1 DEF TypeOK
        <5> QED  BY <2>5, <4>1, <5>1 DEF Events, Tickets
      <4> QED  BY <1>2, <4>1
    <3>2. \A u \in Tickets : ticket'[u] # Null => u <= t
      BY <1>1, <1>2, <2>1, <2>4 DEF Bounded, Tickets
    <3>3. ASSUME NEW g \in Handlers \ {h}, Talks(g)
          PROVE  call[g].ticket <= t
      <4>1. call[g].ticket \in Nat /\ call[g].ticket <= born.tickets
        BY <1>0, <1>1, <3>3 DEF Bounded, Tickets
      <4> QED  BY <1>2, <4>1
    <3> QED  BY <1>0, <1>2, <2>1, <2>3, <3>1, <3>2, <3>3 DEF Bounded, Talks
  <2>7. DeletedInv'
    BY <1>0, <1>1, <2>2, <2>3, <2>4, <2>5 DEF DeletedInv, Deleted, Talks
  <2> QED  BY <2>5, <2>6, <2>7
<1>8. ASSUME WriteUpdate(h)
      PROVE  Goal
  <2>1. call[h] \in UpdateCalls /\ Talks(h)
    BY <1>1, <1>8, CallFields DEF TypeOK, WriteUpdate, UpdatePlaces, Talks
  <2>2. call'[h].at = "recordUpdated" /\ call'[h].ticket = call[h].ticket
    BY <1>1, <1>8, <2>1 DEF TypeOK, WriteUpdate, Continue, UpdateCalls
  <2>3. \A u \in Tickets : u # call[h].ticket => ticket'[u] = ticket[u]
    BY <1>1, <1>8 DEF TypeOK, WriteUpdate
  <2>4. call[h].ticket <= born.tickets /\ call[h].ticket \notin Deleted
    BY <1>1, <2>1 DEF Bounded, DeletedInv
  <2>5. born' = born /\ events' = events
    BY <1>8 DEF WriteUpdate
  <2>6. Bounded'
    BY <1>0, <1>1, <2>2, <2>3, <2>4, <2>5 DEF Bounded, Talks
  <2>7. DeletedInv'
    BY <1>0, <1>1, <1>4, <2>2, <2>3, <2>4, <2>5 DEF DeletedInv, Deleted, Talks
  <2> QED  BY <1>4, <2>5, <2>6, <2>7
<1>9. ASSUME RemoveTicket(h)
      PROVE  Goal
  <2>1. call[h] \in DeleteCalls /\ Talks(h)
    BY <1>1, <1>9, CallFields DEF TypeOK, RemoveTicket, Talks
  <2>2. call'[h].ticket = call[h].ticket /\ call[h].ticket \in Tickets
    BY <1>1, <1>9, <2>1 DEF TypeOK, RemoveTicket, Continue, DeleteCalls
  <2>3. \A u \in Tickets :
          ticket'[u] = IF u = call[h].ticket THEN Null ELSE ticket[u]
    BY <1>1, <1>9 DEF TypeOK, RemoveTicket
  <2>4. call[h].ticket <= born.tickets /\ call[h].ticket \notin Deleted
    BY <1>1, <2>1 DEF Bounded, DeletedInv
  <2>5. born' = born /\ events' = events
    BY <1>9 DEF RemoveTicket
  <2>6. Bounded'
    BY <1>0, <1>1, <2>2, <2>3, <2>4, <2>5 DEF Bounded, Talks
  <2>7. DeletedInv'
    BY <1>0, <1>1, <1>4, <2>2, <2>3, <2>4, <2>5 DEF DeletedInv, Deleted, Talks
  <2> QED  BY <1>4, <2>5, <2>6, <2>7
<1>10. ASSUME RecordDeleted(h)
       PROVE  Goal
  <2> DEFINE t == call[h].ticket
  <2>1. /\ t \in Tickets /\ t <= born.tickets /\ t \notin Deleted /\ ticket[t] = Null
        /\ Talks(h)
    BY <1>1, <1>10, TalksType DEF RecordDeleted, Talks, Bounded, DeletedInv
  <2>2. /\ \A i \in DOMAIN events' : events'[i].ticket <= born.tickets
        /\ NothingAfterDeleted' /\ Deleted' = Deleted \cup {call[h].ticket}
    <3>1. Record([type |-> "TICKET_DELETED", ticket |-> call[h].ticket])
      BY <1>10 DEF RecordDeleted
    <3> QED  BY <2>1, <3>1, RecordSerial
  <2>3. call'[h] = Idle /\ ticket' = ticket /\ born' = born
    BY <1>1, <1>10 DEF TypeOK, RecordDeleted, Return
  <2>4. Bounded'
    BY <1>0, <1>1, <2>2, <2>3 DEF Bounded, Talks, Idle
  <2>5. DeletedInv'
    BY <1>0, <1>1, <2>1, <2>2, <2>3 DEF DeletedInv, Talks, Idle
  <2> QED  BY <2>2, <2>4, <2>5
<1>11. ASSUME RecordUpdated(h)
       PROVE  Goal
  <2>1. call[h] \in UpdateCalls
    BY <1>1, <1>11, CallFields DEF TypeOK, RecordUpdated, UpdatePlaces
  <2>2. \/ call'[h] = Idle
        \/ /\ call'[h].at = "recordStatusChanged"
           /\ call'[h].ticket = call[h].ticket
    BY <1>1, <1>11, <2>1 DEF TypeOK, RecordUpdated, Continue, Return, UpdateCalls
  <2>3. Talks(h) /\ UNCHANGED <<ticket, born>>
    BY <1>11 DEF RecordUpdated, Talks
  <2> DEFINE event == [type |-> "TICKET_UPDATED", ticket |-> call[h].ticket,
                       status |-> call[h].dto.status, text |-> call[h].dto.text,
                       plan |-> call[h].dto.plan]
  <2>4. event.ticket = call[h].ticket /\ event.type # "TICKET_DELETED"
    OBVIOUS
  <2>5. Record(event)
    BY <1>11 DEF RecordUpdated
  <2> HIDE DEF event
  <2> QED  BY <1>6, <2>2, <2>3, <2>4, <2>5
<1>12. ASSUME RecordCreated(h) \/ RecordStatusChanged(h) \/ RecordComment(h)
       PROVE  Goal
  <2>1. Talks(h) /\ call'[h] = Idle /\ UNCHANGED <<ticket, born>>
    BY <1>1, <1>12
       DEF TypeOK, RecordCreated, RecordStatusChanged, RecordComment, Talks, Return
  <2>2. PICK event : /\ event.ticket = call[h].ticket /\ Record(event)
                     /\ event.type # "TICKET_DELETED"
    BY <1>12 DEF RecordCreated, RecordStatusChanged, RecordComment
  <2> QED  BY <1>6, <2>1, <2>2
<1>13. ASSUME NEW t \in Tickets,
              \/ \E dto \in Dto : FindForUpdate(h, t, dto)
              \/ FindForDelete(h, t)
              \/ CreateComment(h, t)
       PROVE  Goal
  <2>1. t <= born.tickets /\ t \notin Deleted
    BY <1>1, <1>13 DEF Bounded, DeletedInv, FindForUpdate, FindForDelete, CreateComment
  <2>2. /\ call'[h].at # "recordDeleted" /\ call'[h].ticket = t
        /\ ticket' = ticket /\ events' = events /\ born'.tickets = born.tickets
    BY <1>1, <1>13 DEF TypeOK, FindForUpdate, FindForDelete, CreateComment, Begin
  <2> QED  BY <1>5, <2>1, <2>2
<1>14. ASSUME SelectForUpdate(h)
       PROVE  Goal
  <2>1. call[h] \in UpdateCalls /\ Talks(h)
    BY <1>1, <1>14, CallFields DEF TypeOK, SelectForUpdate, UpdatePlaces, Talks
  <2>2. call'[h].at = "write" /\ call'[h].ticket = call[h].ticket
    BY <1>1, <1>14, <2>1 DEF TypeOK, SelectForUpdate, UpdateCalls
  <2> QED  BY <1>1, <1>5, <1>14, <2>1, <2>2 DEF SelectForUpdate, Bounded, DeletedInv
<1>15. ASSUME \/ WriteConflicts(h) \/ RemoveComment(h) \/ CallFails(h)
              \/ \E c \in Comments : FindComment(h, c)
       PROVE  Goal
  <2>1. /\ call'[h].at \in {"idle", "removeComment"}
        /\ ticket' = ticket /\ events' = events /\ born' = born
    BY <1>1, <1>15
       DEF TypeOK, WriteConflicts, RemoveComment, CallFails, FindComment, Begin,
           Return, Idle
  <2> QED  BY <1>5, <2>1 DEF Talks
<1> QED
  BY <1>7, <1>8, <1>9, <1>10, <1>11, <1>12, <1>13, <1>14, <1>15
     DEF Acts, Start, Step

\* Handlers that act, or do not.
LEMMA SerialStep ==
  ASSUME SerialInv, [Next /\ Apart']_vars
  PROVE  SerialInv'
<1>1. ASSUME NEW h \in Handlers, Acts(h), Apart'
      PROVE  SerialInv'
  BY <1>1, SerialActs
<1>2. CASE UNCHANGED vars
  BY <1>2 DEF vars, SerialInv, TypeOK, Apart, Bounded, DeletedInv, Deleted, Said,
              NothingAfterDeleted, Talks
<1> QED  BY <1>1, <1>2 DEF Next, Acts

LEMMA SerialInit == Init => SerialInv
BY BoundsAssumption
   DEF Init, SerialInv, TypeOK, Apart, Bounded, DeletedInv, NothingAfterDeleted, Deleted,
       Said, Talks, Calls, Idle

\* Calls about one ticket apart, whatever fails: the last event about a ticket is
\* the one that says it was deleted.
THEOREM DeletedIsLast == ApartSpec => []NothingAfterDeleted
<1>1. SerialInv => NothingAfterDeleted
  BY DEF SerialInv
<1> QED  BY <1>1, SerialInit, SerialStep, PTL DEF ApartSpec

-----------------------------------------------------------------------------
(* Calls find what is still there when they write.                         *)

\* An update has found the row it is about to write, and nobody changed it.
Fresh(h) ==
  call[h].at \in {"select", "write"} =>
    /\ ticket[call[h].ticket] # Null
    /\ call[h].oldStatus = ticket[call[h].ticket].status
    /\ call[h].entity = Assign(ticket[call[h].ticket], call[h].dto)
    /\ call[h].at = "write" => call[h].loaded = ticket[call[h].ticket]

FreshInv == TypeOK /\ Apart /\ \A h \in Handlers : Fresh(h)

\* With a fresh row save() writes what it was given.
LEMMA MergeFresh ==
  ASSUME NEW row \in Row, NEW entity \in Row
  PROVE  Merge(row, row, entity) = entity
<1>1. row # Null
  BY NoRowAssumption
<1>2. Merge(row, row, entity) = [c \in Columns |-> entity[c]]
  BY <1>1 DEF Merge
<1> QED  BY <1>2 DEF Row, Columns

\* What the write of an update makes of its row.
LEMMA FreshWrite ==
  ASSUME FreshInv, NEW h \in Handlers, WriteUpdate(h)
  PROVE  /\ call[h] \in UpdateCalls
         /\ call[h].at = "write"
         /\ ticket[call[h].ticket] \in Row
         /\ ticket' = [ticket EXCEPT ![call[h].ticket] = Assign(@, call[h].dto)]
         /\ call[h].oldStatus = ticket[call[h].ticket].status
<1>1. call[h] \in UpdateCalls /\ call[h].at = "write"
  BY CallFields DEF FreshInv, TypeOK, WriteUpdate, UpdatePlaces
<1>2. /\ call[h].ticket \in Tickets /\ call[h].entity \in Row
  BY <1>1 DEF UpdateCalls
<1>3. /\ ticket[call[h].ticket] \in Row
      /\ call[h].loaded = ticket[call[h].ticket]
      /\ call[h].entity = Assign(ticket[call[h].ticket], call[h].dto)
      /\ call[h].oldStatus = ticket[call[h].ticket].status
  BY <1>1, <1>2 DEF FreshInv, Fresh, TypeOK
<1>4. Merge(ticket[call[h].ticket], call[h].loaded, call[h].entity) = call[h].entity
  BY <1>2, <1>3, MergeFresh
<1> QED  BY <1>1, <1>2, <1>3, <1>4 DEF WriteUpdate

LEMMA FreshActs ==
  ASSUME FreshInv, Apart', NEW h \in Handlers, Acts(h)
  PROVE  FreshInv'
<1>1. TypeOK /\ TypeOK' /\ \A g \in Handlers : Fresh(g)
  BY ActsType DEF FreshInv
<1>2. ASSUME NEW g \in Handlers, g # h
      PROVE  Fresh(g)'
  <2>1. /\ call'[g] = call[g]
        /\ Talks(g) => ticket'[call[g].ticket] = ticket[call[g].ticket]
    BY <1>1, <1>2, OthersApart DEF FreshInv
  <2> QED  BY <1>1, <2>1 DEF Fresh, Talks
<1>3. ASSUME call'[h].at \notin {"select", "write"}
      PROVE  Fresh(h)'
  BY <1>3 DEF Fresh
<1>4. ASSUME NEW t \in Tickets, NEW dto \in Dto,
             FindForUpdate(h, t, dto)
      PROVE  Fresh(h)'
  <2>1. /\ call'[h].at = "select" /\ call'[h].ticket = t /\ call'[h].dto = dto
        /\ call'[h].oldStatus = ticket[t].status
        /\ call'[h].entity = Assign(ticket[t], dto)
        /\ ticket' = ticket /\ ticket[t] # Null
    BY <1>1, <1>4 DEF TypeOK, FindForUpdate, Begin
  <2> QED  BY <2>1 DEF Fresh
<1>5. ASSUME SelectForUpdate(h)
      PROVE  Fresh(h)'
  <2>1. call[h] \in UpdateCalls /\ call[h].at = "select"
    BY <1>1, <1>5, CallFields DEF TypeOK, SelectForUpdate, UpdatePlaces
  <2>2. /\ call'[h].at = "write" /\ call'[h].ticket = call[h].ticket
        /\ call'[h].dto = call[h].dto /\ call'[h].oldStatus = call[h].oldStatus
        /\ call'[h].entity = call[h].entity
        /\ call'[h].loaded = ticket[call[h].ticket]
        /\ ticket' = ticket
    BY <1>1, <1>5, <2>1 DEF TypeOK, SelectForUpdate, UpdateCalls
  <2> QED  BY <1>1, <2>1, <2>2 DEF Fresh
<1>6. ASSUME \/ \E text \in Texts, plan \in Plans \cup {Null} : CreateTicket(h, text, plan)
             \/ \E t \in Tickets : FindForDelete(h, t) \/ CreateComment(h, t)
             \/ \E c \in Comments : FindComment(h, c)
      PROVE  call'[h].at \notin {"select", "write"}
  <2>1. CASE \E text \in Texts, plan \in Plans \cup {Null} : CreateTicket(h, text, plan)
    BY <1>1, <2>1 DEF TypeOK, CreateTicket, Begin
  <2>2. CASE \/ \E t \in Tickets : FindForDelete(h, t) \/ CreateComment(h, t)
             \/ \E c \in Comments : FindComment(h, c)
    BY <1>1, <2>2 DEF TypeOK, FindForDelete, CreateComment, FindComment, Begin
  <2> QED  BY <1>6, <2>1, <2>2
<1>7. ASSUME \/ RecordCreated(h) \/ WriteConflicts(h) \/ RecordStatusChanged(h)
             \/ RecordDeleted(h) \/ RecordComment(h) \/ RemoveComment(h)
             \/ CallFails(h)
      PROVE  call'[h].at \notin {"select", "write"}
  BY <1>1, <1>7
     DEF TypeOK, RecordCreated, WriteConflicts, RecordStatusChanged, RecordDeleted,
         RecordComment, RemoveComment, CallFails, Return, Idle
<1>8. ASSUME WriteUpdate(h) \/ RecordUpdated(h)
      PROVE  call'[h].at \notin {"select", "write"}
  <2>1. call[h] \in UpdateCalls
    BY <1>1, <1>8, CallFields DEF TypeOK, WriteUpdate, RecordUpdated, UpdatePlaces
  <2> QED  BY <1>1, <1>8, <2>1
           DEF TypeOK, WriteUpdate, RecordUpdated, Continue, Return, Idle, UpdateCalls
<1>9. ASSUME RemoveTicket(h)
      PROVE  call'[h].at \notin {"select", "write"}
  <2>1. call[h] \in DeleteCalls
    BY <1>1, <1>9, CallFields DEF TypeOK, RemoveTicket
  <2> QED  BY <1>1, <1>9, <2>1 DEF TypeOK, RemoveTicket, Continue, DeleteCalls
<1>10. Fresh(h)'
  BY <1>3, <1>4, <1>5, <1>6, <1>7, <1>8, <1>9 DEF Acts, Start, Step
<1> QED  BY <1>1, <1>2, <1>10 DEF FreshInv

LEMMA FreshStep ==
  ASSUME FreshInv, [Next /\ Apart']_vars
  PROVE  FreshInv'
<1>1. ASSUME NEW h \in Handlers, Acts(h), Apart'
      PROVE  FreshInv'
  BY <1>1, FreshActs
<1>2. CASE UNCHANGED vars
  BY <1>2 DEF vars, FreshInv, TypeOK, Apart, Talks, Fresh
<1> QED  BY <1>1, <1>2 DEF Next, Acts

-----------------------------------------------------------------------------
(* A consumer that reads the events in their order.                        *)

\* f is what the consumer has after each number of events.
IsViews(f) ==
  f = [n \in 0..Len(events) |->
         IF n = 0 THEN NothingSeen ELSE Seen(f[n - 1], events[n])]

\* The consumer of all events ends with `view'.
Ends(view) == \E f : IsViews(f) /\ view = f[Len(events)]

\* A recursive function is one of those that satisfy its definition, if any.
LEMMA ViewEnds ==
  ASSUME NEW view
  PROVE  /\ Ends(view) => Ends(View)
         /\ Ends(view)' => Ends(View)'
<1>1. /\ Views = CHOOSE f : IsViews(f)
      /\ Views' = CHOOSE f : IsViews(f)'
  BY Zenon DEF Views, IsViews, NothingSeen, Seen
<1>2. (\E f : IsViews(f)) => IsViews(Views)
  BY <1>1, Zenon
<1>3. (\E f : IsViews(f)') => IsViews(Views)'
  BY <1>1, Zenon DEF IsViews
<1> QED  BY <1>2, <1>3, Zenon DEF Ends, View

\* One more event is one more step of the consumer.
LEMMA EndsRecord ==
  ASSUME TypeOK, NEW event, Record(event)
  PROVE  /\ \A view : Ends(view) => Ends(Seen(view, event))'
         /\ \A view : Ends(view)' => \E before : Ends(before) /\ view = Seen(before, event)
<1> DEFINE n == Len(events)
<1>1. /\ n \in Nat /\ Len(events') = n + 1
      /\ events'[n + 1] = event /\ \A i \in 1..n : events'[i] = events[i]
  <2>1. events \in Seq(Events)
    BY DEF TypeOK
  <2> HIDE DEF Events
  <2> QED  BY <2>1 DEF Record
<1> HIDE DEF n
<1>2. ASSUME NEW view, Ends(view)
      PROVE  Ends(Seen(view, event))'
  <2>1. PICK f : IsViews(f) /\ view = f[n]
    BY <1>2 DEF Ends, n
  <2> DEFINE g == [i \in 0..(n + 1) |-> IF i = n + 1 THEN Seen(f[n], event) ELSE f[i]]
  <2>2. \A i \in 0..n : f[i] = IF i = 0 THEN NothingSeen ELSE Seen(f[i - 1], events[i])
    BY <2>1 DEF IsViews, n
  <2>3. \A i \in 0..(n + 1) :
          g[i] = IF i = 0 THEN NothingSeen ELSE Seen(g[i - 1], events'[i])
    BY <1>1, <2>2
  <2>4. g = [i \in 0..(n + 1) |->
               IF i = 0 THEN NothingSeen ELSE Seen(g[i - 1], events'[i])]
    BY <2>3
  <2>5. g[n + 1] = Seen(view, event)
    BY <1>1, <2>1
  <2> HIDE DEF g
  <2>6. \E k : /\ k = [i \in 0..(n + 1) |->
                         IF i = 0 THEN NothingSeen ELSE Seen(k[i - 1], events'[i])]
               /\ Seen(view, event) = k[n + 1]
    BY <2>4, <2>5
  <2> QED  BY <1>1, <2>6 DEF Ends, IsViews
<1>3. ASSUME NEW view, Ends(view)'
      PROVE  \E before : Ends(before) /\ view = Seen(before, event)
  <2>1. PICK f : /\ f = [i \in 0..(n + 1) |->
                           IF i = 0 THEN NothingSeen ELSE Seen(f[i - 1], events'[i])]
                 /\ view = f[n + 1]
    BY <1>1, <1>3 DEF Ends, IsViews
  <2> DEFINE g == [i \in 0..n |-> f[i]]
  <2>2. \A i \in 0..(n + 1) :
          f[i] = IF i = 0 THEN NothingSeen ELSE Seen(f[i - 1], events'[i])
    BY <2>1
  <2>3. \A i \in 0..n : g[i] = IF i = 0 THEN NothingSeen ELSE Seen(g[i - 1], events[i])
    BY <1>1, <2>2
  <2>4. g = [i \in 0..n |-> IF i = 0 THEN NothingSeen ELSE Seen(g[i - 1], events[i])]
    BY <2>3
  <2>5. view = Seen(g[n], event)
    BY <1>1, <2>1, <2>2
  <2> HIDE DEF g
  <2>6. Ends(g[n])
    BY <2>4 DEF Ends, IsViews, n
  <2> QED  BY <2>5, <2>6
<1> QED  BY <1>2, <1>3

Sights == [table: [Tickets -> Row \cup {Null}], told: [Tickets -> Seq(Events)]]

LEMMA SeenType ==
  ASSUME NEW view \in Sights, NEW event \in Events
  PROVE  Seen(view, event) \in Sights
<1>1. event.ticket \in Tickets
  BY DEF Events
<1>2. view.table \in [Tickets -> Row \cup {Null}] /\ view.told \in [Tickets -> Seq(Events)]
  BY DEF Sights
<1>3. Append(view.told[event.ticket], event) \in Seq(Events)
  <2>1. view.told[event.ticket] \in Seq(Events)
    BY <1>1, <1>2
  <2> HIDE DEF Events
  <2> QED  BY <2>1
<1>4. Apply(view.table, event) \in [Tickets -> Row \cup {Null}]
  <2>1. CASE event.type = "TICKET_CREATED"
    <3>1. event.status = Todo /\ event.text \in Texts
      BY <2>1 DEF Events
    <3> QED  BY <1>1, <1>2, <2>1, <3>1, TodoAssumption DEF Apply, Row
  <2>2. CASE event.type = "TICKET_UPDATED" /\ view.table[event.ticket] # Null
    <3>1. /\ event.status \in Statuses \cup {Null} /\ event.text \in Texts \cup {Null}
          /\ event.plan \in Plans \cup {Null}
      BY <2>2 DEF Events
    <3>2. view.table[event.ticket] \in Row
      BY <1>1, <1>2, <2>2
    <3>3. Assign(view.table[event.ticket], event) \in Row
      BY <3>1, <3>2 DEF Assign, Row, Columns
    <3> QED  BY <1>1, <1>2, <2>2, <3>3 DEF Apply
  <2>3. CASE event.type = "TICKET_DELETED"
    BY <1>1, <1>2, <2>3 DEF Apply
  <2>4. CASE /\ event.type \notin {"TICKET_CREATED", "TICKET_DELETED"}
             /\ ~ (event.type = "TICKET_UPDATED" /\ view.table[event.ticket] # Null)
    BY <1>2, <2>4 DEF Apply
  <2> QED  BY <2>1, <2>2, <2>3, <2>4
<1> QED  BY <1>1, <1>2, <1>3, <1>4 DEF Seen, Sights

\* There is one consumer, and it has rows and events.
ViewInv ==
  /\ Ends(View)
  /\ \A view : Ends(view) => view = View
  /\ View \in Sights

LEMMA ViewRecord ==
  ASSUME TypeOK, ViewInv, NEW event \in Events, Record(event)
  PROVE  ViewInv' /\ View' = Seen(View, event)
<1>1. Ends(View)'
  BY EndsRecord, ViewEnds DEF ViewInv
<1>2. \A view : Ends(view)' => view = Seen(View, event)
  BY EndsRecord DEF ViewInv
<1>3. View' = Seen(View, event)
  BY <1>1, <1>2
<1> QED  BY <1>1, <1>2, <1>3, SeenType DEF ViewInv

LEMMA ViewKept ==
  ASSUME UNCHANGED events
  PROVE  View' = View /\ (ViewInv => ViewInv')
<1>1. View' = View
  BY DEF View, Views
<1> QED  BY <1>1 DEF ViewInv, Ends, IsViews

LEMMA ViewInit == Init => ViewInv /\ View = NothingSeen
<1> SUFFICES ASSUME Init PROVE ViewInv /\ View = NothingSeen
  OBVIOUS
<1>1. Len(events) = 0
  BY DEF Init
<1>2. \A view : Ends(view) => view = NothingSeen
  BY <1>1 DEF Ends, IsViews
<1>3. Ends(NothingSeen)
  <2> DEFINE f == [n \in 0..0 |-> NothingSeen]
  <2>1. f = [n \in 0..0 |-> IF n = 0 THEN NothingSeen ELSE Seen(f[n - 1], events[n])]
    OBVIOUS
  <2>2. f[0] = NothingSeen
    OBVIOUS
  <2> HIDE DEF f
  <2> QED  BY <1>1, <2>1, <2>2 DEF Ends, IsViews
<1>4. Ends(View)
  BY <1>3, ViewEnds
<1>5. NothingSeen \in Sights
  BY DEF NothingSeen, NoTickets, Sights
<1> QED  BY <1>2, <1>3, <1>4, <1>5 DEF ViewInv
\* A step changes what is seen of the ticket it is about, if any.
LEMMA ViewAbout ==
  ASSUME TypeOK, ViewInv, NEW h \in Handlers, Acts(h)
  PROVE  /\ ViewInv'
         /\ \A u \in Tickets :
              /\ Talks(h) => call[h].ticket # u
              /\ Talks(h)' => call'[h].ticket # u
              => /\ ticket'[u] = ticket[u]
                 /\ View'.table[u] = View.table[u]
                 /\ View'.told[u] = View.told[u]
<1>1. CASE UNCHANGED events
  BY <1>1, ActsAbout, ViewKept
<1>2. ASSUME NEW event \in Events, Record(event)
      PROVE  /\ ViewInv' /\ View' = Seen(View, event)
             /\ \A u \in Tickets \ {event.ticket} :
                  View'.table[u] = View.table[u] /\ View'.told[u] = View.told[u]
  <2>1. ViewInv' /\ View' = Seen(View, event)
    BY <1>2, ViewRecord
  <2>2. View.table \in [Tickets -> Row \cup {Null}] /\ View.told \in [Tickets -> Seq(Events)]
    BY DEF ViewInv, Sights
  <2>3. View'.table = Apply(View.table, event)
        /\ View'.told = [View.told EXCEPT ![event.ticket] = Append(@, event)]
    BY <2>1 DEF Seen
  <2>4. \A u \in Tickets \ {event.ticket} : View'.table[u] = View.table[u]
    BY <2>2, <2>3 DEF Apply
  <2>5. \A u \in Tickets \ {event.ticket} : View'.told[u] = View.told[u]
    BY <2>2, <2>3
  <2> QED  BY <2>1, <2>4, <2>5
<1>3. CASE \E event \in Events : Record(event)
  <2>1. ViewInv'
    BY <1>2, <1>3
  <2>2. ASSUME NEW u \in Tickets,
               Talks(h) => call[h].ticket # u, Talks(h)' => call'[h].ticket # u
        PROVE  /\ ticket'[u] = ticket[u]
               /\ View'.table[u] = View.table[u] /\ View'.told[u] = View.told[u]
    <3>1. CASE UNCHANGED <<ticket, events>>
      BY <3>1, ViewKept
    <3>2. CASE ~ UNCHANGED <<ticket, events>>
      <4>1. PICK t \in Tickets :
              /\ Talks(h) => call[h].ticket = t
              /\ Talks(h)' => call'[h].ticket = t
              /\ Talks(h) \/ Talks(h)'
              /\ \A v \in Tickets \ {t} : ticket'[v] = ticket[v]
              /\ \/ UNCHANGED events
                 \/ \E event \in Events : event.ticket = t /\ Record(event)
        BY <3>2, ActsAbout
      <4>2. u # t
        BY <2>2, <4>1
      <4>3. CASE UNCHANGED events
        BY <4>1, <4>2, <4>3, ViewKept
      <4>4. CASE \E event \in Events : event.ticket = t /\ Record(event)
        BY <1>2, <4>1, <4>2, <4>4
      <4> QED  BY <4>1, <4>3, <4>4
    <3> QED  BY <3>1, <3>2
  <2> QED  BY <2>1, <2>2
<1> QED  BY <1>1, <1>3, ActsAbout

\* What the consumer makes of an event about t.
LEMMA SeenEffect ==
  ASSUME TypeOK, ViewInv, NEW event \in Events, Record(event)
  PROVE  /\ event.type = "TICKET_CREATED" =>
              Replica'[event.ticket] =
                [status |-> event.status, text |-> event.text, plan |-> Null]
         /\ event.type = "TICKET_UPDATED" /\ Replica[event.ticket] # Null =>
              Replica'[event.ticket] = Assign(Replica[event.ticket], event)
         /\ event.type = "TICKET_DELETED" => Replica'[event.ticket] = Null
         /\ event.type \in {"TICKET_STATUS_CHANGED", "TICKET_COMMENT_ADDED"} =>
              Replica' = Replica
         /\ View'.told[event.ticket] = Append(View.told[event.ticket], event)
<1>1. Replica' = Apply(Replica, event)
      /\ View'.told = [View.told EXCEPT ![event.ticket] = Append(@, event)]
  BY ViewRecord DEF Seen, Replica
<1>2. Replica \in [Tickets -> Row \cup {Null}] /\ View.told \in [Tickets -> Seq(Events)]
  BY DEF ViewInv, Sights, Replica
<1>3. event.ticket \in Tickets
  BY DEF Events
<1>4. View'.told[event.ticket] = Append(View.told[event.ticket], event)
  BY <1>1, <1>2, <1>3
<1>5. event.type = "TICKET_UPDATED" /\ Replica[event.ticket] # Null =>
        Replica'[event.ticket] = Assign(Replica[event.ticket], event)
  BY <1>1, <1>2, <1>3 DEF Apply
<1> QED  BY <1>1, <1>2, <1>3, <1>4, <1>5 DEF Apply

-----------------------------------------------------------------------------
(* Its table lags behind by what calls are about to record.                *)

\* A row that an update has written shows what the event of the update tells.
LEMMA VisibleAssign ==
  ASSUME NEW row \in Row, NEW dto \in Dto, NEW told \in BOOLEAN
  PROVE  /\ Visible(row, told) \in Row
         /\ Assign(Visible(row, told), dto)
              = Visible(Assign(row, dto), told \/ dto.plan # Null)
<1>1. Visible(row, told) =
        [status |-> row.status, text |-> row.text,
         plan |-> IF told THEN row.plan ELSE Null]
  BY DEF Visible, Row
<1>2. Visible(row, told) \in Row
  BY <1>1 DEF Row
<1>3. \A r \in Row :
        Assign(r, dto) =
          [status |-> IF dto.status = Null THEN r.status ELSE dto.status,
           text   |-> IF dto.text = Null THEN r.text ELSE dto.text,
           plan   |-> IF dto.plan = Null THEN r.plan ELSE dto.plan]
  BY DEF Assign, Columns
<1>4. Visible(Assign(row, dto), told \/ dto.plan # Null) =
        [status |-> IF dto.status = Null THEN row.status ELSE dto.status,
         text   |-> IF dto.text = Null THEN row.text ELSE dto.text,
         plan   |-> IF dto.plan # Null THEN dto.plan
                    ELSE IF told THEN row.plan ELSE Null]
  BY <1>3 DEF Visible
<1>5. Assign(Visible(row, told), dto) =
        [status |-> IF dto.status = Null THEN row.status ELSE dto.status,
         text   |-> IF dto.text = Null THEN row.text ELSE dto.text,
         plan   |-> IF dto.plan # Null THEN dto.plan
                    ELSE IF told THEN row.plan ELSE Null]
  BY <1>1, <1>2, <1>3
<1> QED  BY <1>2, <1>4, <1>5

\* Which event makes a plan known.
LEMMA PlanToldEffect ==
  ASSUME TypeOK
  PROVE  /\ UNCHANGED events => \A t : PlanIsTold(t)' <=> PlanIsTold(t)
         /\ \A event : Record(event) =>
              \A t : PlanIsTold(t)' <=>
                      \/ PlanIsTold(t)
                      \/ /\ event.type = "TICKET_UPDATED" /\ event.ticket = t
                         /\ event.plan # Null
<1>1. ASSUME UNCHANGED events
      PROVE  \A t : PlanIsTold(t)' <=> PlanIsTold(t)
  BY <1>1 DEF PlanIsTold
<1>2. ASSUME NEW event, Record(event)
      PROVE  \A t : PlanIsTold(t)' <=>
                     \/ PlanIsTold(t)
                     \/ /\ event.type = "TICKET_UPDATED" /\ event.ticket = t
                        /\ event.plan # Null
  BY <1>2, RecordEffect DEF PlanIsTold
<1> QED  BY <1>1, <1>2

Lagging(h) == call[h].at \in {"recordCreated", "recordUpdated", "recordDeleted"}

\* What the event a lagging call is to record will make of the consumer's row.
Lags(h) ==
  LET c == call[h] IN
  /\ c.at = "recordCreated" =>
       /\ ticket[c.ticket] \in Row /\ ~ PlanIsTold(c.ticket)
       /\ ticket[c.ticket].status = Todo /\ ticket[c.ticket].text = c.text
  /\ c.at = "recordUpdated" =>
       \E row \in Row :
         /\ Replica[c.ticket] = Visible(row, PlanIsTold(c.ticket))
         /\ ticket[c.ticket] = Assign(row, c.dto)
  /\ c.at = "recordDeleted" => ticket[c.ticket] = Null

Follows(t) ==
  /\ \A h \in Handlers : Lagging(h) /\ call[h].ticket = t => Lags(h)
  /\ (\A h \in Handlers : Lagging(h) => call[h].ticket # t) => Replica[t] = Shown(t)

ReplayInv ==
  /\ SerialInv
  /\ FreshInv
  /\ ViewInv
  /\ faults = 0 => \A t \in Tickets : Follows(t)

LEMMA ReplayActs ==
  ASSUME ReplayInv, Apart', NEW h \in Handlers, Acts(h)
  PROVE  ReplayInv'
<1>1. /\ FreshInv /\ FreshInv' /\ ViewInv /\ ViewInv' /\ TypeOK /\ TypeOK' /\ Apart
      /\ [Next]_vars /\ SerialInv /\ SerialInv'
  BY ActsType, FreshActs, SerialActs, ViewAbout DEF ReplayInv, FreshInv
<1>2. SUFFICES ASSUME faults' = 0
               PROVE  \A t \in Tickets : Follows(t)'
  BY <1>1 DEF ReplayInv
<1>3. \A t \in Tickets : Follows(t)
  BY <1>1, <1>2, FaultsKept DEF ReplayInv
<1>4. \A g \in Handlers : Lagging(g) => Talks(g)
  BY DEF Lagging, Talks
<1>5. \A g \in Handlers : Lagging(g)' => Talks(g)'
  BY DEF Lagging, Talks
<1>6. \A g \in Handlers \ {h} : call'[g] = call[g]
  BY <1>1, ActsAbout
\* Tickets the call is not about.
<1>7. ASSUME NEW u \in Tickets,
             Talks(h) => call[h].ticket # u, Talks(h)' => call'[h].ticket # u
      PROVE  Follows(u)'
  <2>1. /\ ticket'[u] = ticket[u] /\ Replica'[u] = Replica[u]
        /\ PlanIsTold(u)' <=> PlanIsTold(u)
    <3>1. \/ UNCHANGED events
          \/ \E event : Record(event) /\ event.ticket # u
      BY <1>1, <1>7, ActsAbout
    <3>2. PlanIsTold(u)' <=> PlanIsTold(u)
      BY <1>1, <3>1, PlanToldEffect
    <3> QED  BY <1>1, <1>7, <3>2, ViewAbout DEF Replica
  <2>2. \A g \in Handlers :
          /\ (Lagging(g) /\ call[g].ticket = u) <=> (Lagging(g)' /\ call'[g].ticket = u)
          /\ Lagging(g) /\ call[g].ticket = u => call'[g] = call[g]
    BY <1>4, <1>5, <1>6, <1>7 DEF Lagging
  <2>3. Shown(u)' = Shown(u)
    BY <2>1 DEF Shown, Visible
  <2>4. (\A g \in Handlers : Lagging(g) => call[g].ticket # u) => Replica[u] = Shown(u)
    BY <1>3 DEF Follows
  <2>5. ASSUME NEW g \in Handlers, Lagging(g)', call'[g].ticket = u
        PROVE  Lags(g)'
    <3>1. Lagging(g) /\ call[g].ticket = u /\ call'[g] = call[g] /\ Lags(g)
      BY <1>3, <2>2, <2>5 DEF Follows
    <3>2. PlanIsTold(call[g].ticket)' <=> PlanIsTold(call[g].ticket)
      BY <2>1, <3>1 DEF PlanIsTold
    <3>3. \A row : Visible(row, PlanIsTold(call[g].ticket)')
                    = Visible(row, PlanIsTold(call[g].ticket))
      BY <3>2 DEF Visible
    <3> QED  BY <2>1, <3>1, <3>2, <3>3 DEF Lags
  <2> QED  BY <2>1, <2>2, <2>3, <2>4, <2>5 DEF Follows
\* The ticket the call is about.
<1>8. ASSUME NEW t \in Tickets, Talks(h), call[h].ticket = t
      PROVE  /\ Lagging(h) => Lags(h)
             /\ ~ Lagging(h) => Replica[t] = Shown(t)
  BY <1>1, <1>3, <1>4, <1>8 DEF Follows, Apart
<1>9. ASSUME NEW t \in Tickets, Talks(h)', call'[h].ticket = t, ~ Talks(h)
      PROVE  Replica[t] = Shown(t)
  <2>1. \A g \in Handlers : Lagging(g) => call[g].ticket # t
    BY <1>1, <1>4, <1>9, OthersApart
  <2> QED  BY <1>3, <2>1 DEF Follows
<1>10. ASSUME NEW t \in Tickets, Talks(h) \/ Talks(h)',
              Talks(h) => call[h].ticket = t, Talks(h)' => call'[h].ticket = t,
              Lagging(h)' => Lags(h)', ~ Lagging(h)' => Replica'[t] = Shown(t)'
       PROVE  Follows(t)'
  <2>1. \A g \in Handlers \ {h} : Lagging(g)' => call'[g].ticket # t
    <3> SUFFICES ASSUME NEW g \in Handlers \ {h}, Lagging(g)'
                 PROVE  call'[g].ticket # t
      OBVIOUS
    <3>1. call'[g] = call[g] /\ Talks(g)
      BY <1>6 DEF Lagging, Talks
    <3> QED  BY <1>1, <1>10, <3>1, OthersApart
  <2>2. Lagging(h)' => call'[h].ticket = t
    BY <1>5, <1>10
  <2> QED  BY <1>10, <2>1, <2>2 DEF Follows
<1>11. CASE ~ Talks(h) /\ ~ Talks(h)'
  BY <1>7, <1>11
<1>12. CASE Talks(h) \/ Talks(h)'
  <2>1. PICK t \in Tickets :
          /\ Talks(h) => call[h].ticket = t
          /\ Talks(h)' => call'[h].ticket = t
          /\ \A u \in Tickets \ {t} : ticket'[u] = ticket[u]
    BY <1>1, <1>12, ActsAbout
  <2> DEFINE Goal == /\ Lagging(h)' => Lags(h)'
                     /\ ~ Lagging(h)' => Replica'[t] = Shown(t)'
  <2>2. SUFFICES Goal
    BY <1>7, <1>10, <1>12, <2>1
  <2>3. /\ Lagging(h) => Lags(h) /\ call[h].ticket = t
        /\ ~ Lagging(h) => Replica[t] = Shown(t)
    BY <1>4, <1>8, <1>9, <1>12, <2>1
  <2>4. ticket \in [Tickets -> Row \cup {Null}] /\ call[h] \in Calls
        /\ Replica \in [Tickets -> Row \cup {Null}]
    BY <1>1 DEF TypeOK, ViewInv, Sights, Replica
  \* Steps that change no row and record nothing.
  <2>5. ASSUME ~ Lagging(h), ~ Lagging(h)', UNCHANGED <<ticket, events>>
        PROVE  Goal
    <3>1. PlanIsTold(t)' <=> PlanIsTold(t)
      BY <1>1, <2>5, PlanToldEffect
    <3> QED  BY <2>3, <2>5, <3>1, ViewKept DEF Replica, Shown, Visible
  \* Steps that record what the consumer lagged behind by.
  <2>6. ASSUME ~ Lagging(h)', UNCHANGED ticket,
               \/ ticket[t] = Null /\ Replica'[t] = Null
               \/ ticket[t] # Null /\ Replica'[t] = Visible(ticket[t], PlanIsTold(t)')
        PROVE  Goal
    BY <2>6 DEF Shown
  <2>7. ASSUME NEW text \in Texts, NEW plan \in Plans \cup {Null},
             CreateTicket(h, text, plan)
        PROVE  Goal
    <3> DEFINE u == born.tickets + 1
    <3>1. /\ call'[h] = [at |-> "recordCreated", ticket |-> u, text |-> text]
          /\ ticket' = [ticket EXCEPT ![u] =
                          [status |-> Todo, text |-> text, plan |-> plan]]
          /\ UNCHANGED events
      BY <1>1, <2>7 DEF TypeOK, CreateTicket, Begin
    <3>2. t = u /\ Lagging(h)' /\ call'[h].at = "recordCreated" /\ call'[h].ticket = t
      BY <2>1, <3>1 DEF Talks, Lagging
    <3>3. ~ PlanIsTold(t)'
      <4>1. born.tickets \in Nat
        BY <1>1, BoundsAssumption DEF TypeOK
      <4>2. ~ PlanIsTold(t)
        BY <1>1, <3>2, <4>1 DEF SerialInv, Bounded, PlanIsTold
      <4> QED  BY <1>1, <3>1, <4>2, PlanToldEffect
    <3>4. ticket'[t] = [status |-> Todo, text |-> text, plan |-> plan]
      BY <2>4, <3>1, <3>2
    <3>5. ticket'[t] \in Row /\ ticket'[t].status = Todo /\ ticket'[t].text = text
      BY <3>4, TodoAssumption DEF Row
    <3>6. call'[h].text = text
      BY <3>1
    <3> QED  BY <3>2, <3>3, <3>5, <3>6 DEF Lags
  <2>8. ASSUME NEW u \in Tickets,
               \/ \E dto \in Dto : FindForUpdate(h, u, dto)
               \/ FindForDelete(h, u)
               \/ CreateComment(h, u)
        PROVE  Goal
    <3>1. ~ Lagging(h) /\ ~ Lagging(h)' /\ UNCHANGED <<ticket, events>>
      BY <1>1, <2>8
         DEF TypeOK, FindForUpdate, FindForDelete, CreateComment, Begin, Lagging, Idle
    <3> QED  BY <2>5, <3>1
  <2>9. ASSUME NEW c \in Comments, FindComment(h, c)
        PROVE  Goal
    <3>1. ~ Lagging(h) /\ ~ Lagging(h)' /\ UNCHANGED <<ticket, events>>
      BY <1>1, <2>9 DEF TypeOK, FindComment, Begin, Lagging, Idle
    <3> QED  BY <2>5, <3>1
  <2>10. CASE SelectForUpdate(h)
    <3>1. call[h] \in UpdateCalls
      BY <2>4, <2>10, CallFields DEF SelectForUpdate, UpdatePlaces
    <3>2. ~ Lagging(h) /\ ~ Lagging(h)' /\ UNCHANGED <<ticket, events>>
      BY <1>1, <2>10, <3>1 DEF TypeOK, SelectForUpdate, UpdateCalls, Lagging
    <3> QED  BY <2>5, <3>2
  <2>11. CASE WriteConflicts(h) \/ RemoveComment(h)
    <3>1. ~ Lagging(h) /\ ~ Lagging(h)' /\ UNCHANGED <<ticket, events>>
      BY <1>1, <2>11 DEF TypeOK, WriteConflicts, RemoveComment, Return, Lagging, Idle
    <3> QED  BY <2>5, <3>1
  <2>12. CASE WriteUpdate(h)
    <3>1. /\ call[h] \in UpdateCalls /\ call[h].at = "write"
          /\ ticket[call[h].ticket] \in Row
          /\ ticket' = [ticket EXCEPT ![call[h].ticket] = Assign(@, call[h].dto)]
      BY <1>1, <2>12, FreshWrite
    <3>2. /\ call'[h].at = "recordUpdated" /\ call'[h].ticket = t
          /\ call'[h].dto = call[h].dto /\ call[h].ticket = t
      BY <1>1, <2>1, <2>12, <3>1 DEF TypeOK, WriteUpdate, Continue, UpdateCalls, Talks
    <3>3. Replica[t] = Visible(ticket[t], PlanIsTold(t))
      BY <2>3, <3>1, <3>2, NoRowAssumption DEF Lagging, Shown
    <3>4. Replica' = Replica /\ (PlanIsTold(t)' <=> PlanIsTold(t))
      BY <1>1, <2>12, ViewKept, PlanToldEffect DEF WriteUpdate, Replica
    <3>5. Replica'[t] = Visible(ticket[t], PlanIsTold(t)')
      BY <3>3, <3>4 DEF Visible
    <3>6. ticket'[t] = Assign(ticket[t], call'[h].dto) /\ ticket[t] \in Row
      BY <2>4, <3>1, <3>2
    <3> QED  BY <3>2, <3>5, <3>6 DEF Lags, Lagging
  <2>13. CASE RemoveTicket(h)
    <3>1. call[h] \in DeleteCalls /\ call[h].at = "remove"
      BY <2>4, <2>13, CallFields DEF RemoveTicket
    <3>2. /\ call'[h].at = "recordDeleted" /\ call'[h].ticket = t
          /\ ticket' = [ticket EXCEPT ![t] = Null]
      BY <1>1, <2>1, <2>13, <3>1 DEF TypeOK, RemoveTicket, Continue, DeleteCalls, Talks
    <3> QED  BY <2>4, <3>2 DEF Lags, Lagging
  <2>14. CASE RecordCreated(h)
    <3> DEFINE event == [type |-> "TICKET_CREATED", ticket |-> call[h].ticket,
                         status |-> Todo, text |-> call[h].text]
    <3>1. Record(event) /\ event \in Events /\ call[h].at = "recordCreated"
      BY <1>1, <2>14, EventType DEF RecordCreated
    <3>2. ~ Lagging(h)' /\ UNCHANGED ticket
      BY <1>1, <2>14 DEF TypeOK, RecordCreated, Return, Lagging, Idle
    <3>3. /\ call[h].ticket = t /\ ticket[t] \in Row /\ ~ PlanIsTold(t)
          /\ ticket[t].status = Todo /\ ticket[t].text = call[h].text
      BY <2>3, <3>1 DEF Lagging, Lags
    <3>4. /\ event.type = "TICKET_CREATED" /\ event.ticket = t /\ event.status = Todo
          /\ event.text = call[h].text
      BY <3>3
    <3> HIDE DEF event
    <3>5. Replica'[t] = [status |-> Todo, text |-> call[h].text, plan |-> Null]
      BY <1>1, <3>1, <3>4, SeenEffect
    <3>6. ~ PlanIsTold(t)'
      BY <1>1, <3>1, <3>3, <3>4, PlanToldEffect
    <3>7. Visible(ticket[t], FALSE) = [status |-> Todo, text |-> call[h].text, plan |-> Null]
      BY <3>3 DEF Visible, Row
    <3>8. Replica'[t] = Visible(ticket[t], PlanIsTold(t)') /\ ticket[t] # Null
      BY <3>3, <3>5, <3>6, <3>7, NoRowAssumption DEF Visible
    <3> QED  BY <2>6, <3>2, <3>8
  <2>15. CASE RecordUpdated(h)
    <3> DEFINE event == [type |-> "TICKET_UPDATED", ticket |-> call[h].ticket,
                         status |-> call[h].dto.status, text |-> call[h].dto.text,
                         plan |-> call[h].dto.plan]
    <3>1. Record(event) /\ event \in Events /\ call[h].at = "recordUpdated"
      BY <1>1, <2>15, EventType DEF RecordUpdated
    <3>2. call[h] \in UpdateCalls
      BY <2>4, <3>1, CallFields DEF UpdatePlaces
    <3>3. ~ Lagging(h)' /\ UNCHANGED ticket
      BY <1>1, <2>15, <3>2
         DEF TypeOK, RecordUpdated, Continue, Return, Lagging, Idle, UpdateCalls
    <3>4. PICK row \in Row :
            /\ call[h].ticket = t
            /\ Replica[t] = Visible(row, PlanIsTold(t))
            /\ ticket[t] = Assign(row, call[h].dto)
      BY <2>3, <3>1 DEF Lagging, Lags
    <3>5. /\ event.type = "TICKET_UPDATED" /\ event.ticket = t
          /\ event.status = call[h].dto.status /\ event.text = call[h].dto.text
          /\ event.plan = call[h].dto.plan
      BY <3>4
    <3> HIDE DEF event
    <3>6. Assign(Replica[t], event) = Assign(Replica[t], call[h].dto)
      BY <3>5 DEF Assign, Columns
    <3>7. PICK dto \in Dto, told \in BOOLEAN :
            dto = call[h].dto /\ (told <=> PlanIsTold(t))
      BY <3>2 DEF UpdateCalls
    <3>8. Replica[t] = Visible(row, told) /\ Replica[t] # Null
      BY <3>4, <3>7, VisibleAssign, NoRowAssumption DEF Visible
    <3>9. Replica'[t] = Assign(Visible(row, told), dto)
      BY <1>1, <3>1, <3>5, <3>6, <3>7, <3>8, SeenEffect
    <3>10. PlanIsTold(t)' <=> told \/ dto.plan # Null
      BY <1>1, <3>1, <3>5, <3>7, PlanToldEffect
    <3>11. Replica'[t] = Visible(ticket[t], told \/ dto.plan # Null)
      BY <3>4, <3>7, <3>9, VisibleAssign
    <3>12. Replica'[t] = Visible(ticket[t], PlanIsTold(t)')
      BY <3>10, <3>11 DEF Visible
    <3>13. ticket[t] # Null
      BY <3>4, <3>7, AssignType, NoRowAssumption
    <3> QED  BY <2>6, <3>3, <3>12, <3>13
  <2>16. CASE RecordDeleted(h)
    <3> DEFINE event == [type |-> "TICKET_DELETED", ticket |-> call[h].ticket]
    <3>1. Record(event) /\ event \in Events /\ call[h].at = "recordDeleted"
      BY <1>1, <2>16, EventType DEF RecordDeleted
    <3>2. ~ Lagging(h)' /\ UNCHANGED ticket
      BY <1>1, <2>16 DEF TypeOK, RecordDeleted, Return, Lagging, Idle
    <3>3. call[h].ticket = t /\ ticket[t] = Null
      BY <2>3, <3>1 DEF Lagging, Lags
    <3>4. event.type = "TICKET_DELETED" /\ event.ticket = t
      BY <3>3
    <3> HIDE DEF event
    <3>5. Replica'[t] = Null
      BY <1>1, <3>1, <3>4, SeenEffect
    <3> QED  BY <2>6, <3>2, <3>3, <3>5
  <2>17. CASE RecordStatusChanged(h) \/ RecordComment(h)
    <3>1. /\ \E event \in Events :
               /\ Record(event)
               /\ event.type \in {"TICKET_STATUS_CHANGED", "TICKET_COMMENT_ADDED"}
          /\ call[h].at \in {"recordStatusChanged", "recordComment"}
      BY <1>1, <2>17, EventType DEF RecordStatusChanged, RecordComment
    <3>2. ~ Lagging(h)' /\ UNCHANGED ticket
      BY <1>1, <2>17
         DEF TypeOK, RecordStatusChanged, RecordComment, Return, Lagging, Idle
    <3>3. Replica[t] = Shown(t)
      BY <2>3, <3>1 DEF Lagging
    <3>4. Replica' = Replica /\ (PlanIsTold(t)' <=> PlanIsTold(t))
      BY <1>1, <3>1, SeenEffect, PlanToldEffect
    <3> QED  BY <3>2, <3>3, <3>4 DEF Shown, Visible
  <2>18. CASE CallFails(h)
    BY <1>1, <1>2, <2>18, FaultsKept DEF CallFails
  <2> QED
    BY <2>7, <2>8, <2>9, <2>10, <2>11, <2>12, <2>13, <2>14, <2>15, <2>16, <2>17, <2>18
       DEF Acts, Start, Step
<1> QED  BY <1>11, <1>12

LEMMA ReplayStep ==
  ASSUME ReplayInv, [Next /\ Apart']_vars
  PROVE  ReplayInv'
<1>1. ASSUME NEW h \in Handlers, Acts(h), Apart'
      PROVE  ReplayInv'
  BY <1>1, ReplayActs
<1>2. CASE UNCHANGED vars
  <2>1. SerialInv' /\ FreshInv' /\ ViewInv' /\ View' = View
    BY <1>2, SerialStep, FreshStep, ViewKept DEF ReplayInv, vars
  <2>2. \A t : PlanIsTold(t)' = PlanIsTold(t)
    BY <1>2 DEF vars, PlanIsTold
  <2> QED  BY <1>2, <2>1, <2>2
           DEF vars, ReplayInv, Follows, Lags, Lagging, Replica, Shown, Visible
<1> QED  BY <1>1, <1>2 DEF Next, Acts

LEMMA FreshInit == Init => FreshInv
BY BoundsAssumption DEF Init, FreshInv, Fresh, TypeOK, Apart, Talks, Calls, Idle

\* Calls about one ticket apart, no fault: whoever applies the events of a quiet
\* service in their order has its tickets, but for estimatedHours and sprintId where
\* they are as the ticket was created with.
THEOREM ConsumersFollow == ApartSpec => []ReplicaMatches
<1>1. Init => ReplayInv
  <2> SUFFICES ASSUME Init PROVE ReplayInv
    OBVIOUS
  <2>1. SerialInv /\ FreshInv /\ ViewInv /\ Replica = NoTickets
    BY SerialInit, FreshInit, ViewInit DEF NothingSeen, Replica
  <2>2. \A t \in Tickets : Follows(t)
    BY <2>1 DEF Init, Follows, NoTickets, Lagging, Idle, Shown
  <2> QED  BY <2>1, <2>2 DEF ReplayInv
<1>2. ReplayInv => ReplicaMatches
  <2> SUFFICES ASSUME ReplayInv, Quiet, faults = 0
               PROVE  \A t \in Tickets : Replica[t] = Shown(t)
    BY DEF ReplicaMatches
  <2>1. \A h \in Handlers : ~ Lagging(h)
    <3>1. \A h \in Handlers : call[h] = Idle
      BY DEF Quiet
    <3>2. Idle.at = "idle"
      BY DEF Idle
    <3> QED  BY <3>1, <3>2 DEF Lagging
  <2> QED  BY <2>1 DEF ReplayInv, Follows
<1> QED  BY <1>1, <1>2, ReplayStep, PTL DEF ApartSpec

-----------------------------------------------------------------------------
(* The status changes of a ticket.                                         *)

\* The statuses (one) that the recorded changes of each ticket lead to.
Reached ==
  [t \in Tickets |-> {s \in Statuses : IsReached(t, Len(events) + 1, s)}]

Chained(t) == \A i \in StatusChanges(t) : IsReached(t, i, events[i].oldStatus)

\* An update has written its row and is recording that.
Telling(h) == call[h].at \in {"recordUpdated", "recordStatusChanged"}

\* The history of a ticket leads to its status, or to the one that the call about
\* to tell of the next change has found.
Tells(t) ==
  /\ Chained(t)
  /\ \A h \in Handlers :
       (Telling(h) /\ call[h].ticket = t) =>
         /\ call[h].oldStatus \in Reached[t]
         /\ ticket[t] # Null
         /\ ticket[t].status = IF call[h].dto.status = Null THEN call[h].oldStatus
                               ELSE call[h].dto.status
  /\ (ticket[t] # Null /\ \A h \in Handlers : Telling(h) => call[h].ticket # t)
       => ticket[t].status \in Reached[t]

ChainInv ==
  /\ FreshInv
  /\ SerialInv
  /\ faults = 0 => \A t \in Tickets : Tells(t)

\* What an event after all others does to the history of a ticket.
LEMMA HistoryEffect ==
  ASSUME TypeOK, NEW t \in Tickets,
         \/ UNCHANGED events
         \/ \E event : Record(event) /\ (event.type # "TICKET_STATUS_CHANGED"
                                        \/ event.ticket # t)
  PROVE  /\ Reached[t] \subseteq Reached'[t]
         /\ Chained(t) => Chained(t)'
<1>1. CASE UNCHANGED events
  BY <1>1 DEF Reached, Chained, StatusChanges, IsReached
<1>2. CASE \E event : Record(event) /\ (event.type # "TICKET_STATUS_CHANGED"
                                      \/ event.ticket # t)
  <2>1. PICK event : Record(event) /\ (event.type # "TICKET_STATUS_CHANGED"
                                      \/ event.ticket # t)
    BY <1>2
  <2>2. PICK n \in Nat :
          /\ Len(events) = n /\ DOMAIN events = 1..n
          /\ Len(events') = n + 1 /\ DOMAIN events' = 1..(n + 1)
          /\ events'[n + 1] = event
          /\ \A i \in 1..n : events'[i] = events[i]
    <3>1. events \in Seq(Events)
      BY DEF TypeOK
    <3> HIDE DEF Events
    <3> QED  BY <2>1, <3>1 DEF Record
  <2>3. /\ StatusChanges(t)' = StatusChanges(t) /\ StatusChanges(t) \subseteq 1..n
        /\ \A i \in StatusChanges(t) : events'[i] = events[i]
    BY <2>1, <2>2 DEF StatusChanges
  <2>4. \A i, s : IsReached(t, i, s) => IsReached(t, i, s)'
    BY <2>3 DEF IsReached
  <2>5. \A s : IsReached(t, n + 1, s) => IsReached(t, n + 2, s)'
    BY <2>2, <2>3 DEF IsReached
  <2>6. Reached[t] \subseteq Reached'[t]
    BY <2>2, <2>5 DEF Reached
  <2>7. ASSUME Chained(t), NEW i \in StatusChanges(t)
        PROVE  \A s : s = events'[i].oldStatus => IsReached(t, i, s)'
    BY <2>3, <2>4, <2>7 DEF Chained
  <2> QED  BY <2>3, <2>6, <2>7 DEF Chained
<1> QED  BY <1>1, <1>2

LEMMA HistoryChange ==
  ASSUME TypeOK, NEW t \in Tickets, NEW event, Record(event),
         event.type = "TICKET_STATUS_CHANGED", event.ticket = t,
         event.oldStatus \in Reached[t], event.newStatus \in Statuses, Chained(t)
  PROVE  event.newStatus \in Reached'[t] /\ Chained(t)'
<1>1. PICK n \in Nat :
        /\ Len(events) = n /\ DOMAIN events = 1..n
        /\ Len(events') = n + 1 /\ DOMAIN events' = 1..(n + 1)
        /\ events'[n + 1] = event
        /\ \A i \in 1..n : events'[i] = events[i]
  <2>1. events \in Seq(Events)
    BY DEF TypeOK
  <2> HIDE DEF Events
  <2> QED  BY <2>1 DEF Record
<1>2. /\ StatusChanges(t)' = StatusChanges(t) \cup {n + 1}
      /\ StatusChanges(t) \subseteq 1..n
      /\ \A i \in StatusChanges(t) : events'[i] = events[i]
  BY <1>1 DEF StatusChanges
<1>3. \A i \in 1..(n + 1) : \A s : IsReached(t, i, s) => IsReached(t, i, s)'
  BY <1>1, <1>2 DEF IsReached
<1>4. \A s : s = event.newStatus => IsReached(t, n + 2, s)'
  BY <1>1, <1>2 DEF IsReached
<1>5. event.newStatus \in Reached'[t]
  BY <1>1, <1>4 DEF Reached
<1>6. ASSUME NEW i \in StatusChanges(t)'
      PROVE  \A s : s = events'[i].oldStatus => IsReached(t, i, s)'
  <2>1. CASE i \in StatusChanges(t)
    BY <1>1, <1>2, <1>3, <2>1 DEF Chained
  <2>2. CASE i = n + 1
    <3>1. IsReached(t, n + 1, event.oldStatus)
      BY <1>1 DEF Reached
    <3> QED  BY <1>1, <1>3, <2>2, <3>1
  <2> QED  BY <1>2, <2>1, <2>2
<1> QED  BY <1>5, <1>6 DEF Chained

LEMMA ChainActs ==
  ASSUME ChainInv, Apart', NEW h \in Handlers, Acts(h)
  PROVE  ChainInv'
<1>1. /\ FreshInv /\ FreshInv' /\ SerialInv /\ SerialInv' /\ TypeOK /\ TypeOK' /\ Apart
      /\ [Next]_vars
  BY ActsType, FreshActs, SerialActs DEF ChainInv, FreshInv
<1>2. SUFFICES ASSUME faults' = 0
               PROVE  \A t \in Tickets : Tells(t)'
  BY <1>1 DEF ChainInv
<1>3. \A t \in Tickets : Tells(t)
  BY <1>1, <1>2, FaultsKept DEF ChainInv
<1>4. /\ \A g \in Handlers : Telling(g) => Talks(g)
      /\ \A g \in Handlers : Telling(g)' => Talks(g)'
  BY DEF Telling, Talks
<1>5. \A g \in Handlers \ {h} : call'[g] = call[g]
  BY <1>1, ActsAbout
\* Tickets the call is not about.
<1>6. ASSUME NEW u \in Tickets,
             Talks(h) => call[h].ticket # u, Talks(h)' => call'[h].ticket # u
      PROVE  Tells(u)'
  <2>1. /\ ticket'[u] = ticket[u]
        /\ \/ UNCHANGED events
           \/ \E event : Record(event) /\ event.ticket # u
    BY <1>1, <1>6, ActsAbout
  <2>2. Reached[u] \subseteq Reached'[u] /\ Chained(u)'
    BY <1>1, <1>3, <2>1, HistoryEffect DEF Tells
  <2>3. \A g \in Handlers :
          /\ (Telling(g) /\ call[g].ticket = u) <=> (Telling(g)' /\ call'[g].ticket = u)
          /\ Telling(g) /\ call[g].ticket = u => call'[g] = call[g]
    BY <1>4, <1>5, <1>6 DEF Telling
  <2> QED  BY <1>3, <2>1, <2>2, <2>3 DEF Tells
<1>7. CASE ~ Talks(h) /\ ~ Talks(h)'
  BY <1>6, <1>7
<1>8. CASE Talks(h) \/ Talks(h)'
  <2>1. PICK t \in Tickets :
          /\ Talks(h) => call[h].ticket = t
          /\ Talks(h)' => call'[h].ticket = t
          /\ \A u \in Tickets \ {t} : ticket'[u] = ticket[u]
    BY <1>1, <1>8, ActsAbout
  \* The ticket the call is about.
  <2>2. \A g \in Handlers \ {h} :
          /\ Telling(g) => call[g].ticket # t
          /\ Telling(g)' => call'[g].ticket # t
    <3> SUFFICES ASSUME NEW g \in Handlers \ {h}
                 PROVE  /\ Telling(g) => call[g].ticket # t
                        /\ Telling(g)' => call'[g].ticket # t
      OBVIOUS
    <3>1. call'[g] = call[g] /\ (Talks(g) => call[g].ticket # t)
      BY <1>1, <1>8, <2>1, OthersApart
    <3> QED  BY <1>4, <3>1 DEF Telling
  <2>3. /\ Chained(t)
        /\ Telling(h) =>
             /\ call[h].ticket = t
             /\ call[h].oldStatus \in Reached[t]
             /\ ticket[t] # Null
             /\ ticket[t].status = IF call[h].dto.status = Null THEN call[h].oldStatus
                                   ELSE call[h].dto.status
        /\ ~ Telling(h) /\ ticket[t] # Null => ticket[t].status \in Reached[t]
    BY <1>3, <1>4, <2>1, <2>2 DEF Tells
  <2> DEFINE Goal ==
        /\ Chained(t)'
        /\ Telling(h)' =>
             /\ call'[h].oldStatus \in Reached'[t]
             /\ ticket'[t] # Null
             /\ ticket'[t].status = IF call'[h].dto.status = Null THEN call'[h].oldStatus
                                    ELSE call'[h].dto.status
        /\ ~ Telling(h)' /\ ticket'[t] # Null => ticket'[t].status \in Reached'[t]
  <2>4. SUFFICES Goal
    <3>1. ASSUME Goal PROVE Tells(t)'
      BY <1>4, <2>1, <2>2, <3>1 DEF Tells
    <3> QED  BY <1>6, <2>1, <3>1
  <2>5. call[h] \in Calls /\ ticket \in [Tickets -> Row \cup {Null}]
    BY <1>1 DEF TypeOK
  \* Steps that record no status change.
  <2>6. ASSUME UNCHANGED events \/ \E event : Record(event)
                                              /\ event.type # "TICKET_STATUS_CHANGED"
        PROVE  Reached[t] \subseteq Reached'[t] /\ Chained(t)'
    BY <1>1, <2>3, <2>6, HistoryEffect
  \* Steps of a call that tells nothing, before or after, and writes no row.
  <2>7. ASSUME ~ Telling(h), ~ Telling(h)', ticket'[t] # Null => ticket'[t] = ticket[t],
               UNCHANGED events \/ \E event : Record(event)
                                              /\ event.type # "TICKET_STATUS_CHANGED"
        PROVE  Goal
    BY <2>3, <2>6, <2>7
  <2>8. ASSUME NEW text \in Texts, NEW plan \in Plans \cup {Null},
             CreateTicket(h, text, plan)
        PROVE  Goal
    <3>1. /\ ~ Telling(h)' /\ t = born.tickets + 1 /\ UNCHANGED events
          /\ ticket' = [ticket EXCEPT ![t] =
                          [status |-> Todo, text |-> text, plan |-> plan]]
      BY <1>1, <2>1, <2>8 DEF TypeOK, CreateTicket, Begin, Telling, Talks
    <3>2. StatusChanges(t) = {}
      <4>1. born.tickets \in Nat
        BY <1>1, BoundsAssumption DEF TypeOK
      <4> QED  BY <1>1, <3>1, <4>1 DEF SerialInv, Bounded, StatusChanges
    <3>3. Todo \in Reached[t]
      BY <3>2, TodoAssumption DEF Reached, IsReached
    <3>4. ticket'[t].status = Todo
      BY <2>5, <3>1
    <3> QED  BY <2>6, <3>1, <3>3, <3>4
  <2>9. ASSUME NEW u \in Tickets,
               \/ \E dto \in Dto : FindForUpdate(h, u, dto)
               \/ FindForDelete(h, u)
               \/ CreateComment(h, u)
        PROVE  Goal
    <3>1. ~ Telling(h) /\ ~ Telling(h)' /\ UNCHANGED <<events, ticket>>
      BY <1>1, <2>9
         DEF TypeOK, FindForUpdate, FindForDelete, CreateComment, Begin, Telling, Idle
    <3> QED  BY <2>7, <3>1
  <2>10. ASSUME NEW c \in Comments, FindComment(h, c)
         PROVE  Goal
    <3>1. ~ Telling(h) /\ ~ Telling(h)' /\ UNCHANGED <<events, ticket>>
      BY <1>1, <2>10 DEF TypeOK, FindComment, Begin, Telling, Idle
    <3> QED  BY <2>7, <3>1
  <2>11. CASE SelectForUpdate(h)
    <3>1. call[h] \in UpdateCalls
      BY <2>5, <2>11, CallFields DEF SelectForUpdate, UpdatePlaces
    <3>2. ~ Telling(h) /\ ~ Telling(h)' /\ UNCHANGED <<events, ticket>>
      BY <1>1, <2>11, <3>1 DEF TypeOK, SelectForUpdate, UpdateCalls, Telling
    <3> QED  BY <2>7, <3>2
  <2>12. CASE WriteUpdate(h)
    <3>1. /\ call[h] \in UpdateCalls /\ call[h].at = "write"
          /\ ticket[call[h].ticket] \in Row
          /\ ticket' = [ticket EXCEPT ![call[h].ticket] = Assign(@, call[h].dto)]
          /\ call[h].oldStatus = ticket[call[h].ticket].status
      BY <1>1, <2>12, FreshWrite
    <3>2. /\ Telling(h)' /\ call[h].ticket = t /\ call'[h].dto = call[h].dto
          /\ call'[h].oldStatus = call[h].oldStatus /\ UNCHANGED events
      BY <1>1, <2>1, <2>12, <3>1
         DEF TypeOK, WriteUpdate, Continue, UpdateCalls, Telling, Talks
    <3>3. call[h].dto \in Dto /\ ~ Telling(h)
      BY <3>1 DEF UpdateCalls, Telling
    <3>4. ticket'[t] = Assign(ticket[t], call[h].dto)
      BY <2>5, <3>1, <3>2
    <3>5. /\ ticket'[t] # Null
          /\ ticket'[t].status = IF call[h].dto.status = Null THEN call[h].oldStatus
                                 ELSE call[h].dto.status
      BY <3>1, <3>2, <3>3, <3>4, AssignType, NoRowAssumption
    <3>6. call[h].oldStatus \in Reached[t]
      BY <2>3, <3>1, <3>2, <3>3, NoRowAssumption
    <3> QED  BY <2>6, <3>2, <3>5, <3>6
  <2>13. CASE WriteConflicts(h) \/ RemoveComment(h)
    <3>1. ~ Telling(h) /\ ~ Telling(h)' /\ UNCHANGED <<events, ticket>>
      BY <1>1, <2>13 DEF TypeOK, WriteConflicts, RemoveComment, Return, Telling, Idle
    <3> QED  BY <2>7, <3>1
  <2>14. CASE RemoveTicket(h)
    <3>1. call[h] \in DeleteCalls
      BY <2>5, <2>14, CallFields DEF RemoveTicket
    <3>2. ~ Telling(h) /\ ~ Telling(h)' /\ UNCHANGED events
      BY <1>1, <2>14, <3>1 DEF TypeOK, RemoveTicket, Continue, DeleteCalls, Telling
    <3>3. ticket'[t] # Null => ticket'[t] = ticket[t]
      BY <2>5, <2>14 DEF RemoveTicket
    <3> QED  BY <2>7, <3>2, <3>3
  <2>15. CASE RecordCreated(h) \/ RecordDeleted(h) \/ RecordComment(h)
    <3>1. ~ Telling(h) /\ ~ Telling(h)' /\ UNCHANGED ticket
      BY <1>1, <2>15
         DEF TypeOK, RecordCreated, RecordDeleted, RecordComment, Return, Telling, Idle
    <3>2. \E event : Record(event) /\ event.type # "TICKET_STATUS_CHANGED"
      BY <2>15 DEF RecordCreated, RecordDeleted, RecordComment
    <3> QED  BY <2>7, <3>1, <3>2
  <2>16. CASE RecordUpdated(h)
    <3>1. call[h] \in UpdateCalls /\ call[h].at = "recordUpdated" /\ Telling(h)
      BY <2>5, <2>16, CallFields DEF RecordUpdated, UpdatePlaces, Telling
    <3>2. \E event : Record(event) /\ event.type # "TICKET_STATUS_CHANGED"
      <4> DEFINE event == [type |-> "TICKET_UPDATED", ticket |-> call[h].ticket,
                           status |-> call[h].dto.status, text |-> call[h].dto.text,
                           plan |-> call[h].dto.plan]
      <4>1. Record(event)
        BY <2>16 DEF RecordUpdated
      <4>2. event.type # "TICKET_STATUS_CHANGED"
        OBVIOUS
      <4> HIDE DEF event
      <4> QED  BY <4>1, <4>2
    <3>3. UNCHANGED ticket
      BY <2>16 DEF RecordUpdated
    <3>4. CASE call[h].dto.status # Null /\ call[h].oldStatus # call[h].dto.status
      <4>1. /\ Telling(h)' /\ call'[h].dto = call[h].dto
            /\ call'[h].oldStatus = call[h].oldStatus
        BY <1>1, <2>16, <3>1, <3>4 DEF TypeOK, RecordUpdated, Continue, UpdateCalls, Telling
      <4> QED  BY <2>3, <2>6, <3>1, <3>2, <3>3, <4>1
    <3>5. CASE ~ (call[h].dto.status # Null /\ call[h].oldStatus # call[h].dto.status)
      <4>1. ~ Telling(h)'
        BY <1>1, <2>16, <3>5 DEF TypeOK, RecordUpdated, Return, Telling, Idle
      <4>2. ticket[t].status \in Reached[t]
        BY <2>3, <3>1, <3>5
      <4> QED  BY <2>6, <3>2, <3>3, <4>1, <4>2
    <3> QED  BY <3>4, <3>5
  <2>17. CASE RecordStatusChanged(h)
    <3>1. call[h] \in UpdateCalls /\ Telling(h)
      BY <2>5, <2>17, CallFields DEF RecordStatusChanged, UpdatePlaces, Telling
    <3>2. call[h].dto.status \in Statuses /\ call[h].dto.status # Null
      BY <1>1, <2>17, <3>1 DEF TypeOK, RecordStatusChanged, UpdateCalls, Dto
    <3>3. ~ Telling(h)' /\ UNCHANGED ticket
      BY <1>1, <2>17 DEF TypeOK, RecordStatusChanged, Return, Telling, Idle
    <3>4. PICK event : /\ Record(event) /\ event.type = "TICKET_STATUS_CHANGED"
                       /\ event.ticket = call[h].ticket
                       /\ event.oldStatus = call[h].oldStatus
                       /\ event.newStatus = call[h].dto.status
      BY <2>17 DEF RecordStatusChanged
    <3>5. call[h].dto.status \in Reached'[t] /\ Chained(t)'
      BY <1>1, <2>3, <3>1, <3>2, <3>4, HistoryChange
    <3>6. ticket'[t].status = call[h].dto.status
      BY <2>3, <3>1, <3>2, <3>3
    <3> QED  BY <3>3, <3>5, <3>6
  <2>18. CASE CallFails(h)
    BY <1>1, <1>2, <2>18, FaultsKept DEF CallFails
  <2> QED
    BY <2>8, <2>9, <2>10, <2>11, <2>12, <2>13, <2>14, <2>15, <2>16, <2>17, <2>18
       DEF Acts, Start, Step
<1> QED  BY <1>7, <1>8

LEMMA ChainStep ==
  ASSUME ChainInv, [Next /\ Apart']_vars
  PROVE  ChainInv'
<1>1. ASSUME NEW h \in Handlers, Acts(h), Apart'
      PROVE  ChainInv'
  BY <1>1, ChainActs
<1>2. CASE UNCHANGED vars
  <2>1. FreshInv' /\ SerialInv'
    BY FreshStep, SerialStep DEF ChainInv
  <2>2. Reached' = Reached
    BY <1>2 DEF vars, Reached, IsReached, StatusChanges
  <2>3. \A t : Chained(t) => Chained(t)'
    BY <1>2 DEF vars, Chained, IsReached, StatusChanges
  <2> QED  BY <1>2, <2>1, <2>2, <2>3 DEF vars, ChainInv, Tells, Telling
<1> QED  BY <1>1, <1>2 DEF Next, Acts

\* Calls about one ticket apart, no fault: each TICKET_STATUS_CHANGED starts from the
\* status that the one before it led to, and the last leads to the status in the
\* table.
THEOREM HistoryIsUnbroken == ApartSpec => []StatusHistoryIsAChain
<1>1. Init => ChainInv
  BY FreshInit, SerialInit
     DEF Init, ChainInv, Tells, Chained, StatusChanges, Telling, Idle
<1>2. ChainInv => StatusHistoryIsAChain
  <2> SUFFICES ASSUME ChainInv, Quiet, faults = 0, NEW t \in Tickets
               PROVE  /\ Chained(t)
                      /\ ticket[t] # Null =>
                           IsReached(t, Len(events) + 1, ticket[t].status)
    BY DEF StatusHistoryIsAChain, StatusIsTold, Chained
  <2>1. \A h \in Handlers : ~ Telling(h)
    <3>1. \A h \in Handlers : call[h] = Idle
      BY DEF Quiet
    <3>2. Idle.at = "idle"
      BY DEF Idle
    <3> QED  BY <3>1, <3>2 DEF Telling
  <2> QED  BY <2>1 DEF ChainInv, Tells, Reached
<1> QED  BY <1>1, <1>2, ChainStep, PTL DEF ApartSpec
=============================================================================
