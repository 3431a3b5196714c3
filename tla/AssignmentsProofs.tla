-------------------------- MODULE AssignmentsProofs ---------------------------
(***************************************************************************)
(* Theorems about Assignments, for any sets of handlers and pairs and any  *)
(* number of calls.                                                        *)
(***************************************************************************)
EXTENDS Assignments, TLAPS

-----------------------------------------------------------------------------
(* Type correctness.                                                       *)

\* What the fields of a call are, by the place it has reached.
LEMMA CallFields ==
  ASSUME TypeOK, NEW h \in Handlers
  PROVE  /\ call[h].at = "insert" => call[h].pair \in Pairs
         /\ call[h].at \in {"recordAssigned", "remove"}
              => /\ call[h].id \in Assignments
                 /\ call[h].pair \in Pairs
                 /\ [call[h] EXCEPT !.at = "recordUnassigned", !.id = Null] \in
                      [at: {"recordUnassigned"}, id: {Null}, pair: Pairs]
         /\ call[h].at = "recordUnassigned"
              => call[h].id = Null /\ call[h].pair \in Pairs
<1> call[h] \in Calls
  BY DEF TypeOK
<1>1. CASE call[h] = Idle
  BY <1>1 DEF Idle
<1>2. CASE call[h] \in [at: {"insert"}, pair: Pairs]
  BY <1>2
<1>3. CASE call[h] \in [at: {"recordAssigned", "remove"}, id: Assignments,
                        pair: Pairs]
  BY <1>3
<1>4. CASE call[h] \in [at: {"recordUnassigned"}, id: {Null}, pair: Pairs]
  BY <1>4
<1> QED
  BY <1>1, <1>2, <1>3, <1>4 DEF Calls

LEMMA RecordType ==
  ASSUME TypeOK, NEW type \in EventTypes, NEW pair \in Pairs,
         NEW id \in Assignments \cup {Null}, Record(type, id, pair)
  PROVE  events' \in Seq([type: EventTypes, aggregateId: Assignments,
                          pair: Pairs])
<1> DEFINE Event == [type: EventTypes, aggregateId: Assignments, pair: Pairs]
<1> events \in Seq(Event)
  BY DEF TypeOK
<1>1. CASE id = Null
  BY <1>1 DEF Record
<1>2. CASE id # Null
  <2> DEFINE event == [type |-> type, aggregateId |-> id, pair |-> pair]
  <2>1. event \in Event
    BY <1>2
  <2>2. events' = Append(events, event)
    BY <1>2 DEF Record
  <2> HIDE DEF event, Event
  <2>3. events' \in Seq(Event)
    BY <2>1, <2>2
  <2> QED
    BY <2>3 DEF Event
<1> QED
  BY <1>1, <1>2

LEMMA BeginType ==
  ASSUME TypeOK, NEW h \in Handlers, NEW c \in Calls, Begin(h, c)
  PROVE  calls' \in Nat /\ call' \in [Handlers -> Calls]
BY DEF TypeOK, Begin

LEMMA ReturnType ==
  ASSUME TypeOK, NEW h \in Handlers, Return(h)
  PROVE  call' \in [Handlers -> Calls]
BY DEF TypeOK, Return, Calls

LEMMA TypeStep == TypeOK /\ [Next]_vars => TypeOK'
<1> SUFFICES ASSUME TypeOK, [Next]_vars PROVE TypeOK'
  OBVIOUS
<1> USE DEF TypeOK
<1>1. ASSUME NEW h \in Handlers, NEW pair \in Pairs, FindForAssign(h, pair)
      PROVE  TypeOK'
  <2> [at |-> "insert", pair |-> pair] \in Calls
    BY DEF Calls
  <2> QED
    BY <1>1, BeginType DEF FindForAssign
<1>2. ASSUME NEW h \in Handlers, NEW i \in Assignments, InsertAssignment(h, i)
      PROVE  TypeOK'
  <2>1. call[h].pair \in Pairs
    BY <1>2, CallFields DEF InsertAssignment
  <2>2. [at |-> "recordAssigned", id |-> i, pair |-> call[h].pair] \in Calls
    BY <2>1 DEF Calls
  <2> QED
    BY <1>2, <2>1, <2>2 DEF InsertAssignment
<1>3. ASSUME NEW h \in Handlers, RecordAssigned(h)
      PROVE  TypeOK'
  <2>1. call[h].id \in Assignments \cup {Null} /\ call[h].pair \in Pairs
    BY <1>3, CallFields DEF RecordAssigned
  <2> QED
    BY <1>3, <2>1, RecordType, ReturnType DEF RecordAssigned, EventTypes
<1>4. ASSUME NEW h \in Handlers, NEW pair \in Pairs, FindForUnassign(h, pair)
      PROVE  TypeOK'
  <2> PICK i \in Of(pair) : Begin(h, [at |-> "remove", id |-> i, pair |-> pair])
    BY <1>4 DEF FindForUnassign
  <2> [at |-> "remove", id |-> i, pair |-> pair] \in Calls
    BY DEF Calls, Of
  <2> QED
    BY <1>4, BeginType DEF FindForUnassign
<1>5. ASSUME NEW h \in Handlers, RemoveAssignment(h)
      PROVE  TypeOK'
  <2>1. call[h].at = "remove"
    BY <1>5 DEF RemoveAssignment
  <2>2. [call[h] EXCEPT !.at = "recordUnassigned", !.id = Null] \in Calls
    BY <2>1, CallFields DEF Calls
  <2> QED
    BY <1>5, <2>2 DEF RemoveAssignment
<1>6. ASSUME NEW h \in Handlers, RecordUnassigned(h)
      PROVE  TypeOK'
  <2>1. call[h].id \in Assignments \cup {Null} /\ call[h].pair \in Pairs
    BY <1>6, CallFields DEF RecordUnassigned
  <2> QED
    BY <1>6, <2>1, RecordType, ReturnType DEF RecordUnassigned, EventTypes
<1>7. ASSUME NEW h \in Handlers, CallFails(h)
      PROVE  TypeOK'
  BY <1>7, ReturnType DEF CallFails
<1>8. CASE UNCHANGED vars
  BY <1>8 DEF vars
<1> QED
  BY <1>1, <1>2, <1>3, <1>4, <1>5, <1>6, <1>7, <1>8 DEF Next, Assign, Unassign

\* Type correctness: whatever the calls and faults, the table, the outbox and
\* the calls hold what the code puts there; no event has a NULL aggregate.
THEOREM TypeCorrect == Spec => []TypeOK
<1>1. Init => TypeOK
  BY DEF Init, TypeOK, Calls
<1> QED
  BY <1>1, TypeStep, PTL DEF Spec

-----------------------------------------------------------------------------
(* Duplicates.                                                             *)

RowsWereInserted ==
  \A i \in Assignments : assignment[i] # Null => by[i] # Null

\* Rows that appeared since the query of an assign are of other handlers.
InsertsWithoutOwnRow ==
  \A h \in Handlers, i \in Assignments :
    (call[h].at = "insert" /\ assignment[i] = call[h].pair) => by[i] # h

DuplicatesInv ==
  /\ TypeOK
  /\ RowsWereInserted
  /\ InsertsWithoutOwnRow
  /\ DuplicatesAreOverlaps

LEMMA DuplicatesStep == DuplicatesInv /\ [Next]_vars => DuplicatesInv'
<1> SUFFICES ASSUME DuplicatesInv, [Next]_vars PROVE DuplicatesInv'
  OBVIOUS
<1> USE DEF RowsWereInserted, InsertsWithoutOwnRow, DuplicatesAreOverlaps
<1>0. TypeOK /\ TypeOK'
  BY TypeStep DEF DuplicatesInv
<1>inv. RowsWereInserted /\ InsertsWithoutOwnRow /\ DuplicatesAreOverlaps
  BY DEF DuplicatesInv
\* Calls that leave the table alone and put no handler before an insert.
<1>a. ASSUME NEW h \in Handlers, UNCHANGED <<assignment, by>>,
             \A g \in Handlers : g # h => call'[g] = call[g],
             call'[h].at # "insert"
      PROVE  DuplicatesInv'
  BY <1>0, <1>inv, <1>a DEF DuplicatesInv
<1>1. ASSUME NEW h \in Handlers, NEW pair \in Pairs, FindForAssign(h, pair)
      PROVE  DuplicatesInv'
  <2>1. /\ UNCHANGED <<assignment, by>>
        /\ call' = [call EXCEPT ![h] = [at |-> "insert", pair |-> pair]]
        /\ \A i \in Assignments : assignment[i] # pair
    BY <1>1 DEF FindForAssign, Begin, Of
  <2>2. InsertsWithoutOwnRow'
    BY <1>0, <1>inv, <2>1 DEF TypeOK
  <2> QED
    BY <1>0, <1>inv, <2>1, <2>2 DEF DuplicatesInv
<1>2. ASSUME NEW h \in Handlers, NEW i \in Assignments, InsertAssignment(h, i)
      PROVE  DuplicatesInv'
  <2>1. /\ call[h].at = "insert"
        /\ call[h].pair \in Pairs
        /\ by[i] = Null
        /\ assignment' = [assignment EXCEPT ![i] = call[h].pair]
        /\ by' = [by EXCEPT ![i] = h]
        /\ call'[h].at = "recordAssigned"
        /\ \A g \in Handlers : g # h => call'[g] = call[g]
    BY <1>0, <1>2, CallFields DEF InsertAssignment, TypeOK
  <2>2. h # Null
    BY NullAssumption
  <2>3. RowsWereInserted'
    BY <1>0, <1>inv, <2>1, <2>2 DEF TypeOK
  <2>4. InsertsWithoutOwnRow'
    BY <1>0, <1>inv, <2>1 DEF TypeOK
  <2>5. DuplicatesAreOverlaps'
    BY <1>0, <1>inv, <2>1 DEF TypeOK
  <2> QED
    BY <1>0, <2>3, <2>4, <2>5 DEF DuplicatesInv
<1>3. ASSUME NEW h \in Handlers, RecordAssigned(h)
      PROVE  DuplicatesInv'
  BY <1>0, <1>3, <1>a DEF RecordAssigned, Return, Idle, TypeOK
<1>4. ASSUME NEW h \in Handlers, NEW pair \in Pairs, FindForUnassign(h, pair)
      PROVE  DuplicatesInv'
  <2> PICK i \in Of(pair) :
        call' = [call EXCEPT ![h] = [at |-> "remove", id |-> i, pair |-> pair]]
    BY <1>4 DEF FindForUnassign, Begin
  <2> QED
    BY <1>0, <1>4, <1>a DEF FindForUnassign, TypeOK
<1>5. ASSUME NEW h \in Handlers, RemoveAssignment(h)
      PROVE  DuplicatesInv'
  <2>1. /\ call[h].id \in Assignments
        /\ assignment' = [assignment EXCEPT ![call[h].id] = Null]
        /\ by' = by
        /\ call'[h].at = "recordUnassigned"
        /\ \A g \in Handlers : g # h => call'[g] = call[g]
    BY <1>0, <1>5, CallFields DEF RemoveAssignment, TypeOK
  <2>2. \A i \in Assignments : assignment'[i] # Null =>
          assignment'[i] = assignment[i]
    BY <1>0, <2>1 DEF TypeOK
  <2>3. \A g \in Handlers : call[g].at = "insert" => call[g].pair # Null
    BY <1>0, CallFields, NullAssumption
  <2>4. InsertsWithoutOwnRow'
    BY <1>inv, <2>1, <2>2, <2>3
  <2> QED
    BY <1>0, <1>inv, <2>1, <2>2, <2>4 DEF DuplicatesInv
<1>6. ASSUME NEW h \in Handlers, RecordUnassigned(h)
      PROVE  DuplicatesInv'
  BY <1>0, <1>6, <1>a DEF RecordUnassigned, Return, Idle, TypeOK
<1>7. ASSUME NEW h \in Handlers, CallFails(h)
      PROVE  DuplicatesInv'
  BY <1>0, <1>7, <1>a DEF CallFails, Return, Idle, TypeOK
<1>8. CASE UNCHANGED vars
  BY <1>0, <1>inv, <1>8 DEF vars, DuplicatesInv
<1> QED
  BY <1>1, <1>2, <1>3, <1>4, <1>5, <1>6, <1>7, <1>8 DEF Next, Assign, Unassign

\* Two rows of one ticket and user were stored by calls that overlapped: the
\* query of assign is enough for callers that take turns, and not for others.
THEOREM Duplicates == Spec => []DuplicatesAreOverlaps
<1>1. Init => DuplicatesInv
  <2>1. Init => TypeOK
    BY DEF Init, TypeOK, Calls
  <2> QED
    BY <2>1 DEF Init, DuplicatesInv, RowsWereInserted, InsertsWithoutOwnRow,
                DuplicatesAreOverlaps, Idle
<1>2. DuplicatesInv => DuplicatesAreOverlaps
  BY DEF DuplicatesInv
<1> QED
  BY <1>1, <1>2, DuplicatesStep, PTL DEF Spec

-----------------------------------------------------------------------------
(* Announcements.                                                          *)

\* Every event is a TICKET_ASSIGNED, under the pair its row has or had.
EventsMatchRows ==
  \A k \in DOMAIN events :
    /\ events[k].type = "TICKET_ASSIGNED"
    /\ by[events[k].aggregateId] # Null
    /\ assignment[events[k].aggregateId] \in {events[k].pair, Null}

PendingMatchRows ==
  \A h \in Handlers :
    call[h].at = "recordAssigned" =>
      /\ by[call[h].id] # Null
      /\ assignment[call[h].id] \in {call[h].pair, Null}

IsAnnounced(i) == \E k \in DOMAIN events : events[k].aggregateId = i

WillBeAnnounced(i) ==
  \E h \in Handlers : call[h].at = "recordAssigned" /\ call[h].id = i

RowsAreAnnounced ==
  faults = 0 =>
    \A i \in Assignments :
      assignment[i] # Null => IsAnnounced(i) \/ WillBeAnnounced(i)

AnnouncedInv ==
  /\ TypeOK
  /\ RowsWereInserted
  /\ EventsMatchRows
  /\ PendingMatchRows
  /\ RowsAreAnnounced

LEMMA AnnouncedStep == AnnouncedInv /\ [Next]_vars => AnnouncedInv'
<1> SUFFICES ASSUME AnnouncedInv, [Next]_vars PROVE AnnouncedInv'
  OBVIOUS
<1> USE DEF RowsWereInserted, EventsMatchRows, PendingMatchRows,
            RowsAreAnnounced, IsAnnounced, WillBeAnnounced
<1>0. TypeOK /\ TypeOK'
  BY TypeStep DEF AnnouncedInv
<1>inv. /\ RowsWereInserted /\ EventsMatchRows
        /\ PendingMatchRows /\ RowsAreAnnounced
  BY DEF AnnouncedInv
<1>ids. \A k \in DOMAIN events : events[k].aggregateId \in Assignments
  <2> DEFINE Event == [type: EventTypes, aggregateId: Assignments, pair: Pairs]
  <2>1. \A e \in Event : e.aggregateId \in Assignments
    OBVIOUS
  <2>2. events \in Seq(Event)
    BY <1>0 DEF TypeOK
  <2> HIDE DEF Event
  <2>3. \A k \in DOMAIN events : events[k] \in Event
    BY <2>2
  <2> QED
    BY <2>1, <2>3
\* Calls that leave the tables alone and were and are not to announce a row.
<1>a. ASSUME NEW h \in Handlers, UNCHANGED <<assignment, by, events>>,
             \A g \in Handlers : g # h => call'[g] = call[g],
             call'[h].at # "recordAssigned", faults' = 0 => faults = 0,
             call[h].at # "recordAssigned" \/ faults' # 0
      PROVE  AnnouncedInv'
  <2>1. PendingMatchRows'
    BY <1>0, <1>inv, <1>a
  <2>2. RowsAreAnnounced'
    BY <1>0, <1>inv, <1>a
  <2> QED
    BY <1>0, <1>inv, <1>a, <2>1, <2>2 DEF AnnouncedInv
<1>1. ASSUME NEW h \in Handlers, NEW pair \in Pairs, FindForAssign(h, pair)
      PROVE  AnnouncedInv'
  BY <1>0, <1>1, <1>a DEF FindForAssign, Begin, Idle, TypeOK
<1>2. ASSUME NEW h \in Handlers, NEW i \in Assignments, InsertAssignment(h, i)
      PROVE  AnnouncedInv'
  <2>1. /\ call[h].at = "insert"
        /\ by[i] = Null
        /\ assignment' = [assignment EXCEPT ![i] = call[h].pair]
        /\ by' = [by EXCEPT ![i] = h]
        /\ call'[h] = [at |-> "recordAssigned", id |-> i, pair |-> call[h].pair]
        /\ \A g \in Handlers : g # h => call'[g] = call[g]
        /\ UNCHANGED <<events, faults>>
    BY <1>0, <1>2 DEF InsertAssignment, TypeOK
  <2>2. h # Null
    BY NullAssumption
  <2>3. RowsWereInserted'
    BY <1>0, <1>inv, <2>1, <2>2 DEF TypeOK
  <2>4. EventsMatchRows'
    BY <1>0, <1>inv, <1>ids, <2>1 DEF TypeOK
  <2>5. PendingMatchRows'
    <3> SUFFICES ASSUME NEW g \in Handlers, call'[g].at = "recordAssigned"
                 PROVE  /\ by'[call'[g].id] # Null
                        /\ assignment'[call'[g].id] \in {call'[g].pair, Null}
      OBVIOUS
    <3>1. CASE g = h
      BY <1>0, <2>1, <2>2, <3>1 DEF TypeOK
    <3>2. CASE g # h
      <4>1. call'[g] = call[g] /\ call[g].id \in Assignments
        BY <1>0, <2>1, <3>2, CallFields
      <4> QED
        BY <1>0, <1>inv, <2>1, <4>1 DEF TypeOK
    <3> QED
      BY <3>1, <3>2
  <2>6. RowsAreAnnounced'
    BY <1>0, <1>inv, <2>1 DEF TypeOK
  <2> QED
    BY <1>0, <2>3, <2>4, <2>5, <2>6 DEF AnnouncedInv
<1>3. ASSUME NEW h \in Handlers, RecordAssigned(h)
      PROVE  AnnouncedInv'
  <2> DEFINE event == [type |-> "TICKET_ASSIGNED",
                       aggregateId |-> call[h].id, pair |-> call[h].pair]
  <2>1. /\ call[h].at = "recordAssigned"
        /\ call[h].id \in Assignments
        /\ UNCHANGED <<assignment, by, faults>>
        /\ call'[h].at # "recordAssigned"
        /\ \A g \in Handlers : g # h => call'[g] = call[g]
    BY <1>0, <1>3, CallFields DEF RecordAssigned, Return, Idle, TypeOK
  <2>2. call[h].id # Null
    BY <2>1, NullAssumption DEF Assignments
  <2>3. events' = Append(events, event)
    BY <1>3, <2>2 DEF RecordAssigned, Record
  <2>4. /\ DOMAIN events' = 1..(Len(events) + 1)
        /\ DOMAIN events = 1..Len(events)
        /\ \A k \in DOMAIN events : events'[k] = events[k]
        /\ events'[Len(events) + 1] = event
        /\ Len(events) \in Nat
    BY <1>0, <2>3 DEF TypeOK
  <2>5. EventsMatchRows'
    <3> SUFFICES ASSUME NEW k \in DOMAIN events'
                 PROVE  /\ events'[k].type = "TICKET_ASSIGNED"
                        /\ by[events'[k].aggregateId] # Null
                        /\ assignment[events'[k].aggregateId] \in
                             {events'[k].pair, Null}
      BY <2>1
    <3>1. CASE k \in DOMAIN events
      BY <1>inv, <2>4, <3>1
    <3>2. CASE k = Len(events) + 1
      BY <1>inv, <2>1, <2>4, <3>2
    <3> QED
      BY <2>4, <3>1, <3>2
  <2>6. PendingMatchRows'
    BY <1>0, <1>inv, <2>1
  <2>7. RowsAreAnnounced'
    <3> SUFFICES ASSUME faults = 0, NEW i \in Assignments, assignment[i] # Null
                 PROVE  IsAnnounced(i)' \/ WillBeAnnounced(i)'
      BY <2>1
    <3>1. CASE IsAnnounced(i)
      BY <2>4, <3>1
    <3>2. CASE i = call[h].id
      <4>1. Len(events) + 1 \in DOMAIN events' /\ event.aggregateId = i
        BY <2>4, <3>2
      <4> QED
        BY <2>4, <4>1
    <3>3. CASE i # call[h].id /\ WillBeAnnounced(i)
      BY <2>1, <3>3
    <3> QED
      BY <1>inv, <3>1, <3>2, <3>3
  <2> QED
    BY <1>0, <1>inv, <2>1, <2>5, <2>6, <2>7 DEF AnnouncedInv
<1>4. ASSUME NEW h \in Handlers, NEW pair \in Pairs, FindForUnassign(h, pair)
      PROVE  AnnouncedInv'
  <2> PICK i \in Of(pair) :
        /\ call[h] = Idle
        /\ call' = [call EXCEPT ![h] = [at |-> "remove", id |-> i, pair |-> pair]]
    BY <1>4 DEF FindForUnassign, Begin
  <2> QED
    BY <1>0, <1>4, <1>a DEF FindForUnassign, Idle, TypeOK
<1>5. ASSUME NEW h \in Handlers, RemoveAssignment(h)
      PROVE  AnnouncedInv'
  <2>1. /\ call[h].at = "remove"
        /\ call[h].id \in Assignments
        /\ assignment' = [assignment EXCEPT ![call[h].id] = Null]
        /\ UNCHANGED <<by, events, faults>>
        /\ call'[h].at = "recordUnassigned"
        /\ \A g \in Handlers : g # h => call'[g] = call[g]
    BY <1>0, <1>5, CallFields DEF RemoveAssignment, TypeOK
  <2>2. \A i \in Assignments :
          assignment'[i] = assignment[i] \/ assignment'[i] = Null
    BY <1>0, <2>1 DEF TypeOK
  <2>3. EventsMatchRows'
    BY <1>inv, <1>ids, <2>1, <2>2
  <2>4. PendingMatchRows'
    <3> SUFFICES ASSUME NEW g \in Handlers, call'[g].at = "recordAssigned"
                 PROVE  /\ by'[call'[g].id] # Null
                        /\ assignment'[call'[g].id] \in {call'[g].pair, Null}
      OBVIOUS
    <3>1. call'[g] = call[g] /\ call[g].id \in Assignments
      BY <1>0, <2>1, CallFields
    <3> QED
      BY <1>inv, <2>1, <2>2, <3>1
  <2>5. RowsAreAnnounced'
    BY <1>inv, <2>1, <2>2
  <2> QED
    BY <1>0, <1>inv, <2>1, <2>2, <2>3, <2>4, <2>5 DEF AnnouncedInv
<1>6. ASSUME NEW h \in Handlers, RecordUnassigned(h)
      PROVE  AnnouncedInv'
  <2>1. events' = events
    BY <1>0, <1>6, CallFields DEF RecordUnassigned, Record
  <2> QED
    BY <1>0, <1>6, <1>a, <2>1 DEF RecordUnassigned, Return, Idle, TypeOK
<1>7. ASSUME NEW h \in Handlers, CallFails(h)
      PROVE  AnnouncedInv'
  <2>1. faults' # 0
    BY <1>0, <1>7 DEF CallFails, TypeOK
  <2> QED
    BY <1>0, <1>7, <1>a, <2>1 DEF CallFails, Return, Idle, TypeOK
<1>8. CASE UNCHANGED vars
  BY <1>0, <1>inv, <1>8 DEF vars, AnnouncedInv
<1> QED
  BY <1>1, <1>2, <1>3, <1>4, <1>5, <1>6, <1>7, <1>8 DEF Next, Assign, Unassign

\* Without faults a consumer of a quiet service knows every assignment there
\* is, however many calls of assign and unassign overlapped.
THEOREM AssignedAreAnnounced == Spec => []AssignedIsAnnounced
<1>1. Init => AnnouncedInv
  <2>1. Init => TypeOK
    BY DEF Init, TypeOK, Calls
  <2> QED
    BY <2>1 DEF Init, AnnouncedInv, RowsWereInserted, EventsMatchRows,
                PendingMatchRows, RowsAreAnnounced, Idle
<1>2. AnnouncedInv => AssignedIsAnnounced
  <2> SUFFICES ASSUME AnnouncedInv, Quiet, faults = 0,
                      NEW i \in Assignments, assignment[i] # Null
               PROVE  /\ i \in Announced
                      /\ \A k \in DOMAIN events :
                           events[k].aggregateId = i =>
                             events[k].pair = assignment[i]
    BY DEF AssignedIsAnnounced
  <2>1. IsAnnounced(i)
    BY DEF AnnouncedInv, RowsAreAnnounced, WillBeAnnounced, Quiet, Idle
  <2>2. i \in Announced
    BY <2>1 DEF IsAnnounced, Announced, AnnouncedInv, EventsMatchRows
  <2> QED
    BY <2>2 DEF AnnouncedInv, EventsMatchRows
<1> QED
  BY <1>1, <1>2, AnnouncedStep, PTL DEF Spec
=============================================================================
