----------------------------- MODULE Assignments ------------------------------
(***************************************************************************)
(* The assignment service: assign and unassign as chains of awaited        *)
(* statements of concurrent calls, and the rows they add to the outbox.    *)
(*                                                                         *)
(* The table has no unique constraint on ticket and user: that a user is   *)
(* assigned to a ticket once rests on the query assign starts with.        *)
(*                                                                         *)
(* TypeORM's remove(entity) deletes the row and clears the id of the       *)
(* entity.  unassign goes on with that entity to describe its event.       *)
(***************************************************************************)
EXTENDS Naturals, Sequences

CONSTANTS
  Handlers,        \* calls in progress at the same time
  Pairs,           \* a ticket and a user
  Null,            \* SQL NULL, a property that is undefined, the row not there
  MaxAssignments,  \* bound: rows inserted; they are numbered in that order
  MaxCalls,        \* bound: calls that get past their first query
  MaxFaults        \* bound: calls that end in an unrelated error or a crash

ASSUME NullAssumption == Null \notin Pairs \cup Nat \cup Handlers
ASSUME BoundsAssumption ==
  MaxAssignments \in Nat /\ MaxCalls \in Nat /\ MaxFaults \in Nat

VARIABLES
  assignment,  \* the table: Null, or the ticket and the user of the row
  events,      \* rows added to the outbox, in the order of their commit
  call,        \* what each handler is executing
  by,          \* history: the handler that inserted the row
  calls,       \* counts calls against MaxCalls
  faults       \* counts faults against MaxFaults

vars == <<assignment, events, call, by, calls, faults>>

Assignments == 1..MaxAssignments
Idle == [at |-> "idle"]
EventTypes == {"TICKET_ASSIGNED", "TICKET_UNASSIGNED"}

-----------------------------------------------------------------------------
\* The assignments of a pair.
Of(pair) == {i \in Assignments : assignment[i] = pair}

Begin(h, activity) ==
  /\ calls < MaxCalls
  /\ calls' = calls + 1
  /\ call[h] = Idle
  /\ call' = [call EXCEPT ![h] = activity]

Return(h) == call' = [call EXCEPT ![h] = Idle]

\* Mutant of Record: the column aggregate_id is nullable.
RecordNullable(type, aggregateId, pair) ==
  events' = Append(events, [type |-> type, aggregateId |-> aggregateId,
                            pair |-> pair])

\* createOutboxEvent: the INSERT is refused when aggregate_id is NULL.
Record(type, aggregateId, pair) ==
  events' = IF aggregateId = Null
            THEN events
            ELSE Append(events, [type |-> type, aggregateId |-> aggregateId,
                                 pair |-> pair])

(* AssignmentsService.assign: ConflictException when the pair has a row,   *)
(* else INSERT and event.                                                  *)

\* Mutant of FindForAssign: nobody looks for an assignment of the pair.
FindNothing(h, pair) ==
  /\ Begin(h, [at |-> "insert", pair |-> pair])
  /\ UNCHANGED <<assignment, events, by, faults>>

FindForAssign(h, pair) ==
  /\ Of(pair) = {}
  /\ Begin(h, [at |-> "insert", pair |-> pair])
  /\ UNCHANGED <<assignment, events, by, faults>>

\* Mutant of InsertAssignment: the call returns when the row is stored.
InsertUnannounced(h, i) ==
  /\ call[h].at = "insert"
  /\ by[i] = Null /\ \A j \in 1..(i - 1) : by[j] # Null
  /\ assignment' = [assignment EXCEPT ![i] = call[h].pair]
  /\ by' = [by EXCEPT ![i] = h]
  /\ Return(h)
  /\ UNCHANGED <<events, calls, faults>>

\* The row gets the next number.
InsertAssignment(h, i) ==
  /\ call[h].at = "insert"
  /\ by[i] = Null /\ \A j \in 1..(i - 1) : by[j] # Null
  /\ assignment' = [assignment EXCEPT ![i] = call[h].pair]
  /\ by' = [by EXCEPT ![i] = h]
  /\ call' = [call EXCEPT ![h] = [at |-> "recordAssigned", id |-> i,
                                  pair |-> call[h].pair]]
  /\ UNCHANGED <<events, calls, faults>>

RecordAssigned(h) ==
  /\ call[h].at = "recordAssigned"
  /\ Record("TICKET_ASSIGNED", call[h].id, call[h].pair)
  /\ Return(h)
  /\ UNCHANGED <<assignment, by, calls, faults>>

(* AssignmentsService.unassign: NotFoundException when the pair has no     *)
(* row; of several rows the query returns any.                             *)

FindForUnassign(h, pair) ==
  /\ \E i \in Of(pair) : Begin(h, [at |-> "remove", id |-> i, pair |-> pair])
  /\ UNCHANGED <<assignment, events, by, faults>>

\* DELETE by id, silent when the row is gone; the entity loses its id.
RemoveAssignment(h) ==
  /\ call[h].at = "remove"
  /\ assignment' = [assignment EXCEPT ![call[h].id] = Null]
  /\ call' = [call EXCEPT ![h].at = "recordUnassigned", ![h].id = Null]
  /\ UNCHANGED <<events, by, calls, faults>>

RecordUnassigned(h) ==
  /\ call[h].at = "recordUnassigned"
  /\ Record("TICKET_UNASSIGNED", call[h].id, call[h].pair)
  /\ Return(h)
  /\ UNCHANGED <<assignment, by, calls, faults>>

\* A statement is refused, or the process ends: the call does nothing more.
CallFails(h) ==
  /\ call[h] # Idle
  /\ faults < MaxFaults
  /\ faults' = faults + 1
  /\ Return(h)
  /\ UNCHANGED <<assignment, events, by, calls>>

-----------------------------------------------------------------------------
Init ==
  /\ assignment = [i \in Assignments |-> Null]
  /\ events = <<>>
  /\ call = [h \in Handlers |-> Idle]
  /\ by = [i \in Assignments |-> Null]
  /\ calls = 0
  /\ faults = 0

Assign(h) ==
  \/ \E pair \in Pairs : FindForAssign(h, pair)
  \/ \E i \in Assignments : InsertAssignment(h, i)
  \/ RecordAssigned(h)

Unassign(h) ==
  \/ \E pair \in Pairs : FindForUnassign(h, pair)
  \/ RemoveAssignment(h)
  \/ RecordUnassigned(h)

Next == \E h \in Handlers : Assign(h) \/ Unassign(h) \/ CallFails(h)

Spec == Init /\ [][Next]_vars

-----------------------------------------------------------------------------
(* Type invariant.                                                         *)

Calls ==
  {Idle}
  \cup [at: {"insert"}, pair: Pairs]
  \cup [at: {"recordAssigned", "remove"}, id: Assignments, pair: Pairs]
  \cup [at: {"recordUnassigned"}, id: {Null}, pair: Pairs]

TypeOK ==
  /\ assignment \in [Assignments -> Pairs \cup {Null}]
  /\ events \in Seq([type: EventTypes, aggregateId: Assignments, pair: Pairs])
  /\ call \in [Handlers -> Calls]
  /\ by \in [Assignments -> Handlers \cup {Null}]
  /\ calls \in Nat
  /\ faults \in Nat

Quiet == \A h \in Handlers : call[h] = Idle

\* The assignments a consumer knows of: announced, and not revoked since.
Announced ==
  {i \in Assignments :
     \E k \in DOMAIN events :
       /\ events[k].type = "TICKET_ASSIGNED" /\ events[k].aggregateId = i
       /\ \A l \in DOMAIN events :
            ~ (events[l].type = "TICKET_UNASSIGNED" /\ events[l].aggregateId = i)}

\* One handler, which executes its calls one after the other, never leaves two
\* rows of one pair, however its calls interleave with the others' assigns and
\* unassigns, and fail: a user is assigned to a ticket twice only by two
\* handlers, whose calls of assign overlapped.
DuplicatesAreOverlaps ==
  \A i, j \in Assignments :
    (i # j /\ assignment[i] # Null /\ assignment[i] = assignment[j])
      => by[i] # by[j]

\* No fault: a consumer of a quiet service knows of every assignment there
\* is, under the pair it has, whatever calls overlapped.
AssignedIsAnnounced ==
  (Quiet /\ faults = 0) =>
    \A i \in Assignments :
      assignment[i] # Null =>
        /\ i \in Announced
        /\ \A k \in DOMAIN events :
             events[k].aggregateId = i => events[k].pair = assignment[i]

-----------------------------------------------------------------------------
\* The code means to record an event for unassign too ("Create outbox event"),
\* in the transaction of the change: with no fault, a consumer of a quiet
\* service knows of no assignment that is gone.
GoneIsRevoked ==
  (Quiet /\ faults = 0) => \A i \in Announced : assignment[i] # Null
=============================================================================
