------------------------------- MODULE Outbox -------------------------------
(***************************************************************************)
(* The outbox of libs/common: the table outbox_events, the service that    *)
(* appends to it (createOutboxEvent), and the relay that publishes its     *)
(* rows to Kafka (processPendingEvents), with the two maintenance          *)
(* operations retryFailedEvents and cleanupOldEvents.                      *)
(*                                                                         *)
(* A relay is one execution of processPendingEvents at a time.  Nothing in *)
(* the repository schedules it, so any number of relays may overlap: two   *)
(* replicas of a service, or a scheduler that fires before the last run    *)
(* has ended.                                                              *)
(*                                                                         *)
(* TypeORM's save(entity) is two statements: a SELECT of the row, then, by *)
(* the difference between the entity and what was selected, an INSERT, an  *)
(* UPDATE of the columns that differ, or nothing.  Every other actor may   *)
(* run between the two, so each save is two actions here.                  *)
(***************************************************************************)
EXTENDS Integers, FiniteSets

CONSTANTS
  NumEvents,    \* the events are numbered in the order of their createdAt
  Relays,       \* overlapping executions of processPendingEvents
  MaxRetries,   \* MAX_RETRIES (5 in the code)
  BatchSize,    \* rows one execution takes (100 in the code)
  DaysOld,      \* age at which cleanupOldEvents deletes (7 by default)
  Null,         \* SQL NULL, and the row that is not there
  MaxFaults,    \* bound: statements and emits that fail inside the try block
  MaxLost,      \* bound: executions that crash or whose catch block throws
  MaxDay        \* bound: the last day of the clock

ASSUME SizesAssumption ==
  /\ NumEvents \in Nat /\ MaxRetries \in Nat \ {0} /\ BatchSize \in Nat \ {0}
  /\ DaysOld \in Nat /\ MaxDay \in Nat /\ MaxFaults \in Nat /\ MaxLost \in Nat

Events == 1..NumEvents
Statuses == {"PENDING", "PROCESSING", "SENT", "FAILED"}

\* The columns of outbox_events that change after the INSERT.
Row == [status: Statuses, retryCount: Nat, processedAt: Nat \cup {Null}]

ASSUME NullAssumption == Null \notin Nat /\ Null \notin Row

VARIABLES
  row,        \* the table: Null, or the row of the event
  today,      \* the clock that processedAt and the cutoff date are read from
  published,  \* how many messages of the event the Kafka topic holds
  pc,         \* where the relay is in processPendingEvents/processEvent
  batch,      \* the entities the relay has found and not yet finished with
  loaded,     \* the row the SELECT of the relay's current save() returned
  created,    \* history: events whose INSERT has committed
  before,     \* history: events committed before this one was
  failures,   \* history: how often a catch block ran for the event
  faults,     \* counts failures against MaxFaults
  lost        \* counts abandoned executions against MaxLost

table == <<row, created, before>>
history == <<failures, faults, lost>>
relay == <<pc, batch, loaded>>
vars == <<row, today, published, pc, batch, loaded, created, before,
          failures, faults, lost>>

-----------------------------------------------------------------------------
(* The table.                                                              *)

HasStatus(e, s) == row[e] # Null /\ row[e].status = s

\* Mutants of Pending: rows another execution is working on are found too, or
\* the where clause is missing.
PendingOrProcessing ==
  {e \in Events : HasStatus(e, "PENDING") \/ HasStatus(e, "PROCESSING")}
AnyRow == {e \in Events : row[e] # Null}

Pending == {e \in Events : HasStatus(e, "PENDING")}

\* find({ where: PENDING, order: { createdAt: 'ASC' }, take: 100 })
OldestPending ==
  {e \in Pending : Cardinality({f \in Pending : f < e}) < BatchSize}

\* What the second statement of save() makes of a row: `base' is what the
\* first statement selected, `entity' what is saved, `current' the row now.
Merge(current, base, entity) ==
  LET Column(c) == IF entity[c] # base[c] THEN entity[c] ELSE current[c]
  IN  CASE base = Null -> entity
        [] base # Null /\ current = Null -> Null
        [] OTHER -> [status      |-> Column("status"),
                     retryCount  |-> Column("retryCount"),
                     processedAt |-> Column("processedAt")]

\* The INSERT of a save() that selected nothing meets a row with the same id.
InsertConflict(base, current) == base = Null /\ current # Null

-----------------------------------------------------------------------------
(* The relay's loop: the entity it works on is the oldest of its batch.    *)

\* Mutant of Current: the batch is read in the order createdAt DESC.
CurrentNewest(w, e) ==
  /\ batch[w][e] # Null
  /\ \A f \in Events : f > e => batch[w][f] = Null

Current(w, e) ==
  /\ batch[w][e] # Null
  /\ \A f \in Events : f < e => batch[w][f] = Null

\* The loop goes on with the next entity, or the execution returns.
Advance(w, e) ==
  /\ batch' = [batch EXCEPT ![w] = [batch[w] EXCEPT ![e] = Null]]
  /\ pc' = [pc EXCEPT ![w] =
              IF \E f \in Events \ {e} : batch[w][f] # Null
              THEN "processEvent" ELSE "idle"]
  /\ loaded' = [loaded EXCEPT ![w] = Null]

\* The execution ends without finishing its batch.
Abandon(w) ==
  /\ batch' = [batch EXCEPT ![w] = [e \in Events |-> Null]]
  /\ pc' = [pc EXCEPT ![w] = "idle"]
  /\ loaded' = [loaded EXCEPT ![w] = Null]

SetEntity(w, e, entity) ==
  batch' = [batch EXCEPT ![w] = [batch[w] EXCEPT ![e] = entity]]

\* First statement of save(): SELECT the row of the entity.
Select(w, e, next) ==
  /\ loaded' = [loaded EXCEPT ![w] = row[e]]
  /\ pc' = [pc EXCEPT ![w] = next]

\* Second statement of save(): INSERT, UPDATE or nothing.
Write(w, e) ==
  /\ ~ InsertConflict(loaded[w], row[e])
  /\ row' = [row EXCEPT ![e] = Merge(row[e], loaded[w], batch[w][e])]

-----------------------------------------------------------------------------
(* createOutboxEvent: the INSERT of a new row, in any order of commit.     *)

\* Mutant of NewRow: the column retry_count has no default.
NewRowUncounted ==
  [status |-> "PENDING", retryCount |-> Null, processedAt |-> Null]

NewRow == [status |-> "PENDING", retryCount |-> 0, processedAt |-> Null]

CreateOutboxEvent(e) ==
  /\ e \notin created
  /\ row' = [row EXCEPT ![e] = NewRow]
  /\ created' = created \cup {e}
  /\ before' = [before EXCEPT ![e] = created]
  /\ UNCHANGED <<today, published, relay, history>>

(* processPendingEvents: find the batch; with none pending it returns.     *)

FindPending(w) ==
  /\ pc[w] = "idle"
  /\ Pending # {}
  /\ batch' = [batch EXCEPT ![w] =
       [e \in Events |-> IF e \in OldestPending THEN row[e] ELSE Null]]
  /\ pc' = [pc EXCEPT ![w] = "processEvent"]
  /\ UNCHANGED <<today, published, loaded, table, history>>

(* processEvent, the try block.                                            *)

\* Mutant of SelectProcessing: the entity is marked SENT before the emit.
SelectMarksSent(w) ==
  /\ pc[w] = "processEvent"
  /\ \E e \in Events :
       /\ Current(w, e)
       /\ SetEntity(w, e, [batch[w][e] EXCEPT !.status = "SENT"])
       /\ Select(w, e, "saveProcessing")
  /\ UNCHANGED <<today, published, table, history>>

SelectProcessing(w) ==
  /\ pc[w] = "processEvent"
  /\ \E e \in Events :
       /\ Current(w, e)
       /\ SetEntity(w, e, [batch[w][e] EXCEPT !.status = "PROCESSING"])
       /\ Select(w, e, "saveProcessing")
  /\ UNCHANGED <<today, published, table, history>>

SaveProcessing(w) ==
  /\ pc[w] = "saveProcessing"
  /\ \E e \in Events : Current(w, e) /\ Write(w, e)
  /\ pc' = [pc EXCEPT ![w] = "emit"]
  /\ loaded' = [loaded EXCEPT ![w] = Null]
  /\ UNCHANGED <<today, published, batch, created, before, history>>

\* Mutant of Emit: the status is not changed after the emit.
EmitKeepsStatus(w) ==
  /\ pc[w] = "emit"
  /\ \E e \in Events :
       /\ Current(w, e)
       /\ published' = [published EXCEPT ![e] = @ + 1]
       /\ SetEntity(w, e, [batch[w][e] EXCEPT !.processedAt = today])
  /\ pc' = [pc EXCEPT ![w] = "sent"]
  /\ UNCHANGED <<today, loaded, table, history>>

\* kafkaService.emit succeeds; the entity becomes SENT, its save comes next.
Emit(w) ==
  /\ pc[w] = "emit"
  /\ \E e \in Events :
       /\ Current(w, e)
       /\ published' = [published EXCEPT ![e] = @ + 1]
       /\ SetEntity(w, e, [batch[w][e] EXCEPT !.status = "SENT",
                                              !.processedAt = today])
  /\ pc' = [pc EXCEPT ![w] = "sent"]
  /\ UNCHANGED <<today, loaded, table, history>>

SelectSent(w) ==
  /\ pc[w] = "sent"
  /\ \E e \in Events : Current(w, e) /\ Select(w, e, "saveSent")
  /\ UNCHANGED <<today, published, batch, table, history>>

SaveSent(w) ==
  /\ pc[w] = "saveSent"
  /\ \E e \in Events : Current(w, e) /\ Write(w, e) /\ Advance(w, e)
  /\ UNCHANGED <<today, published, created, before, history>>

(* processEvent, the catch block: it counts the attempt, decides between   *)
(* FAILED and another try, and saves the entity.                           *)

\* Mutants of Caught: the limit is compared with the count after the next
\* attempt, or an entity that may be tried again keeps its status.
CaughtOneEarly(entity) ==
  [entity EXCEPT !.retryCount = @ + 1,
                 !.status = IF entity.retryCount + 2 >= MaxRetries
                            THEN "FAILED" ELSE "PENDING"]
CaughtKeepsStatus(entity) ==
  [entity EXCEPT !.retryCount = @ + 1,
                 !.status = IF entity.retryCount + 1 >= MaxRetries
                            THEN "FAILED" ELSE "PROCESSING"]

Caught(entity) ==
  [entity EXCEPT !.retryCount = @ + 1,
                 !.status = IF entity.retryCount + 1 >= MaxRetries
                            THEN "FAILED" ELSE "PENDING"]

Catch(w, e) ==
  /\ SetEntity(w, e, Caught(batch[w][e]))
  /\ failures' = [failures EXCEPT ![e] = @ + 1]
  /\ pc' = [pc EXCEPT ![w] = "catch"]
  /\ loaded' = [loaded EXCEPT ![w] = Null]

\* A statement of one of the two saves of the try block is refused.
SaveFails(w) ==
  /\ pc[w] \in {"processEvent", "saveProcessing", "sent", "saveSent"}
  /\ faults < MaxFaults
  /\ faults' = faults + 1
  /\ \E e \in Events : Current(w, e) /\ Catch(w, e)
  /\ UNCHANGED <<today, published, table, lost>>

\* emit rejects: the broker has the message all the same, or has not.
EmitFails(w) ==
  /\ pc[w] = "emit"
  /\ faults < MaxFaults
  /\ faults' = faults + 1
  /\ \E e \in Events :
       /\ Current(w, e)
       /\ Catch(w, e)
       /\ \/ published' = published
          \/ published' = [published EXCEPT ![e] = @ + 1]
  /\ UNCHANGED <<today, table, lost>>

\* The INSERT of a save in the try block violates the primary key.
SaveConflicts(w) ==
  /\ pc[w] \in {"saveProcessing", "saveSent"}
  /\ \E e \in Events :
       /\ Current(w, e)
       /\ InsertConflict(loaded[w], row[e])
       /\ Catch(w, e)
  /\ UNCHANGED <<today, published, table, faults, lost>>

SelectCaught(w) ==
  /\ pc[w] = "catch"
  /\ \E e \in Events : Current(w, e) /\ Select(w, e, "saveCaught")
  /\ UNCHANGED <<today, published, batch, table, history>>

SaveCaught(w) ==
  /\ pc[w] = "saveCaught"
  /\ \E e \in Events : Current(w, e) /\ Write(w, e) /\ Advance(w, e)
  /\ UNCHANGED <<today, published, created, before, history>>

\* The save of the catch block throws: the error leaves the loop.
CaughtSaveConflicts(w) ==
  /\ pc[w] = "saveCaught"
  /\ \E e \in Events : Current(w, e) /\ InsertConflict(loaded[w], row[e])
  /\ Abandon(w)
  /\ UNCHANGED <<today, published, table, history>>

CaughtSaveFails(w) ==
  /\ pc[w] \in {"catch", "saveCaught"}
  /\ lost < MaxLost
  /\ lost' = lost + 1
  /\ Abandon(w)
  /\ UNCHANGED <<today, published, table, failures, faults>>

\* The process stops between any two statements and forgets its batch.
Crash(w) ==
  /\ pc[w] # "idle"
  /\ lost < MaxLost
  /\ lost' = lost + 1
  /\ Abandon(w)
  /\ UNCHANGED <<today, published, table, failures, faults>>

-----------------------------------------------------------------------------
(* Maintenance, each one statement.                                        *)

\* Mutant of RetryFailedEvents: retryCount < MAX_RETRIES for equality.
RetryBelowLimit ==
  /\ row' = [e \in Events |->
       IF HasStatus(e, "FAILED") /\ row[e].retryCount < MaxRetries
       THEN [row[e] EXCEPT !.status = "PENDING", !.retryCount = 0]
       ELSE row[e]]
  /\ UNCHANGED <<today, published, relay, created, before, history>>

RetryFailedEvents ==
  /\ row' = [e \in Events |->
       IF HasStatus(e, "FAILED") /\ row[e].retryCount = MaxRetries
       THEN [row[e] EXCEPT !.status = "PENDING", !.retryCount = 0]
       ELSE row[e]]
  /\ UNCHANGED <<today, published, relay, created, before, history>>

\* Mutant of CleanupOldEvents: everything that is over is deleted, at any age.
CleanupFinished ==
  /\ row' = [e \in Events |->
       IF HasStatus(e, "SENT") \/ HasStatus(e, "FAILED") THEN Null ELSE row[e]]
  /\ UNCHANGED <<today, published, relay, created, before, history>>

\* processed_at < cutoffDate; a comparison with NULL is not true.
CleanupOldEvents ==
  /\ row' = [e \in Events |->
       IF /\ HasStatus(e, "SENT")
          /\ row[e].processedAt # Null
          /\ row[e].processedAt < today - DaysOld
       THEN Null ELSE row[e]]
  /\ UNCHANGED <<today, published, relay, created, before, history>>

NextDay ==
  /\ today < MaxDay
  /\ today' = today + 1
  /\ UNCHANGED <<published, relay, table, history>>

-----------------------------------------------------------------------------
Init ==
  /\ row = [e \in Events |-> Null]
  /\ today = 0
  /\ published = [e \in Events |-> 0]
  /\ pc = [w \in Relays |-> "idle"]
  /\ batch = [w \in Relays |-> [e \in Events |-> Null]]
  /\ loaded = [w \in Relays |-> Null]
  /\ created = {}
  /\ before = [e \in Events |-> {}]
  /\ failures = [e \in Events |-> 0]
  /\ faults = 0
  /\ lost = 0

\* What a relay does when nothing goes wrong around it.
RelayStep(w) ==
  \/ FindPending(w)
  \/ SelectProcessing(w) \/ SaveProcessing(w)
  \/ Emit(w)
  \/ SelectSent(w) \/ SaveSent(w)
  \/ SaveConflicts(w)
  \/ SelectCaught(w) \/ SaveCaught(w) \/ CaughtSaveConflicts(w)

RelayFault(w) == SaveFails(w) \/ EmitFails(w) \/ CaughtSaveFails(w) \/ Crash(w)

Next ==
  \/ \E e \in Events : CreateOutboxEvent(e)
  \/ \E w \in Relays : RelayStep(w) \/ RelayFault(w)
  \/ RetryFailedEvents
  \/ CleanupOldEvents
  \/ NextDay

Spec == Init /\ [][Next]_vars

\* The scheduler the comment of processPendingEvents asks for: every relay is
\* started again and again and its awaits return, and so is retryFailedEvents.
Scheduled ==
  /\ \A w \in Relays : WF_vars(RelayStep(w))
  /\ WF_vars(RetryFailedEvents)

FairSpec == Spec /\ Scheduled

-----------------------------------------------------------------------------
(* Type invariant: tables, counters and program counters range over what   *)
(* the entity and the service declare.                                     *)
TypeOK ==
  /\ row \in [Events -> Row \cup {Null}]
  /\ today \in Nat
  /\ published \in [Events -> Nat]
  /\ pc \in [Relays -> {"idle", "processEvent", "saveProcessing", "emit", "sent",
                        "saveSent", "catch", "saveCaught"}]
  /\ batch \in [Relays -> [Events -> Row \cup {Null}]]
  /\ loaded \in [Relays -> Row \cup {Null}]
  /\ created \subseteq Events
  /\ before \in [Events -> SUBSET Events]
  /\ failures \in [Events -> Nat]
  /\ faults \in Nat
  /\ lost \in Nat

\* A row says SENT only when the topic holds the event, whichever relays
\* saved stale entities over each other (processEvent, 65-102).
SentIsPublished == \A e \in Events : HasStatus(e, "SENT") => published[e] > 0

\* An event whose row is gone was published: cleanupOldEvents never deletes
\* the only trace of an event, even when relays regress or re-insert rows.
GoneIsPublished ==
  \A e \in created : row[e] = Null => published[e] > 0

\* The relay is still to save the end of its attempt for e, and that save
\* will change the status.
WillSettle(w, e) ==
  /\ Current(w, e)
  /\ \/ pc[w] \in {"emit", "sent", "catch"}
     \/ /\ pc[w] \in {"saveSent", "saveCaught"}
        /\ loaded[w] # Null
        /\ loaded[w].status # batch[w][e].status

\* No row is left PROCESSING behind the relays' backs: unless an execution
\* was lost, one of them has yet to change it.  Nothing reads PROCESSING rows,
\* so a row for which this fails would never be published.
ProcessingHasOwner ==
  lost = 0 =>
    \A e \in Events :
      HasStatus(e, "PROCESSING") => \E w \in Relays : WillSettle(w, e)

\* The topic shows a later event without an earlier one only if an attempt
\* at the earlier one failed or is unfinished: the order of createdAt is
\* kept for events committed in that order, for any number of relays.
OvertakenOnlyAfterTrouble ==
  \A e, f \in Events :
    (e < f /\ e \in before[f] /\ published[f] > 0 /\ published[e] = 0)
      => failures[e] > 0 \/ HasStatus(e, "PROCESSING")

-----------------------------------------------------------------------------
(* What holds when executions never overlap (Relays has one element).      *)

\* retryFailedEvents selects by equality with MAX_RETRIES: with one relay
\* that equality covers every FAILED row.
FailedIsRetryable ==
  \A e \in Events : HasStatus(e, "FAILED") => row[e].retryCount = MaxRetries

\* One relay publishes an event again only after a catch block ran for it.
DuplicatesAreRetries == \A e \in Events : published[e] <= 1 + failures[e]

\* SENT is final for one relay: the row is not touched again until
\* cleanupOldEvents deletes it, and a deleted row does not come back.
SentIsFinal ==
  [][\A e \in created :
       /\ HasStatus(e, "SENT") => row'[e] \in {row[e], Null}
       /\ row[e] = Null => row'[e] = Null]_vars

\* The events the service is done with: their rows are SENT or deleted.
Settled == {e \in created : row[e] = Null \/ HasStatus(e, "SENT")}

C == INSTANCE Channel WITH
       Messages <- Events, recorded <- created, delivered <- published,
       settled <- Settled

\* One relay implements the channel: no event is settled before it is in the
\* topic, and none is emitted, or open again, once it is settled, whatever
\* failed, crashed, or was retried and cleaned up meanwhile.
ImplementsChannel == C!Spec

\* Under the scheduler, and while no execution is lost, every recorded event
\* reaches Kafka, whatever failed and had to be retried.
PublishedUnlessLost ==
  \A e \in Events : e \in created ~> (published[e] > 0 \/ lost > 0)

\* Under the same conditions its row ends SENT or deleted, for good.
SettledUnlessLost ==
  \A e \in Events :
    e \in created ~> ([](row[e] = Null \/ HasStatus(e, "SENT")) \/ lost > 0)

-----------------------------------------------------------------------------
\* What the repository promises of the outbox: a periodic process publishes
\* every event that was recorded.  It fails when an execution is lost, and
\* when executions overlap.
EventuallyPublished ==
  \A e \in Events : e \in created ~> published[e] > 0
=============================================================================
