---------------------------- MODULE OutboxProofs ----------------------------
(***************************************************************************)
(* Proofs about the outbox for any number of events and of overlapping     *)
(* relays, any MAX_RETRIES, batch size and retention, and any number of    *)
(* faults and crashes.                                                     *)
(***************************************************************************)
EXTENDS Outbox, FiniteSetTheorems, TLAPS

PCs == {"idle", "processEvent", "saveProcessing", "emit", "sent",
        "saveSent", "catch", "saveCaught"}

-----------------------------------------------------------------------------
(* Lemmas about the operators.                                             *)

\* At most one entity of a batch is the one being processed.
LEMMA CurrentUnique ==
  ASSUME NEW w \in Relays, NEW e \in Events, NEW f \in Events,
         Current(w, e), Current(w, f)
  PROVE  e = f
BY SizesAssumption DEF Current, Events

\* Merging well-typed rows gives a row, or none when there is none to update.
LEMMA MergeType ==
  ASSUME NEW c \in Row \cup {Null}, NEW b \in Row \cup {Null}, NEW n \in Row
  PROVE  Merge(c, b, n) \in Row \cup {Null}
<1>1. CASE b = Null
  BY <1>1 DEF Merge
<1>2. CASE b # Null /\ c = Null
  BY <1>2 DEF Merge
<1>3. CASE b # Null /\ c # Null
  BY <1>3 DEF Merge, Row
<1> QED BY <1>1, <1>2, <1>3

\* The status a save leaves is the entity's or the one that was there.
LEMMA MergeStatus ==
  ASSUME NEW c \in Row \cup {Null}, NEW b \in Row \cup {Null}, NEW n \in Row,
         ~ InsertConflict(b, c)
  PROVE  /\ Merge(c, b, n) = Null => c = Null
         /\ Merge(c, b, n) # Null =>
              \/ Merge(c, b, n).status = n.status
              \/ /\ c # Null /\ b # Null
                 /\ b.status = n.status
                 /\ Merge(c, b, n).status = c.status
<1>1. CASE b = Null
  BY <1>1, NullAssumption DEF Merge, InsertConflict
<1>2. CASE b # Null /\ c = Null
  BY <1>2 DEF Merge
<1>3. CASE b # Null /\ c # Null
  <2>1. Merge(c, b, n).status = IF n.status # b.status THEN n.status ELSE c.status
    BY <1>3 DEF Merge
  <2>2. Merge(c, b, n) # Null
    <3>1. Merge(c, b, n) \in Row
      BY <1>3 DEF Merge, Row
    <3> QED BY <3>1, NullAssumption
  <2> QED BY <1>3, <2>1, <2>2
<1> QED BY <1>1, <1>2, <1>3

\* The catch block keeps an entity well-typed and makes it PENDING or FAILED.
LEMMA CaughtType ==
  ASSUME NEW n \in Row
  PROVE  Caught(n) \in Row /\ Caught(n).status \in {"PENDING", "FAILED"}
<1> DEFINE s == IF n.retryCount + 1 >= MaxRetries THEN "FAILED" ELSE "PENDING"
<1>1. s \in {"PENDING", "FAILED"}
  OBVIOUS
<1>2. Caught(n) = [n EXCEPT !.retryCount = n.retryCount + 1, !.status = s]
  BY DEF Caught
<1>3. n.retryCount + 1 \in Nat
  BY DEF Row
<1> HIDE DEF s
<1> QED BY <1>1, <1>2, <1>3 DEF Row, Statuses

\* An older pending event is in every batch a younger one is in.
LEMMA OldestIsClosed ==
  ASSUME NEW e \in Pending, NEW f \in OldestPending, e < f
  PROVE  e \in OldestPending
<1> DEFINE Older(x) == {g \in Pending : g < x}
<1>1. Older(e) \subseteq Older(f)
  BY SizesAssumption DEF Pending, OldestPending, Events
<1>2. IsFiniteSet(Older(f)) /\ IsFiniteSet(Older(e))
  <2>1. IsFiniteSet(1..NumEvents)
    BY FS_Interval, SizesAssumption
  <2>2. Older(f) \subseteq 1..NumEvents /\ Older(e) \subseteq 1..NumEvents
    BY DEF Pending, Events
  <2> HIDE DEF Older
  <2> QED BY <2>1, <2>2, FS_Subset
<1>3. Cardinality(Older(e)) <= Cardinality(Older(f))
  BY <1>1, <1>2, FS_Subset
<1>4. Cardinality(Older(e)) \in Nat /\ Cardinality(Older(f)) \in Nat
  BY <1>2, FS_CardinalityType
<1>5. Cardinality(Older(f)) < BatchSize
  BY DEF OldestPending
<1>6. Cardinality(Older(e)) < BatchSize
  BY <1>3, <1>4, <1>5, SizesAssumption
<1> QED BY <1>6 DEF OldestPending

-----------------------------------------------------------------------------
(* Type correctness.                                                       *)

\* The typing of the relays alone.
RelayTypes ==
  /\ pc \in [Relays -> PCs]
  /\ batch \in [Relays -> [Events -> Row \cup {Null}]]
  /\ loaded \in [Relays -> Row \cup {Null}]

\* The second statement of a save keeps the table well-typed.
LEMMA WriteType ==
  ASSUME TypeOK, NEW w \in Relays, NEW e \in Events, Current(w, e), Write(w, e)
  PROVE  row' \in [Events -> Row \cup {Null}]
<1>1. batch[w][e] \in Row
  BY DEF TypeOK, Current
<1>2. row[e] \in Row \cup {Null} /\ loaded[w] \in Row \cup {Null}
  BY DEF TypeOK
<1>3. Merge(row[e], loaded[w], batch[w][e]) \in Row \cup {Null}
  BY <1>1, <1>2, MergeType
<1> QED BY <1>3 DEF TypeOK, Write

\* The status a row has after the second statement of a save.
LEMMA WriteStatus ==
  ASSUME TypeOK, NEW w \in Relays, NEW e \in Events, Current(w, e), Write(w, e)
  PROVE  /\ \A f \in Events : f # e => row'[f] = row[f]
         /\ row'[e] = Null => row[e] = Null
         /\ row'[e] # Null =>
              \/ row'[e].status = batch[w][e].status
              \/ /\ row[e] # Null /\ loaded[w] # Null
                 /\ loaded[w].status = batch[w][e].status
                 /\ row'[e].status = row[e].status
<1>1. batch[w][e] \in Row /\ row[e] \in Row \cup {Null}
      /\ loaded[w] \in Row \cup {Null} /\ ~ InsertConflict(loaded[w], row[e])
  BY DEF TypeOK, Current, Write
<1>2. row'[e] = Merge(row[e], loaded[w], batch[w][e])
  BY DEF Write, TypeOK
<1>3. \A f \in Events : f # e => row'[f] = row[f]
  BY DEF Write, TypeOK
<1> QED BY <1>1, <1>2, <1>3, MergeStatus

\* Going on in the loop keeps the relays well-typed.
LEMMA AdvanceType ==
  ASSUME TypeOK, NEW w \in Relays, NEW e \in Events, Advance(w, e)
  PROVE  RelayTypes'
<1>1. [batch[w] EXCEPT ![e] = Null] \in [Events -> Row \cup {Null}]
  BY DEF TypeOK
<1>2. batch' \in [Relays -> [Events -> Row \cup {Null}]]
  BY <1>1 DEF TypeOK, Advance
<1>3. (IF \E f \in Events \ {e} : batch[w][f] # Null
       THEN "processEvent" ELSE "idle") \in PCs
  BY DEF PCs
<1>4. pc' \in [Relays -> PCs] /\ loaded' \in [Relays -> Row \cup {Null}]
  BY <1>3 DEF TypeOK, PCs, Advance
<1> QED BY <1>2, <1>4 DEF RelayTypes

\* So does leaving it.
LEMMA AbandonType ==
  ASSUME TypeOK, NEW w \in Relays, Abandon(w)
  PROVE  RelayTypes'
<1>1. [e \in Events |-> Null] \in [Events -> Row \cup {Null}]
  OBVIOUS
<1>2. batch' \in [Relays -> [Events -> Row \cup {Null}]]
  BY <1>1 DEF TypeOK, Abandon
<1>3. pc' \in [Relays -> PCs] /\ loaded' \in [Relays -> Row \cup {Null}]
  BY DEF TypeOK, PCs, Abandon
<1> QED BY <1>2, <1>3 DEF RelayTypes

\* So does the catch block, which also counts the attempt.
LEMMA CatchType ==
  ASSUME TypeOK, NEW w \in Relays, NEW e \in Events, Current(w, e), Catch(w, e)
  PROVE  RelayTypes' /\ failures' \in [Events -> Nat]
<1>1. Caught(batch[w][e]) \in Row
  BY CaughtType DEF TypeOK, Current
<1>2. batch' \in [Relays -> [Events -> Row \cup {Null}]]
  BY <1>1 DEF TypeOK, Catch, SetEntity
<1>3. pc' \in [Relays -> PCs] /\ loaded' \in [Relays -> Row \cup {Null}]
  BY DEF TypeOK, Catch, PCs
<1>4. failures' \in [Events -> Nat]
  BY DEF TypeOK, Catch
<1> QED BY <1>2, <1>3, <1>4 DEF RelayTypes

\* Every step keeps every variable well-typed.
LEMMA TypeStep == TypeOK /\ [Next]_vars => TypeOK'
<1> SUFFICES ASSUME TypeOK, [Next]_vars PROVE TypeOK'
  OBVIOUS
<1> USE DEF PCs
<1>1. ASSUME NEW e \in Events, CreateOutboxEvent(e) PROVE TypeOK'
  <2>1. NewRow \in Row
    BY DEF NewRow, Row, Statuses
  <2> QED BY <1>1, <2>1 DEF CreateOutboxEvent, TypeOK, relay, history
<1>2. ASSUME NEW w \in Relays, FindPending(w) PROVE TypeOK'
  BY <1>2 DEF FindPending, TypeOK, table, history
<1>3. ASSUME NEW w \in Relays, SelectProcessing(w) PROVE TypeOK'
  <2> PICK e \in Events : Current(w, e)
        /\ SetEntity(w, e, [batch[w][e] EXCEPT !.status = "PROCESSING"])
        /\ Select(w, e, "saveProcessing")
    BY <1>3 DEF SelectProcessing
  <2> batch[w][e] \in Row
    BY DEF TypeOK, Current
  <2>1. [batch[w][e] EXCEPT !.status = "PROCESSING"] \in Row
    BY DEF Row, Statuses
  <2>2. batch' \in [Relays -> [Events -> Row \cup {Null}]]
    BY <2>1 DEF SetEntity, TypeOK
  <2>3. pc' \in [Relays -> PCs] /\ loaded' \in [Relays -> Row \cup {Null}]
    BY DEF Select, TypeOK
  <2> QED BY <1>3, <2>2, <2>3 DEF SelectProcessing, TypeOK, table, history
<1>4. ASSUME NEW w \in Relays, SaveProcessing(w) PROVE TypeOK'
  <2>1. row' \in [Events -> Row \cup {Null}]
    BY <1>4, WriteType DEF SaveProcessing
  <2> QED BY <1>4, <2>1 DEF SaveProcessing, TypeOK, history
<1>5. ASSUME NEW w \in Relays, Emit(w) PROVE TypeOK'
  <2> PICK e \in Events : Current(w, e)
        /\ published' = [published EXCEPT ![e] = @ + 1]
        /\ SetEntity(w, e, [batch[w][e] EXCEPT !.status = "SENT",
                                               !.processedAt = today])
    BY <1>5 DEF Emit
  <2> batch[w][e] \in Row /\ today \in Nat
    BY DEF TypeOK, Current
  <2>1. [batch[w][e] EXCEPT !.status = "SENT", !.processedAt = today] \in Row
    BY DEF Row, Statuses
  <2>2. batch' \in [Relays -> [Events -> Row \cup {Null}]]
    BY <2>1 DEF SetEntity, TypeOK
  <2>3. published' \in [Events -> Nat]
    BY DEF TypeOK
  <2> QED BY <1>5, <2>2, <2>3 DEF Emit, TypeOK, table, history
<1>6. ASSUME NEW w \in Relays, SelectSent(w) PROVE TypeOK'
  BY <1>6 DEF SelectSent, Select, TypeOK, table, history
<1>7. ASSUME NEW w \in Relays, SaveSent(w) PROVE TypeOK'
  <2>1. row' \in [Events -> Row \cup {Null}] /\ RelayTypes'
    BY <1>7, WriteType, AdvanceType DEF SaveSent
  <2> QED BY <1>7, <2>1 DEF SaveSent, RelayTypes, TypeOK, history
<1>8. ASSUME NEW w \in Relays, SaveFails(w) PROVE TypeOK'
  <2>1. RelayTypes' /\ failures' \in [Events -> Nat]
    BY <1>8, CatchType DEF SaveFails
  <2> QED BY <1>8, <2>1 DEF SaveFails, RelayTypes, TypeOK, table
<1>9. ASSUME NEW w \in Relays, EmitFails(w) PROVE TypeOK'
  <2>1. RelayTypes' /\ failures' \in [Events -> Nat]
    BY <1>9, CatchType DEF EmitFails
  <2>2. published' \in [Events -> Nat]
    BY <1>9 DEF EmitFails, TypeOK
  <2> QED BY <1>9, <2>1, <2>2 DEF EmitFails, RelayTypes, TypeOK, table
<1>10. ASSUME NEW w \in Relays, SaveConflicts(w) PROVE TypeOK'
  <2>1. RelayTypes' /\ failures' \in [Events -> Nat]
    BY <1>10, CatchType DEF SaveConflicts
  <2> QED BY <1>10, <2>1 DEF SaveConflicts, RelayTypes, TypeOK, table
<1>11. ASSUME NEW w \in Relays, SelectCaught(w) PROVE TypeOK'
  BY <1>11 DEF SelectCaught, Select, TypeOK, table, history
<1>12. ASSUME NEW w \in Relays, SaveCaught(w) PROVE TypeOK'
  <2>1. row' \in [Events -> Row \cup {Null}] /\ RelayTypes'
    BY <1>12, WriteType, AdvanceType DEF SaveCaught
  <2> QED BY <1>12, <2>1 DEF SaveCaught, RelayTypes, TypeOK, history
<1>13. ASSUME NEW w \in Relays,
              CaughtSaveConflicts(w) \/ CaughtSaveFails(w) \/ Crash(w)
       PROVE  TypeOK'
  <2>1. RelayTypes'
    BY <1>13, AbandonType DEF CaughtSaveConflicts, CaughtSaveFails, Crash
  <2>2. UNCHANGED <<today, published, table, failures, faults>> /\ lost' \in Nat
    BY <1>13 DEF CaughtSaveConflicts, CaughtSaveFails, Crash, TypeOK, history
  <2> QED BY <2>1, <2>2 DEF RelayTypes, TypeOK, table
<1>14. CASE RetryFailedEvents
  <2>1. ASSUME NEW r \in Row
        PROVE  [[r EXCEPT !.status = "PENDING"] EXCEPT !.retryCount = 0] \in Row
    BY DEF Row, Statuses
  <2> QED BY <1>14, <2>1 DEF RetryFailedEvents, HasStatus, TypeOK, relay, history
<1>15. CASE CleanupOldEvents
  BY <1>15 DEF CleanupOldEvents, TypeOK, relay, history
<1>16. CASE NextDay
  BY <1>16 DEF NextDay, TypeOK, relay, table, history
<1>17. CASE UNCHANGED vars
  BY <1>17 DEF vars, TypeOK
<1> QED BY <1>1, <1>2, <1>3, <1>4, <1>5, <1>6, <1>7, <1>8, <1>9, <1>10, <1>11,
           <1>12, <1>13, <1>14, <1>15, <1>16, <1>17
        DEF Next, RelayStep, RelayFault

\* Type correctness of the table, the relays and the history, in every
\* reachable state.
THEOREM TypeCorrect == Spec => []TypeOK
<1>1. Init => TypeOK
  BY DEF Init, TypeOK
<1> QED BY <1>1, TypeStep, PTL DEF Spec

-----------------------------------------------------------------------------
(* The invariants, strengthened until they are inductive.                  *)

\* Rows and entities stem from a committed createOutboxEvent.
RowsAreCreated == \A e \in Events : row[e] # Null => e \in created
BatchIsCreated ==
  \A w \in Relays, e \in Events : batch[w][e] # Null => e \in created

\* An entity is marked SENT in memory only after its emit.
SentEntityIsPublished ==
  \A w \in Relays, e \in Events :
    (batch[w][e] # Null /\ batch[w][e].status = "SENT") => published[e] > 0

DeliveryInv ==
  /\ TypeOK
  /\ RowsAreCreated
  /\ BatchIsCreated
  /\ SentEntityIsPublished
  /\ SentIsPublished
  /\ GoneIsPublished

\* The status of the current entity is the one its place in processEvent
\* gave it; the catch block has counted its attempt.
StatusAt(p) ==
  CASE p \in {"saveProcessing", "emit"} -> {"PROCESSING"}
    [] p \in {"sent", "saveSent"} -> {"SENT"}
    [] p \in {"catch", "saveCaught"} -> {"PENDING", "FAILED"}
    [] OTHER -> Statuses

StatusFollowsPc ==
  \A w \in Relays, e \in Events :
    Current(w, e) => batch[w][e].status \in StatusAt(pc[w])

OwnerInv == TypeOK /\ StatusFollowsPc /\ ProcessingHasOwner

\* e reached the topic, failed, or is being processed.
Troubled(e) ==
  published[e] > 0 \/ failures[e] > 0 \/ HasStatus(e, "PROCESSING")

FailedIsCounted ==
  \A e \in Events : HasStatus(e, "FAILED") => failures[e] > 0

CaughtIsCounted ==
  \A w \in Relays, e \in Events :
    (Current(w, e) /\ pc[w] \in {"catch", "saveCaught"}) => failures[e] > 0

TopicIsCreated ==
  \A e \in Events :
    /\ published[e] > 0 => e \in created
    /\ before[e] \subseteq created

\* A relay that holds a younger event holds the older ones too, or they are
\* past their first attempt.
BatchIsOrdered ==
  \A w \in Relays : \A e, f \in Events :
    (e < f /\ e \in before[f] /\ batch[w][f] # Null)
      => batch[w][e] # Null \/ Troubled(e)

OrderInv ==
  /\ DeliveryInv
  /\ StatusFollowsPc
  /\ FailedIsCounted
  /\ CaughtIsCounted
  /\ TopicIsCreated
  /\ BatchIsOrdered
  /\ OvertakenOnlyAfterTrouble

-----------------------------------------------------------------------------
(* What the operators do to the batches.                                   *)

\* No entity appears or changes in a batch.
BatchShrinks ==
  \A w \in Relays, e \in Events :
    batch'[w][e] = batch[w][e] \/ batch'[w][e] = Null

LEMMA AdvanceShrinks ==
  ASSUME TypeOK, NEW w \in Relays, NEW e \in Events, Advance(w, e)
  PROVE  /\ BatchShrinks
         /\ \A v \in Relays, f \in Events :
              (v # w \/ f # e) => batch'[v][f] = batch[v][f]
         /\ batch'[w][e] = Null
BY DEF TypeOK, Advance, BatchShrinks

LEMMA AbandonShrinks ==
  ASSUME TypeOK, NEW w \in Relays, Abandon(w)
  PROVE  /\ BatchShrinks
         /\ \A v \in Relays : v # w => batch'[v] = batch[v]
         /\ \A e \in Events : batch'[w][e] = Null
BY DEF TypeOK, Abandon, BatchShrinks

LEMMA SetEntityEffect ==
  ASSUME TypeOK, NEW w \in Relays, NEW e \in Events, NEW n, SetEntity(w, e, n)
  PROVE  /\ batch'[w][e] = n
         /\ \A v \in Relays, f \in Events :
              (v # w \/ f # e) => batch'[v][f] = batch[v][f]
BY DEF TypeOK, SetEntity

\* Changing the current entity of a relay leaves it the current one.
LEMMA CurrentKept ==
  ASSUME TypeOK, NEW w \in Relays, NEW e \in Events, Current(w, e),
         NEW n \in Row, SetEntity(w, e, n)
  PROVE  Current(w, e)' /\ \A f \in Events : Current(w, f)' => f = e
<1>1. /\ batch'[w][e] # Null
      /\ \A f \in Events : f # e => batch'[w][f] = batch[w][f]
  BY SetEntityEffect, NullAssumption
<1>2. Current(w, e)'
  BY <1>1, SizesAssumption DEF Current, Events
<1>3. ASSUME NEW f \in Events, Current(w, f)', f # e PROVE FALSE
  <2>1. f < e \/ e < f
    BY <1>3, SizesAssumption DEF Events
  <2> QED BY <1>1, <1>3, <2>1 DEF Current
<1> QED BY <1>2, <1>3

-----------------------------------------------------------------------------
(* Delivery.                                                               *)

\* A step that leaves the table alone, takes no message off the topic and
\* marks an entity SENT only when its event is published.
LEMMA DeliveryFrame ==
  ASSUME DeliveryInv, TypeOK', UNCHANGED <<row, created>>,
         \A e \in Events : published[e] > 0 => published'[e] > 0,
         \A w \in Relays, e \in Events : batch'[w][e] # Null =>
           /\ batch[w][e] # Null
           /\ batch'[w][e].status = "SENT" =>
                batch[w][e].status = "SENT" \/ published'[e] > 0
  PROVE  DeliveryInv'
<1>1. RowsAreCreated' /\ BatchIsCreated'
  BY DEF DeliveryInv, RowsAreCreated, BatchIsCreated
<1>2. SentEntityIsPublished'
  BY DEF DeliveryInv, SentEntityIsPublished
<1>3. SentIsPublished' /\ GoneIsPublished'
  BY DEF DeliveryInv, SentIsPublished, GoneIsPublished, HasStatus, TypeOK
<1> QED BY <1>1, <1>2, <1>3 DEF DeliveryInv

\* The second statement of a save.
LEMMA DeliveryWrite ==
  ASSUME DeliveryInv, TypeOK', NEW w \in Relays, NEW e \in Events,
         Current(w, e), Write(w, e), UNCHANGED <<published, created>>,
         BatchShrinks
  PROVE  DeliveryInv'
<1> USE DEF DeliveryInv
<1> TypeOK
  BY DEF DeliveryInv
<1>1. batch[w][e] # Null
  BY DEF Current
<1>2. \A f \in Events : f # e => row'[f] = row[f]
  BY WriteStatus
<1>3. /\ row'[e] = Null => row[e] = Null
      /\ row'[e] # Null =>
           \/ row'[e].status = batch[w][e].status
           \/ row[e] # Null /\ row'[e].status = row[e].status
  BY WriteStatus
<1>4. RowsAreCreated'
  BY <1>1, <1>2, <1>3, NullAssumption DEF RowsAreCreated, BatchIsCreated
<1>5. BatchIsCreated' /\ SentEntityIsPublished'
  BY DEF BatchIsCreated, SentEntityIsPublished, BatchShrinks
<1>6. SentIsPublished'
  BY <1>1, <1>2, <1>3, NullAssumption
     DEF SentIsPublished, SentEntityIsPublished, HasStatus
<1>7. GoneIsPublished'
  BY <1>2, <1>3 DEF GoneIsPublished, TypeOK
<1> QED BY <1>4, <1>5, <1>6, <1>7

\* Every step keeps the delivery invariant.
LEMMA DeliveryStep == DeliveryInv /\ [Next]_vars => DeliveryInv'
<1> SUFFICES ASSUME DeliveryInv, [Next]_vars PROVE DeliveryInv'
  OBVIOUS
<1>0. TypeOK /\ TypeOK'
  BY TypeStep DEF DeliveryInv
<1>1. ASSUME NEW e \in Events, CreateOutboxEvent(e) PROVE DeliveryInv'
  <2>1. /\ row'[e] # Null /\ row'[e].status = "PENDING"
        /\ \A f \in Events : f # e => row'[f] = row[f]
    <3>1. NewRow \in Row /\ NewRow.status = "PENDING"
      BY DEF NewRow, Row, Statuses
    <3> QED BY <1>0, <1>1, <3>1, NullAssumption DEF CreateOutboxEvent, TypeOK
  <2>2. created' = created \cup {e} /\ UNCHANGED <<published, batch>>
    BY <1>1 DEF CreateOutboxEvent, relay
  <2>3. RowsAreCreated' /\ BatchIsCreated' /\ SentEntityIsPublished'
    BY <2>1, <2>2 DEF DeliveryInv, RowsAreCreated, BatchIsCreated,
                      SentEntityIsPublished
  <2>4. SentIsPublished' /\ GoneIsPublished'
    BY <1>0, <2>1, <2>2 DEF DeliveryInv, SentIsPublished, GoneIsPublished,
                      HasStatus, TypeOK
  <2> QED BY <1>0, <2>3, <2>4 DEF DeliveryInv
<1>2. ASSUME NEW w \in Relays, FindPending(w) PROVE DeliveryInv'
  <2>1. \A v \in Relays, e \in Events :
          \/ batch'[v][e] = batch[v][e]
          \/ batch'[v][e] = Null
          \/ batch'[v][e] = row[e] /\ HasStatus(e, "PENDING")
    BY <1>0, <1>2 DEF FindPending, OldestPending, Pending, TypeOK
  <2>2. UNCHANGED <<row, published, created>>
    BY <1>2 DEF FindPending, table
  <2>3. BatchIsCreated' /\ SentEntityIsPublished'
    BY <2>1, <2>2 DEF DeliveryInv, BatchIsCreated, RowsAreCreated,
                      SentEntityIsPublished, HasStatus
  <2>4. RowsAreCreated' /\ SentIsPublished' /\ GoneIsPublished'
    BY <2>2 DEF DeliveryInv, RowsAreCreated, SentIsPublished, GoneIsPublished,
                HasStatus
  <2> QED BY <1>0, <2>3, <2>4 DEF DeliveryInv
<1>3. ASSUME NEW w \in Relays, SelectProcessing(w) PROVE DeliveryInv'
  <2> PICK e \in Events : Current(w, e)
        /\ SetEntity(w, e, [batch[w][e] EXCEPT !.status = "PROCESSING"])
    BY <1>3 DEF SelectProcessing
  <2>1. [batch[w][e] EXCEPT !.status = "PROCESSING"].status = "PROCESSING"
    BY <1>0 DEF Current, TypeOK, Row
  <2>2. UNCHANGED <<row, published, created>>
    BY <1>3 DEF SelectProcessing, table
  <2>3. /\ batch[w][e] # Null /\ batch'[w][e].status = "PROCESSING"
        /\ \A v \in Relays, f \in Events :
             (v # w \/ f # e) => batch'[v][f] = batch[v][f]
    <3>1. /\ batch'[w][e] = [batch[w][e] EXCEPT !.status = "PROCESSING"]
          /\ \A v \in Relays, f \in Events :
               (v # w \/ f # e) => batch'[v][f] = batch[v][f]
      BY <1>0, SetEntityEffect
    <3> QED BY <2>1, <3>1 DEF Current
  <2> QED BY <1>0, <2>2, <2>3, DeliveryFrame
<1>4. ASSUME NEW w \in Relays, SaveProcessing(w) PROVE DeliveryInv'
  <2>1. UNCHANGED <<published, created>> /\ BatchShrinks
    BY <1>4 DEF SaveProcessing, BatchShrinks
  <2> QED BY <1>0, <1>4, <2>1, DeliveryWrite DEF SaveProcessing
<1>5. ASSUME NEW w \in Relays, Emit(w) PROVE DeliveryInv'
  <2> PICK e \in Events : Current(w, e)
        /\ published' = [published EXCEPT ![e] = @ + 1]
        /\ SetEntity(w, e, [batch[w][e] EXCEPT !.status = "SENT",
                                               !.processedAt = today])
    BY <1>5 DEF Emit
  <2>1. published'[e] > 0 /\ \A f \in Events : published[f] > 0 => published'[f] > 0
    BY <1>0 DEF TypeOK
  <2>2. UNCHANGED <<row, created>>
    BY <1>5 DEF Emit, table
  <2>3. /\ batch[w][e] # Null
        /\ \A v \in Relays, f \in Events :
             (v # w \/ f # e) => batch'[v][f] = batch[v][f]
    BY <1>0, SetEntityEffect DEF Current
  <2> QED BY <1>0, <2>1, <2>2, <2>3, DeliveryFrame
<1>6. ASSUME NEW w \in Relays, SelectSent(w) \/ SelectCaught(w) PROVE DeliveryInv'
  <2>1. UNCHANGED <<row, created, published, batch>>
    BY <1>6 DEF SelectSent, SelectCaught, table
  <2> QED BY <1>0, <2>1, DeliveryFrame
<1>7. ASSUME NEW w \in Relays, SaveSent(w) \/ SaveCaught(w) PROVE DeliveryInv'
  <2> PICK e \in Events : Current(w, e) /\ Write(w, e) /\ Advance(w, e)
    BY <1>7 DEF SaveSent, SaveCaught
  <2>1. UNCHANGED <<published, created>> /\ BatchShrinks
    BY <1>0, <1>7, AdvanceShrinks DEF SaveSent, SaveCaught
  <2> QED BY <1>0, <2>1, DeliveryWrite
<1>8. ASSUME NEW w \in Relays, SaveFails(w) \/ EmitFails(w) \/ SaveConflicts(w)
      PROVE  DeliveryInv'
  <2> PICK e \in Events : Current(w, e) /\ Catch(w, e)
    BY <1>8 DEF SaveFails, EmitFails, SaveConflicts
  <2>1. Caught(batch[w][e]).status # "SENT"
    <3>1. batch[w][e] \in Row
      BY <1>0 DEF Current, TypeOK
    <3> QED BY <3>1, CaughtType
  <2>2. \A f \in Events : published[f] > 0 => published'[f] > 0
    BY <1>0, <1>8 DEF SaveFails, EmitFails, SaveConflicts, TypeOK
  <2>3. UNCHANGED <<row, created>>
    BY <1>8 DEF SaveFails, EmitFails, SaveConflicts, table
  <2> QED BY <1>0, <2>1, <2>2, <2>3, SetEntityEffect, DeliveryFrame
          DEF Catch, Current
<1>9. ASSUME NEW w \in Relays,
             CaughtSaveConflicts(w) \/ CaughtSaveFails(w) \/ Crash(w)
      PROVE  DeliveryInv'
  <2>1. Abandon(w) /\ UNCHANGED <<row, created, published>>
    BY <1>9 DEF CaughtSaveConflicts, CaughtSaveFails, Crash, table
  <2>2. BatchShrinks
    BY <1>0, <2>1, AbandonShrinks
  <2> QED BY <1>0, <2>1, <2>2, DeliveryFrame DEF BatchShrinks
<1>10. CASE RetryFailedEvents
  <2>1. \A e \in Events : /\ row'[e] = Null <=> row[e] = Null
                          /\ HasStatus(e, "SENT")' => HasStatus(e, "SENT")
    <3>1. ASSUME NEW r \in Row
          PROVE  /\ [r EXCEPT !.status = "PENDING", !.retryCount = 0] # Null
                 /\ [r EXCEPT !.status = "PENDING", !.retryCount = 0].status
                      = "PENDING"
      <4>1. [r EXCEPT !.status = "PENDING", !.retryCount = 0] \in Row
        BY DEF Row, Statuses
      <4> QED BY <4>1, NullAssumption DEF Row
    <3> QED BY <1>0, <1>10, <3>1 DEF RetryFailedEvents, HasStatus, TypeOK
  <2>2. UNCHANGED <<published, batch, created>>
    BY <1>10 DEF RetryFailedEvents, relay
  <2> QED BY <1>0, <2>1, <2>2
          DEF DeliveryInv, RowsAreCreated, BatchIsCreated, SentEntityIsPublished,
              SentIsPublished, GoneIsPublished, TypeOK
<1>11. CASE CleanupOldEvents
  <2>1. \A e \in Events : \/ row'[e] = row[e]
                          \/ row'[e] = Null /\ HasStatus(e, "SENT")
    BY <1>0, <1>11 DEF CleanupOldEvents, TypeOK
  <2>2. UNCHANGED <<published, batch, created>>
    BY <1>11 DEF CleanupOldEvents, relay
  <2>3. RowsAreCreated' /\ BatchIsCreated' /\ SentEntityIsPublished'
    BY <2>1, <2>2 DEF DeliveryInv, RowsAreCreated, BatchIsCreated,
                      SentEntityIsPublished
  <2>4. SentIsPublished' /\ GoneIsPublished'
    BY <1>0, <2>1, <2>2 DEF DeliveryInv, SentIsPublished, GoneIsPublished,
                            HasStatus, TypeOK
  <2> QED BY <1>0, <2>3, <2>4 DEF DeliveryInv
<1>12. CASE NextDay \/ UNCHANGED vars
  <2>1. UNCHANGED <<row, created, published, batch>>
    BY <1>12 DEF NextDay, vars, relay, table
  <2> QED BY <1>0, <2>1, DeliveryFrame
<1> QED BY <1>1, <1>2, <1>3, <1>4, <1>5, <1>6, <1>7, <1>8, <1>9, <1>10, <1>11,
           <1>12
        DEF Next, RelayStep, RelayFault

LEMMA DeliveryHolds == Spec => []DeliveryInv
<1>1. Init => DeliveryInv
  BY DEF Init, DeliveryInv, TypeOK, RowsAreCreated, BatchIsCreated,
         SentEntityIsPublished, SentIsPublished, GoneIsPublished, HasStatus
<1> QED BY <1>1, DeliveryStep, PTL DEF Spec

\* However relays overlap, crash and save stale entities over each other, a
\* row that says SENT stands for a published event.
THEOREM Delivery == Spec => []SentIsPublished
<1>1. DeliveryInv => SentIsPublished
  BY DEF DeliveryInv
<1> QED BY <1>1, DeliveryHolds, PTL

\* So does a row that is gone, whatever stale save put it back in between.
THEOREM Deletion == Spec => []GoneIsPublished
<1>1. DeliveryInv => GoneIsPublished
  BY DEF DeliveryInv
<1> QED BY <1>1, DeliveryHolds, PTL

-----------------------------------------------------------------------------
(* Ownership.                                                              *)

\* The other relays do not notice.
OnlyRelay(w) ==
  \A v \in Relays : v # w =>
    batch'[v] = batch[v] /\ pc'[v] = pc[v] /\ loaded'[v] = loaded[v]

LEMMA RelayFrame ==
  ASSUME TypeOK, NEW w \in Relays, RelayStep(w) \/ RelayFault(w)
  PROVE  OnlyRelay(w)
<1>1. ASSUME NEW e \in Events, Advance(w, e) \/ Catch(w, e) PROVE OnlyRelay(w)
  BY <1>1 DEF Advance, Catch, SetEntity, OnlyRelay, TypeOK
<1>2. CASE Abandon(w)
  BY <1>2 DEF Abandon, OnlyRelay, TypeOK
<1>3. CASE FindPending(w)
  BY <1>3 DEF FindPending, OnlyRelay, TypeOK
<1>4. CASE SelectProcessing(w)
  BY <1>4 DEF SelectProcessing, SetEntity, Select, OnlyRelay, TypeOK
<1>5. CASE SaveProcessing(w)
  BY <1>5 DEF SaveProcessing, OnlyRelay, TypeOK
<1>6. CASE Emit(w)
  BY <1>6 DEF Emit, SetEntity, OnlyRelay, TypeOK
<1>7. CASE SelectSent(w) \/ SelectCaught(w)
  BY <1>7 DEF SelectSent, SelectCaught, Select, OnlyRelay, TypeOK
<1> QED BY <1>1, <1>2, <1>3, <1>4, <1>5, <1>6, <1>7
        DEF RelayStep, RelayFault, SaveSent, SaveCaught, SaveConflicts,
            SaveFails, EmitFails, CaughtSaveConflicts, CaughtSaveFails, Crash

\* The status of current entities is kept in step with the program counter.
LEMMA StatusStep ==
  ASSUME TypeOK, TypeOK', StatusFollowsPc, [Next]_vars
  PROVE  StatusFollowsPc'
<1>1. ASSUME NEW w \in Relays, OnlyRelay(w),
             \A e \in Events :
               Current(w, e)' => batch'[w][e].status \in StatusAt(pc'[w])
      PROVE  StatusFollowsPc'
  BY <1>1 DEF StatusFollowsPc, OnlyRelay, Current
<1>2. ASSUME NEW w \in Relays, pc'[w] \in {"idle", "processEvent"}, NEW e \in Events,
             Current(w, e)'
      PROVE  batch'[w][e].status \in StatusAt(pc'[w])
  BY <1>2 DEF TypeOK, Current, Row, StatusAt
<1>3. ASSUME NEW w \in Relays, RelayStep(w) \/ RelayFault(w) PROVE StatusFollowsPc'
  <2>0. OnlyRelay(w)
    BY <1>3, RelayFrame
  <2>1. CASE FindPending(w)
    <3>1. pc'[w] = "processEvent"
      BY <2>1 DEF FindPending, TypeOK
    <3> QED BY <1>1, <1>2, <2>0, <3>1
  <2>2. CASE SelectProcessing(w)
    <3> PICK e \in Events : Current(w, e)
          /\ SetEntity(w, e, [batch[w][e] EXCEPT !.status = "PROCESSING"])
          /\ Select(w, e, "saveProcessing")
      BY <2>2 DEF SelectProcessing
    <3>1. [batch[w][e] EXCEPT !.status = "PROCESSING"].status = "PROCESSING"
      BY DEF Current, TypeOK, Row
    <3>2. \A f \in Events : Current(w, f)' => f = e
      <4> batch[w][e] \in Row
        BY DEF Current, TypeOK
      <4>1. [batch[w][e] EXCEPT !.status = "PROCESSING"] \in Row
        BY DEF Row, Statuses
      <4> QED BY <4>1, CurrentKept
    <3>3. batch'[w][e] = [batch[w][e] EXCEPT !.status = "PROCESSING"]
      BY SetEntityEffect
    <3>4. pc'[w] = "saveProcessing"
      BY DEF Select, TypeOK
    <3> QED BY <1>1, <2>0, <3>1, <3>2, <3>3, <3>4 DEF StatusAt
  <2>3. CASE SaveProcessing(w)
    BY <1>1, <2>0, <2>3 DEF SaveProcessing, StatusFollowsPc, StatusAt, TypeOK,
                            Current
  <2>4. CASE Emit(w)
    <3> PICK e \in Events : Current(w, e)
          /\ SetEntity(w, e, [batch[w][e] EXCEPT !.status = "SENT",
                                                 !.processedAt = today])
      BY <2>4 DEF Emit
    <3>1. [batch[w][e] EXCEPT !.status = "SENT", !.processedAt = today].status
            = "SENT"
      BY DEF Current, TypeOK, Row
    <3>2. \A f \in Events : Current(w, f)' => f = e
      <4> batch[w][e] \in Row /\ today \in Nat
        BY DEF Current, TypeOK
      <4>1. [batch[w][e] EXCEPT !.status = "SENT", !.processedAt = today] \in Row
        BY DEF Row, Statuses
      <4> QED BY <4>1, CurrentKept
    <3>3. batch'[w][e] = [batch[w][e] EXCEPT !.status = "SENT",
                                             !.processedAt = today]
      BY SetEntityEffect
    <3>4. pc'[w] = "sent"
      BY <2>4 DEF Emit, TypeOK
    <3> QED BY <1>1, <2>0, <3>1, <3>2, <3>3, <3>4 DEF StatusAt
  <2>5. CASE SelectSent(w) \/ SelectCaught(w)
    <3>1. /\ batch' = batch
          /\ \/ pc[w] = "sent" /\ pc'[w] = "saveSent"
             \/ pc[w] = "catch" /\ pc'[w] = "saveCaught"
      BY <2>5 DEF SelectSent, SelectCaught, Select, TypeOK
    <3>2. StatusAt(pc'[w]) = StatusAt(pc[w])
      BY <3>1 DEF StatusAt
    <3> QED BY <1>1, <2>0, <3>1, <3>2 DEF StatusFollowsPc, Current
  <2>6. CASE SaveSent(w) \/ SaveCaught(w)
    <3>1. pc'[w] \in {"idle", "processEvent"}
      BY <2>6 DEF SaveSent, SaveCaught, Advance, TypeOK
    <3> QED BY <1>1, <1>2, <2>0, <3>1
  <2>7. CASE SaveFails(w) \/ EmitFails(w) \/ SaveConflicts(w)
    <3> PICK e \in Events : Current(w, e) /\ Catch(w, e)
      BY <2>7 DEF SaveFails, EmitFails, SaveConflicts
    <3>1. batch[w][e] \in Row
      BY DEF Current, TypeOK
    <3>2. /\ Caught(batch[w][e]) \in Row
          /\ Caught(batch[w][e]).status \in {"PENDING", "FAILED"}
      BY <3>1, CaughtType
    <3>3. \A f \in Events : Current(w, f)' => f = e
      BY <3>2, CurrentKept DEF Catch
    <3>4. batch'[w][e] = Caught(batch[w][e]) /\ pc'[w] = "catch"
      BY SetEntityEffect DEF Catch, TypeOK
    <3> QED BY <1>1, <2>0, <3>2, <3>3, <3>4 DEF StatusAt
  <2>8. CASE CaughtSaveConflicts(w) \/ CaughtSaveFails(w) \/ Crash(w)
    <3>1. pc'[w] = "idle"
      BY <2>8 DEF CaughtSaveConflicts, CaughtSaveFails, Crash, Abandon, TypeOK
    <3> QED BY <1>1, <1>2, <2>0, <3>1
  <2> QED BY <1>3, <2>1, <2>2, <2>3, <2>4, <2>5, <2>6, <2>7, <2>8
          DEF RelayStep, RelayFault
<1>4. CASE UNCHANGED <<pc, batch>>
  BY <1>4 DEF StatusFollowsPc, Current
<1> QED BY <1>3, <1>4 DEF Next, CreateOutboxEvent, RetryFailedEvents,
                          CleanupOldEvents, NextDay, relay, vars

\* The steps that change an entity keep every relay's current entity, and with
\* it the entities of every batch.
LEMMA EntityKept ==
  ASSUME TypeOK, NEW w \in Relays,
         \/ SelectProcessing(w) \/ Emit(w)
         \/ SaveFails(w) \/ EmitFails(w) \/ SaveConflicts(w)
  PROVE  /\ \A e \in Events : Current(w, e) => Current(w, e)'
         /\ \A v \in Relays, e \in Events :
              batch'[v][e] = Null <=> batch[v][e] = Null
<1>1. \E e \in Events, n \in Row : Current(w, e) /\ SetEntity(w, e, n)
  <2>1. ASSUME NEW e \in Events, Current(w, e)
        PROVE  /\ [batch[w][e] EXCEPT !.status = "PROCESSING"] \in Row
               /\ [batch[w][e] EXCEPT !.status = "SENT",
                                      !.processedAt = today] \in Row
               /\ Caught(batch[w][e]) \in Row
    <3>1. batch[w][e] \in Row /\ today \in Nat
      BY <2>1 DEF Current, TypeOK
    <3>2. Caught(batch[w][e]) \in Row
      BY <3>1, CaughtType
    <3> QED BY <3>1, <3>2 DEF Row, Statuses
  <2>2. CASE SelectProcessing(w)
    BY <2>1, <2>2 DEF SelectProcessing
  <2>3. CASE Emit(w)
    BY <2>1, <2>3 DEF Emit
  <2>4. CASE SaveFails(w) \/ EmitFails(w) \/ SaveConflicts(w)
    BY <2>1, <2>4 DEF SaveFails, EmitFails, SaveConflicts, Catch
  <2> QED BY <2>2, <2>3, <2>4
<1> PICK e \in Events, n \in Row : Current(w, e) /\ SetEntity(w, e, n)
  BY <1>1
<1>2. Current(w, e)'
  BY CurrentKept
<1>3. \A f \in Events : Current(w, f) => f = e
  BY CurrentUnique
<1>4. \A v \in Relays, f \in Events : batch'[v][f] = Null <=> batch[v][f] = Null
  BY SetEntityEffect, NullAssumption DEF Current
<1> QED BY <1>2, <1>3, <1>4

\* A step of relay w keeps the ownership invariant when w owns what it makes
\* PROCESSING and goes on owning what it leaves PROCESSING.
LEMMA OwnerKept ==
  ASSUME OwnerInv, NEW w \in Relays, OnlyRelay(w), lost' = 0 => lost = 0,
         \A e \in Events : HasStatus(e, "PROCESSING")' =>
           \/ WillSettle(w, e)'
           \/ HasStatus(e, "PROCESSING") /\ ~ WillSettle(w, e)
  PROVE  ProcessingHasOwner'
<1> SUFFICES ASSUME lost' = 0, NEW e \in Events, HasStatus(e, "PROCESSING")'
             PROVE  \E v \in Relays : WillSettle(v, e)'
  BY DEF ProcessingHasOwner
<1>1. CASE WillSettle(w, e)'
  BY <1>1
<1>2. CASE HasStatus(e, "PROCESSING") /\ ~ WillSettle(w, e)
  <2>1. PICK v \in Relays : WillSettle(v, e) /\ v # w
    BY <1>2 DEF OwnerInv, ProcessingHasOwner
  <2>2. WillSettle(v, e)'
    BY <2>1 DEF WillSettle, Current, OnlyRelay
  <2> QED BY <2>2
<1> QED BY <1>1, <1>2

\* Every step keeps the ownership invariant.
LEMMA OwnerStep == OwnerInv /\ [Next]_vars => OwnerInv'
<1> SUFFICES ASSUME OwnerInv, [Next]_vars PROVE OwnerInv'
  OBVIOUS
<1>0. TypeOK /\ TypeOK' /\ StatusFollowsPc /\ StatusFollowsPc'
  BY TypeStep, StatusStep DEF OwnerInv
<1> SUFFICES ProcessingHasOwner'
  BY <1>0 DEF OwnerInv
<1>1. ASSUME NEW w \in Relays, RelayStep(w) \/ RelayFault(w)
      PROVE  ProcessingHasOwner'
  <2>0. OnlyRelay(w)
    BY <1>0, <1>1, RelayFrame
  <2>1. CASE FindPending(w) \/ SelectProcessing(w)
    <3>1. UNCHANGED <<row, lost>> /\ \A e \in Events : ~ WillSettle(w, e)
      BY <2>1 DEF FindPending, SelectProcessing, WillSettle, table, history
    <3> QED BY <2>0, <3>1, OwnerKept DEF HasStatus
  <2>2. CASE SaveProcessing(w)
    <3> PICK e \in Events : Current(w, e) /\ Write(w, e)
      BY <2>2 DEF SaveProcessing
    <3>1. UNCHANGED lost /\ \A f \in Events : ~ WillSettle(w, f)
      BY <2>2 DEF SaveProcessing, WillSettle, history
    <3>2. WillSettle(w, e)'
      BY <1>0, <2>2 DEF SaveProcessing, WillSettle, Current, TypeOK
    <3>3. \A f \in Events : f # e => row'[f] = row[f]
      BY <1>0, WriteStatus
    <3> QED BY <2>0, <3>1, <3>2, <3>3, OwnerKept DEF HasStatus
  <2>3. CASE Emit(w) \/ SaveFails(w) \/ EmitFails(w) \/ SaveConflicts(w)
    <3>1. UNCHANGED <<row, lost>> /\ pc'[w] \in {"sent", "catch"}
      BY <1>0, <2>3 DEF Emit, SaveFails, EmitFails, SaveConflicts, Catch, TypeOK,
                        table, history
    <3>2. \A e \in Events : Current(w, e) => Current(w, e)'
      BY <1>0, <2>3, EntityKept
    <3>3. \A e \in Events : WillSettle(w, e) => WillSettle(w, e)'
      BY <3>1, <3>2 DEF WillSettle
    <3> QED BY <2>0, <3>1, <3>3, OwnerKept DEF HasStatus
  <2>4. CASE SelectSent(w) \/ SelectCaught(w)
    <3> PICK e \in Events :
          Current(w, e) /\ (Select(w, e, "saveSent") \/ Select(w, e, "saveCaught"))
      BY <2>4 DEF SelectSent, SelectCaught
    <3>1. UNCHANGED <<row, lost, batch>>
      BY <2>4 DEF SelectSent, SelectCaught, table, history
    <3>2. \A f \in Events : WillSettle(w, f) => f = e
      BY CurrentUnique DEF WillSettle
    <3>3. batch[w][e].status \in {"SENT", "PENDING", "FAILED"}
      BY <1>0, <2>4 DEF SelectSent, SelectCaught, StatusFollowsPc, StatusAt
    <3>4. HasStatus(e, "PROCESSING") => WillSettle(w, e)'
      BY <1>0, <3>1, <3>3 DEF HasStatus, WillSettle, Select, Current, TypeOK
    <3> QED BY <2>0, <3>1, <3>2, <3>4, OwnerKept DEF HasStatus
  <2>5. CASE SaveSent(w) \/ SaveCaught(w)
    <3> PICK e \in Events : Current(w, e) /\ Write(w, e) /\ Advance(w, e)
      BY <2>5 DEF SaveSent, SaveCaught
    <3>1. UNCHANGED lost
      BY <2>5 DEF SaveSent, SaveCaught, history
    <3>2. \A f \in Events : WillSettle(w, f) => f = e
      BY CurrentUnique DEF WillSettle
    <3>3. batch[w][e].status \in {"SENT", "PENDING", "FAILED"}
      BY <1>0, <2>5 DEF SaveSent, SaveCaught, StatusFollowsPc, StatusAt
    <3>4. HasStatus(e, "PROCESSING")' =>
            HasStatus(e, "PROCESSING") /\ ~ WillSettle(w, e)
      BY <1>0, <2>5, <3>3, WriteStatus
         DEF HasStatus, WillSettle, SaveSent, SaveCaught
    <3>5. \A f \in Events : f # e => row'[f] = row[f]
      BY <1>0, WriteStatus
    <3> QED BY <2>0, <3>1, <3>2, <3>4, <3>5, OwnerKept DEF HasStatus
  <2>6. CASE CaughtSaveConflicts(w)
    <3> PICK e \in Events : Current(w, e) /\ InsertConflict(loaded[w], row[e])
      BY <2>6 DEF CaughtSaveConflicts
    <3>1. UNCHANGED <<row, lost>>
      BY <2>6 DEF CaughtSaveConflicts, table, history
    <3>2. \A f \in Events : ~ WillSettle(w, f)
      BY <2>6 DEF CaughtSaveConflicts, WillSettle, InsertConflict
    <3> QED BY <2>0, <3>1, <3>2, OwnerKept DEF HasStatus
  <2>7. CASE CaughtSaveFails(w) \/ Crash(w)
    <3>1. lost' # 0
      BY <1>0, <2>7 DEF CaughtSaveFails, Crash, TypeOK
    <3> QED BY <3>1 DEF ProcessingHasOwner
  <2> QED BY <1>1, <2>1, <2>2, <2>3, <2>4, <2>5, <2>6, <2>7
          DEF RelayStep, RelayFault
<1>2. ASSUME UNCHANGED <<relay, lost>>,
             \A e \in Events :
               HasStatus(e, "PROCESSING")' => HasStatus(e, "PROCESSING")
      PROVE  ProcessingHasOwner'
  BY <1>2 DEF OwnerInv, ProcessingHasOwner, WillSettle, Current, relay
<1>3. ASSUME NEW e \in Events, CreateOutboxEvent(e) PROVE ProcessingHasOwner'
  BY <1>0, <1>2, <1>3 DEF CreateOutboxEvent, NewRow, HasStatus, TypeOK, history
<1>4. CASE RetryFailedEvents
  <2>1. ASSUME NEW r \in Row
        PROVE  [r EXCEPT !.status = "PENDING", !.retryCount = 0].status
                 # "PROCESSING"
    BY DEF Row
  <2> QED BY <1>0, <1>2, <1>4, <2>1
          DEF RetryFailedEvents, HasStatus, TypeOK, history
<1>5. CASE CleanupOldEvents
  BY <1>0, <1>2, <1>5 DEF CleanupOldEvents, HasStatus, TypeOK, history
<1>6. CASE NextDay
  BY <1>2, <1>6 DEF NextDay, HasStatus, table, history
<1>7. CASE UNCHANGED vars
  BY <1>2, <1>7 DEF vars, HasStatus, relay
<1> QED BY <1>1, <1>3, <1>4, <1>5, <1>6, <1>7 DEF Next

\* Without crashes and failing catch blocks no row is left PROCESSING with
\* nobody to finish it, however many relays overlap.
THEOREM Ownership == Spec => []ProcessingHasOwner
<1>1. Init => OwnerInv
  BY DEF Init, OwnerInv, TypeOK, StatusFollowsPc, ProcessingHasOwner, HasStatus,
         Current
<1>2. OwnerInv => ProcessingHasOwner
  BY DEF OwnerInv
<1> QED BY <1>1, <1>2, OwnerStep, PTL DEF Spec

-----------------------------------------------------------------------------
(* Order.                                                                  *)

\* The frame of every step but FindPending and CreateOutboxEvent: entities
\* leave a batch only when their event has been tried or with all the others,
\* and what is published was some relay's current entity.
LEMMA OrderFrame ==
  ASSUME OrderInv, DeliveryInv', StatusFollowsPc', CaughtIsCounted',
         UNCHANGED <<created, before>>,
         \A e \in Events :
           /\ Troubled(e) => Troubled(e)'
           /\ HasStatus(e, "FAILED")' => failures'[e] > 0
           /\ published'[e] > 0 =>
                published[e] > 0 \/ \E w \in Relays : Current(w, e),
         \A w \in Relays, e \in Events :
           /\ batch'[w][e] # Null => batch[w][e] # Null
           /\ (batch[w][e] # Null /\ batch'[w][e] = Null) =>
                Troubled(e)' \/ \A f \in Events : batch'[w][f] = Null
  PROVE  OrderInv'
<1> USE DEF OrderInv
<1>1. FailedIsCounted'
  BY DEF FailedIsCounted
<1>2. TopicIsCreated'
  BY DEF TopicIsCreated, DeliveryInv, BatchIsCreated, Current
<1>3. BatchIsOrdered'
  BY DEF BatchIsOrdered
<1>4. OvertakenOnlyAfterTrouble'
  <2> SUFFICES ASSUME NEW e \in Events, NEW f \in Events, e < f, e \in before[f],
                      published'[f] > 0, ~ Troubled(e)'
               PROVE  FALSE
    BY DEF OvertakenOnlyAfterTrouble, Troubled, DeliveryInv, TypeOK
  <2>1. ~ Troubled(e)
    OBVIOUS
  <2>2. CASE published[f] > 0
    BY <2>1, <2>2 DEF OvertakenOnlyAfterTrouble, Troubled, DeliveryInv, TypeOK
  <2>3. CASE \E w \in Relays : Current(w, f)
    BY <2>1, <2>3 DEF BatchIsOrdered, Current
  <2> QED BY <2>2, <2>3
<1> QED BY <1>1, <1>2, <1>3, <1>4

\* An event in the table that never failed and is not being processed waits.
LEMMA UntroubledIsPending ==
  ASSUME OrderInv, NEW e \in created, ~ Troubled(e)
  PROVE  e \in Pending
BY DEF OrderInv, DeliveryInv, TypeOK, GoneIsPublished, SentIsPublished,
       FailedIsCounted, Troubled, HasStatus, Pending, Row, Statuses

\* A save of a relay's current entity leaves trouble on record.
LEMMA WriteTroubled ==
  ASSUME OrderInv, NEW w \in Relays, NEW e \in Events, Current(w, e),
         Write(w, e), pc[w] \in {"saveProcessing", "saveSent", "saveCaught"},
         UNCHANGED <<published, failures>>
  PROVE  /\ \A f \in Events : Troubled(f) => Troubled(f)'
         /\ \A f \in Events : HasStatus(f, "FAILED")' => failures'[f] > 0
         /\ pc[w] # "saveProcessing" => Troubled(e)'
<1> TypeOK /\ StatusFollowsPc
  BY DEF OrderInv, DeliveryInv
<1>1. batch[w][e].status \in StatusAt(pc[w])
  BY DEF StatusFollowsPc
<1>2. pc[w] = "saveSent" => published[e] > 0
  BY <1>1 DEF StatusAt, OrderInv, DeliveryInv, SentEntityIsPublished, Current
<1>3. pc[w] = "saveCaught" => failures[e] > 0
  BY DEF OrderInv, CaughtIsCounted
<1>4. \A f \in Events : f # e => row'[f] = row[f]
  BY WriteStatus
<1>5. HasStatus(e, "PROCESSING") /\ pc[w] = "saveProcessing"
        => HasStatus(e, "PROCESSING")'
  BY <1>1, WriteStatus DEF HasStatus, StatusAt
<1>6. HasStatus(e, "FAILED")' => failures[e] > 0
  BY <1>1, <1>3, WriteStatus
     DEF HasStatus, StatusAt, OrderInv, FailedIsCounted
<1> QED BY <1>2, <1>3, <1>4, <1>5, <1>6
        DEF Troubled, HasStatus, OrderInv, FailedIsCounted

\* Every step keeps the order invariant.
LEMMA OrderStep == OrderInv /\ [Next]_vars => OrderInv'
<1> SUFFICES ASSUME OrderInv, [Next]_vars PROVE OrderInv'
  OBVIOUS
<1>0. /\ TypeOK /\ TypeOK' /\ DeliveryInv /\ DeliveryInv'
      /\ StatusFollowsPc /\ StatusFollowsPc'
  BY TypeStep, DeliveryStep, StatusStep DEF OrderInv, DeliveryInv
<1>1. ASSUME NEW g \in Events, CreateOutboxEvent(g) PROVE OrderInv'
  <2>1. /\ UNCHANGED <<published, failures, pc, batch>>
        /\ g \notin created /\ created' = created \cup {g}
        /\ before'[g] = created
        /\ \A e \in Events : e # g => before'[e] = before[e]
    BY <1>0, <1>1 DEF CreateOutboxEvent, relay, history, TypeOK
  <2>2. \A e \in Events : /\ Troubled(e) => Troubled(e)'
                          /\ HasStatus(e, "FAILED")' => HasStatus(e, "FAILED")
    <3>1. row[g] = Null /\ ~ (published[g] > 0)
      BY <1>0, <2>1 DEF DeliveryInv, RowsAreCreated, OrderInv, TopicIsCreated
    <3>2. \A e \in Events : e # g => row'[e] = row[e]
      BY <1>0, <1>1 DEF CreateOutboxEvent, TypeOK
    <3>3. row'[g].status = "PENDING"
      BY <1>0, <1>1 DEF CreateOutboxEvent, NewRow, TypeOK
    <3> QED BY <2>1, <3>1, <3>2, <3>3 DEF Troubled, HasStatus
  <2>3. FailedIsCounted' /\ CaughtIsCounted' /\ TopicIsCreated'
    BY <1>0, <2>1, <2>2 DEF OrderInv, FailedIsCounted, CaughtIsCounted,
                            TopicIsCreated, Current, TypeOK
  <2>4. BatchIsOrdered'
    BY <1>0, <2>1, <2>2 DEF OrderInv, BatchIsOrdered, DeliveryInv, BatchIsCreated
  <2>5. OvertakenOnlyAfterTrouble'
    BY <1>0, <2>1, <2>2 DEF OrderInv, OvertakenOnlyAfterTrouble, TopicIsCreated,
                            Troubled
  <2> QED BY <1>0, <2>3, <2>4, <2>5 DEF OrderInv
<1>2. ASSUME NEW w \in Relays, FindPending(w) PROVE OrderInv'
  <2>1. UNCHANGED <<row, created, before, published, failures>> /\ pc'[w] = "processEvent"
    BY <1>0, <1>2 DEF FindPending, table, history, TypeOK
  <2>2. \A e \in Events : Troubled(e)' <=> Troubled(e)
    BY <2>1 DEF Troubled, HasStatus
  <2>3. OnlyRelay(w)
    BY <1>0, <1>2, RelayFrame DEF RelayStep
  <2>4. FailedIsCounted' /\ TopicIsCreated' /\ OvertakenOnlyAfterTrouble'
    BY <2>1 DEF OrderInv, FailedIsCounted, TopicIsCreated,
                OvertakenOnlyAfterTrouble, HasStatus
  <2>5. CaughtIsCounted'
    BY <2>1, <2>3 DEF OrderInv, CaughtIsCounted, Current, OnlyRelay
  <2>6. ASSUME NEW e \in Events, NEW f \in Events, e < f, e \in before[f],
               batch'[w][f] # Null, ~ Troubled(e)
        PROVE  batch'[w][e] # Null
    <3>1. batch'[w] = [h \in Events |-> IF h \in OldestPending THEN row[h] ELSE Null]
      BY <1>0, <1>2 DEF FindPending, TypeOK
    <3>2. f \in OldestPending
      BY <2>6, <3>1
    <3>3. e \in Pending
      BY <2>6, UntroubledIsPending DEF OrderInv, TopicIsCreated
    <3>4. e \in OldestPending
      BY <2>6, <3>2, <3>3, OldestIsClosed
    <3> QED BY <3>1, <3>3, <3>4 DEF Pending, HasStatus
  <2>7. BatchIsOrdered'
    BY <2>1, <2>2, <2>3, <2>6 DEF OrderInv, BatchIsOrdered, OnlyRelay
  <2> QED BY <1>0, <2>4, <2>5, <2>7 DEF OrderInv
<1>3. ASSUME NEW w \in Relays, RelayStep(w) \/ RelayFault(w), ~ FindPending(w)
      PROVE  OrderInv'
  <2>0. OnlyRelay(w) /\ UNCHANGED <<created, before>>
    BY <1>0, <1>3, RelayFrame
       DEF RelayStep, RelayFault, SelectProcessing, SaveProcessing, Emit,
           SelectSent, SaveSent, SaveConflicts, SelectCaught, SaveCaught,
           CaughtSaveConflicts, SaveFails, EmitFails, CaughtSaveFails, Crash,
           table
  <2> DEFINE Pub == \A e \in Events : published'[e] > 0 =>
                      published[e] > 0 \/ \E v \in Relays : Current(v, e)
             Grow == \A e \in Events : /\ published[e] > 0 => published'[e] > 0
                                       /\ failures[e] > 0 => failures'[e] > 0
  <2>1. CASE SelectProcessing(w) \/ Emit(w)
    <3>1. UNCHANGED <<row, failures>> /\ pc'[w] \notin {"catch", "saveCaught"}
      BY <1>0, <2>1 DEF SelectProcessing, Emit, Select, table, history, TypeOK
    <3>2. Pub /\ Grow
      <4>1. CASE SelectProcessing(w)
        BY <4>1 DEF SelectProcessing, history
      <4>2. CASE Emit(w)
        <5> PICK e \in Events :
              Current(w, e) /\ published' = [published EXCEPT ![e] = @ + 1]
          BY <4>2 DEF Emit
        <5> QED BY <1>0, <4>2 DEF Emit, history, TypeOK
      <4> QED BY <2>1, <4>1, <4>2
    <3>3. \A v \in Relays, e \in Events : batch'[v][e] = Null <=> batch[v][e] = Null
      BY <1>0, <2>1, EntityKept
    <3>4. CaughtIsCounted'
      BY <2>0, <3>1 DEF OrderInv, CaughtIsCounted, Current, OnlyRelay
    <3>5. \A e \in Events : /\ Troubled(e) => Troubled(e)'
                            /\ HasStatus(e, "FAILED")' => failures'[e] > 0
      BY <3>1, <3>2 DEF Troubled, HasStatus, OrderInv, FailedIsCounted
    <3> QED BY <1>0, <2>0, <3>2, <3>3, <3>4, <3>5, OrderFrame
  <2>2. CASE SaveFails(w) \/ EmitFails(w) \/ SaveConflicts(w)
    <3> PICK e \in Events : Current(w, e) /\ Catch(w, e)
      BY <2>2 DEF SaveFails, EmitFails, SaveConflicts
    <3>1. UNCHANGED row /\ failures'[e] > 0
      BY <1>0, <2>2 DEF SaveFails, EmitFails, SaveConflicts, Catch, table, TypeOK
    <3>2. Pub
      BY <1>0, <2>2 DEF SaveFails, EmitFails, SaveConflicts, TypeOK
    <3>3. Grow
      <4>1. \A f \in Events : failures[f] > 0 => failures'[f] > 0
        BY <1>0 DEF Catch, TypeOK
      <4>2. \A f \in Events : published[f] > 0 => published'[f] > 0
        BY <1>0, <2>2 DEF SaveFails, EmitFails, SaveConflicts, TypeOK
      <4> QED BY <4>1, <4>2
    <3>4. \A v \in Relays, f \in Events : batch'[v][f] = Null <=> batch[v][f] = Null
      BY <1>0, <2>2, EntityKept
    <3>5. \A f \in Events : Current(w, f)' => f = e
      BY <3>4, CurrentUnique DEF Current
    <3>6. CaughtIsCounted'
      BY <2>0, <3>1, <3>3, <3>5 DEF OrderInv, CaughtIsCounted, Current, OnlyRelay
    <3>7. \A f \in Events : /\ Troubled(f) => Troubled(f)'
                            /\ HasStatus(f, "FAILED")' => failures'[f] > 0
      BY <3>1, <3>3 DEF Troubled, HasStatus, OrderInv, FailedIsCounted
    <3> QED BY <1>0, <2>0, <3>2, <3>4, <3>6, <3>7, OrderFrame
  <2>3. CASE SelectSent(w) \/ SelectCaught(w)
    <3>1. /\ UNCHANGED <<row, published, failures, batch>>
          /\ \/ pc'[w] = "saveSent"
             \/ pc'[w] = "saveCaught" /\ pc[w] = "catch"
      BY <1>0, <2>3 DEF SelectSent, SelectCaught, Select, table, history, TypeOK
    <3>2. CaughtIsCounted'
      BY <2>0, <3>1 DEF OrderInv, CaughtIsCounted, Current, OnlyRelay
    <3> QED BY <1>0, <2>0, <3>1, <3>2, OrderFrame
            DEF Troubled, HasStatus, OrderInv, FailedIsCounted
  <2>4. CASE SaveProcessing(w)
    <3> PICK e \in Events : Current(w, e) /\ Write(w, e)
      BY <2>4 DEF SaveProcessing
    <3>1. UNCHANGED <<published, failures, batch>> /\ pc'[w] = "emit"
      BY <1>0, <2>4 DEF SaveProcessing, history, TypeOK
    <3>2. \A f \in Events : /\ Troubled(f) => Troubled(f)'
                            /\ HasStatus(f, "FAILED")' => failures'[f] > 0
      BY <2>4, <3>1, WriteTroubled DEF SaveProcessing
    <3>3. CaughtIsCounted'
      BY <2>0, <3>1 DEF OrderInv, CaughtIsCounted, Current, OnlyRelay
    <3> QED BY <1>0, <2>0, <3>1, <3>2, <3>3, OrderFrame
  <2>5. CASE SaveSent(w) \/ SaveCaught(w)
    <3> PICK e \in Events : Current(w, e) /\ Write(w, e) /\ Advance(w, e)
      BY <2>5 DEF SaveSent, SaveCaught
    <3>1. UNCHANGED <<published, failures>> /\ pc'[w] \in {"idle", "processEvent"}
      BY <1>0, <2>5 DEF SaveSent, SaveCaught, Advance, history, TypeOK
    <3>2. /\ \A f \in Events : /\ Troubled(f) => Troubled(f)'
                               /\ HasStatus(f, "FAILED")' => failures'[f] > 0
          /\ Troubled(e)'
      BY <2>5, <3>1, WriteTroubled DEF SaveSent, SaveCaught
    <3>3. CaughtIsCounted'
      BY <2>0, <3>1 DEF OrderInv, CaughtIsCounted, Current, OnlyRelay
    <3>4. \A v \in Relays, f \in Events :
            /\ batch'[v][f] # Null => batch[v][f] # Null
            /\ batch[v][f] # Null /\ batch'[v][f] = Null => f = e
      BY <1>0, AdvanceShrinks DEF BatchShrinks
    <3> QED BY <1>0, <2>0, <3>1, <3>2, <3>3, <3>4, OrderFrame
  <2>6. CASE CaughtSaveConflicts(w) \/ CaughtSaveFails(w) \/ Crash(w)
    <3>1. UNCHANGED <<row, published, failures>> /\ Abandon(w)
      BY <2>6 DEF CaughtSaveConflicts, CaughtSaveFails, Crash, table, history
    <3>2. pc'[w] = "idle"
      BY <1>0, <3>1 DEF Abandon, TypeOK
    <3>3. CaughtIsCounted'
      BY <2>0, <3>1, <3>2 DEF OrderInv, CaughtIsCounted, Current, OnlyRelay
    <3>4. \A v \in Relays, f \in Events :
            /\ batch'[v][f] # Null => batch[v][f] # Null
            /\ batch[v][f] # Null /\ batch'[v][f] = Null =>
                 \A g \in Events : batch'[v][g] = Null
      BY <1>0, <3>1, AbandonShrinks DEF BatchShrinks
    <3> QED BY <1>0, <2>0, <3>1, <3>3, <3>4, OrderFrame
            DEF Troubled, HasStatus, OrderInv, FailedIsCounted
  <2> QED BY <1>3, <2>1, <2>2, <2>3, <2>4, <2>5, <2>6 DEF RelayStep, RelayFault
<1>4. ASSUME UNCHANGED <<relay, created, before, published, failures>>,
             \A e \in Events :
               \A s \in {"PROCESSING", "FAILED"} :
                 /\ HasStatus(e, s)' => HasStatus(e, s)
                 /\ HasStatus(e, "PROCESSING") => HasStatus(e, "PROCESSING")'
      PROVE  OrderInv'
  <2>1. CaughtIsCounted'
    BY <1>4 DEF OrderInv, CaughtIsCounted, Current, relay
  <2>2. \A e \in Events : /\ Troubled(e) => Troubled(e)'
                          /\ HasStatus(e, "FAILED")' => failures'[e] > 0
    BY <1>4 DEF Troubled, OrderInv, FailedIsCounted
  <2> QED BY <1>0, <1>4, <2>1, <2>2, OrderFrame DEF relay
<1>5. CASE RetryFailedEvents
  <2>1. ASSUME NEW r \in Row
        PROVE  [r EXCEPT !.status = "PENDING", !.retryCount = 0].status = "PENDING"
    BY DEF Row
  <2> QED BY <1>0, <1>4, <1>5, <2>1
          DEF RetryFailedEvents, HasStatus, TypeOK, history
<1>6. CASE CleanupOldEvents
  BY <1>0, <1>4, <1>6 DEF CleanupOldEvents, HasStatus, TypeOK, history
<1>7. CASE NextDay \/ UNCHANGED vars
  BY <1>4, <1>7 DEF NextDay, vars, HasStatus, table, relay, history
<1> QED BY <1>1, <1>2, <1>3, <1>5, <1>6, <1>7 DEF Next

\* Kafka sees a later event of the outbox without an earlier one only when an
\* attempt at the earlier one failed or is unfinished.
THEOREM Order == Spec => []OvertakenOnlyAfterTrouble
<1>1. Init => OrderInv
  BY DEF Init, OrderInv, DeliveryInv, TypeOK, RowsAreCreated, BatchIsCreated,
         SentEntityIsPublished, SentIsPublished, GoneIsPublished, HasStatus,
         StatusFollowsPc, FailedIsCounted, CaughtIsCounted, TopicIsCreated,
         BatchIsOrdered, OvertakenOnlyAfterTrouble, Current
<1>2. OrderInv => OvertakenOnlyAfterTrouble
  BY DEF OrderInv
<1> QED BY <1>1, <1>2, OrderStep, PTL DEF Spec
=============================================================================
