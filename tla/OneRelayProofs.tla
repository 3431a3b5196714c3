---------------------------- MODULE OneRelayProofs ----------------------------
(* What holds of Outbox when executions of processPendingEvents do not     *)
(* overlap: proofs for every number of events, every limit and batch size, *)
(* and any number of faults and crashes.                                   *)
EXTENDS OutboxProofs

\* There is at most one relay.
OneAtATime == \A v, w \in Relays : v = w

-----------------------------------------------------------------------------
(* The inductive invariant: the entities of the batch are the rows.        *)

\* The entity is still as it was found, and so is its row.
Untouched(w, e) == batch[w][e] = row[e] /\ HasStatus(e, "PENDING")

\* What the relay knows of the row of its current entity.
Matches(w, e) ==
  /\ pc[w] # "idle"
  /\ pc[w] = "processEvent" => Untouched(w, e)
  /\ pc[w] = "saveProcessing" => HasStatus(e, "PENDING")
  /\ pc[w] \in {"emit", "sent", "saveSent"} => HasStatus(e, "PROCESSING")
  /\ pc[w] \in {"catch", "saveCaught"} =>
       HasStatus(e, "PENDING") \/ HasStatus(e, "PROCESSING")
  /\ pc[w] \in {"saveProcessing", "emit", "sent", "saveSent"} =>
       batch[w][e].retryCount = row[e].retryCount
  /\ pc[w] \in {"saveProcessing", "saveSent", "saveCaught"} => loaded[w] = row[e]

EntitiesMatchRows ==
  \A w \in Relays, e \in Events :
    batch[w][e] # Null =>
      IF Current(w, e) THEN Matches(w, e) ELSE Untouched(w, e)

\* FAILED means that the attempts are used up, PENDING and PROCESSING that
\* they are not.
RowInLimit(e) ==
  /\ HasStatus(e, "PENDING") \/ HasStatus(e, "PROCESSING") =>
       row[e].retryCount < MaxRetries
  /\ HasStatus(e, "FAILED") => row[e].retryCount = MaxRetries

CaughtInLimit(w, e) ==
  Current(w, e) /\ pc[w] \in {"catch", "saveCaught"} =>
    IF batch[w][e].status = "FAILED"
    THEN batch[w][e].retryCount = MaxRetries
    ELSE batch[w][e].retryCount < MaxRetries

RetriesInLimit ==
  /\ \A e \in Events : RowInLimit(e)
  /\ \A w \in Relays, e \in Events : CaughtInLimit(w, e)

SingleInv ==
  DeliveryInv /\ StatusFollowsPc /\ EntitiesMatchRows /\ RetriesInLimit

-----------------------------------------------------------------------------
(* Lemmas.                                                                 *)

\* A save whose SELECT returned the row as it is replaces the row.
LEMMA MergeFresh ==
  ASSUME NEW r \in Row, NEW n \in Row
  PROVE  Merge(r, r, n) = n
<1>1. Merge(r, r, n) = [status      |-> n.status,
                        retryCount  |-> n.retryCount,
                        processedAt |-> n.processedAt]
  BY NullAssumption DEF Merge, Row
<1> QED BY <1>1 DEF Row

LEMMA WriteFresh ==
  ASSUME TypeOK, NEW w \in Relays, NEW e \in Events, Current(w, e), Write(w, e),
         row[e] # Null, loaded[w] = row[e]
  PROVE  row'[e] = batch[w][e] /\ \A f \in Events : f # e => row'[f] = row[f]
<1>1. row[e] \in Row /\ batch[w][e] \in Row
  BY DEF TypeOK, Current
<1> QED BY <1>1, MergeFresh DEF Write, TypeOK

\* A step that concerns the relay's current entity only: it keeps matching its
\* row, or the relay goes on with the others, which are untouched.
LEMMA MatchFrame ==
  ASSUME OneAtATime, EntitiesMatchRows, NEW w \in Relays, NEW e \in Events,
         Current(w, e),
         \A f \in Events : f # e => row'[f] = row[f] /\ batch'[w][f] = batch[w][f],
         \/ Current(w, e)' /\ Matches(w, e)'
         \/ /\ batch'[w][e] = Null
            /\ pc'[w] = "processEvent" \/ \A f \in Events : batch'[w][f] = Null
  PROVE  EntitiesMatchRows'
<1> SUFFICES ASSUME NEW f \in Events, batch'[w][f] # Null
             PROVE  IF Current(w, f)' THEN Matches(w, f)' ELSE Untouched(w, f)'
  BY DEF OneAtATime, EntitiesMatchRows
<1>1. CASE f = e
  BY <1>1 DEF Current
<1>2. CASE f # e
  <2>1. Untouched(w, f)
    BY <1>2, CurrentUnique DEF EntitiesMatchRows
  <2>2. Untouched(w, f)'
    BY <1>2, <2>1 DEF Untouched, HasStatus
  <2>3. CASE Current(w, f)'
    <3>1. ~ Current(w, e)'
      BY <1>2, <2>3, SizesAssumption DEF Current, Events
    <3> QED BY <2>2, <2>3, <3>1 DEF Matches
  <2> QED BY <2>2, <2>3
<1> QED BY <1>1, <1>2

\* The relay's batch is gone.
LEMMA NothingToMatch ==
  ASSUME OneAtATime, NEW w \in Relays, \A e \in Events : batch'[w][e] = Null
  PROVE  EntitiesMatchRows' /\ \A v \in Relays, e \in Events : ~ Current(v, e)'
BY DEF OneAtATime, EntitiesMatchRows, Current

\* The rows of a batch are PENDING, or PROCESSING.
LEMMA BatchIsOpen ==
  ASSUME TypeOK, EntitiesMatchRows, NEW w \in Relays, NEW e \in Events,
         batch[w][e] # Null
  PROVE  HasStatus(e, "PENDING") \/ HasStatus(e, "PROCESSING")
BY DEF TypeOK, EntitiesMatchRows, Matches, Untouched

\* A step on the table alone that leaves the rows of the batch as they are.
LEMMA TableFrame ==
  ASSUME EntitiesMatchRows, UNCHANGED relay,
         \A w \in Relays, e \in Events : batch[w][e] # Null => row'[e] = row[e]
  PROVE  EntitiesMatchRows'
<1> SUFFICES ASSUME NEW w \in Relays, NEW e \in Events, batch[w][e] # Null
             PROVE  IF Current(w, e)' THEN Matches(w, e)' ELSE Untouched(w, e)'
  BY DEF EntitiesMatchRows, relay
<1>1. row'[e] = row[e] /\ UNCHANGED <<pc, batch, loaded>>
  BY DEF relay
<1> QED BY <1>1 DEF EntitiesMatchRows, Matches, Untouched, HasStatus, Current

\* A failed attempt has used one of the attempts left.
LEMMA CaughtLimit ==
  ASSUME NEW n \in Row, n.retryCount < MaxRetries
  PROVE  /\ Caught(n).status = "FAILED" => Caught(n).retryCount = MaxRetries
         /\ Caught(n).status # "FAILED" => Caught(n).retryCount < MaxRetries
<1>1. Caught(n).retryCount = n.retryCount + 1
  BY DEF Caught, Row
<1>2. Caught(n).status = IF n.retryCount + 1 >= MaxRetries
                         THEN "FAILED" ELSE "PENDING"
  BY DEF Caught, Row
<1>3. n.retryCount \in Nat
  BY DEF Row
<1> QED BY <1>1, <1>2, <1>3, SizesAssumption

-----------------------------------------------------------------------------
(* The entities keep matching the rows.                                    *)

LEMMA MatchStep ==
  ASSUME OneAtATime, SingleInv, [Next]_vars
  PROVE  EntitiesMatchRows'
<1>0. /\ TypeOK /\ TypeOK' /\ StatusFollowsPc /\ EntitiesMatchRows
      /\ RowsAreCreated /\ BatchIsCreated
  BY TypeStep DEF SingleInv, DeliveryInv
<1>1. ASSUME NEW e \in Events, CreateOutboxEvent(e) PROVE EntitiesMatchRows'
  <2>1. \A w \in Relays : batch[w][e] = Null
    BY <1>0, <1>1 DEF BatchIsCreated, CreateOutboxEvent
  <2>2. UNCHANGED relay /\ \A f \in Events : f # e => row'[f] = row[f]
    BY <1>0, <1>1 DEF CreateOutboxEvent, TypeOK
  <2> QED BY <1>0, <2>1, <2>2, TableFrame
<1>2. ASSUME NEW w \in Relays, FindPending(w) PROVE EntitiesMatchRows'
  <2>1. /\ pc'[w] = "processEvent" /\ row' = row
        /\ \A e \in Events :
             batch'[w][e] = IF e \in OldestPending THEN row[e] ELSE Null
    BY <1>0, <1>2 DEF FindPending, table, TypeOK
  <2>2. \A e \in Events : batch'[w][e] # Null => Untouched(w, e)'
    BY <2>1 DEF OldestPending, Pending, Untouched, HasStatus
  <2> QED BY <2>1, <2>2 DEF EntitiesMatchRows, Matches, OneAtATime
<1>3. ASSUME NEW w \in Relays, SelectProcessing(w) PROVE EntitiesMatchRows'
  <2> DEFINE Marked(n) == [n EXCEPT !.status = "PROCESSING"]
  <2> PICK e \in Events : /\ Current(w, e)
                          /\ SetEntity(w, e, Marked(batch[w][e]))
                          /\ Select(w, e, "saveProcessing")
    BY <1>3 DEF SelectProcessing
  <2>1. batch[w][e] \in Row /\ Untouched(w, e)
    BY <1>0, <1>3 DEF TypeOK, Current, EntitiesMatchRows, Matches, SelectProcessing
  <2>2. /\ Marked(batch[w][e]) \in Row
        /\ Marked(batch[w][e]).retryCount = batch[w][e].retryCount
    BY <2>1 DEF Row, Statuses
  <2>3. Current(w, e)' /\ batch'[w][e].retryCount = batch[w][e].retryCount
        /\ \A f \in Events : f # e => batch'[w][f] = batch[w][f]
    <3> HIDE DEF Marked
    <3> QED BY <1>0, <2>2, CurrentKept, SetEntityEffect
  <2>4. pc'[w] = "saveProcessing" /\ loaded'[w] = row[e] /\ row' = row
    BY <1>0, <1>3 DEF Select, SelectProcessing, table, TypeOK
  <2>5. Matches(w, e)'
    BY <2>1, <2>3, <2>4 DEF Matches, Untouched, HasStatus
  <2> QED BY <1>0, <2>3, <2>4, <2>5, MatchFrame
<1>4. ASSUME NEW w \in Relays, SaveProcessing(w) PROVE EntitiesMatchRows'
  <2> PICK e \in Events : Current(w, e) /\ Write(w, e)
    BY <1>4 DEF SaveProcessing
  <2>1. Matches(w, e) /\ pc[w] = "saveProcessing"
    BY <1>0, <1>4 DEF Current, EntitiesMatchRows, SaveProcessing
  <2>2. row'[e] = batch[w][e] /\ \A f \in Events : f # e => row'[f] = row[f]
    BY <1>0, <2>1, WriteFresh DEF Matches, HasStatus
  <2>3. pc'[w] = "emit" /\ batch' = batch
    BY <1>0, <1>4 DEF SaveProcessing, TypeOK
  <2>4. batch[w][e].status = "PROCESSING" /\ batch[w][e] # Null
    BY <1>0, <2>1 DEF StatusFollowsPc, StatusAt, Current
  <2>5. Matches(w, e)' /\ Current(w, e)'
    BY <2>2, <2>3, <2>4 DEF Matches, HasStatus, Current
  <2> QED BY <1>0, <2>2, <2>3, <2>5, MatchFrame
<1>5. ASSUME NEW w \in Relays, Emit(w) PROVE EntitiesMatchRows'
  <2> DEFINE Sent(n) == [n EXCEPT !.status = "SENT", !.processedAt = today]
  <2> PICK e \in Events : Current(w, e) /\ SetEntity(w, e, Sent(batch[w][e]))
    BY <1>5 DEF Emit
  <2>1. batch[w][e] \in Row /\ today \in Nat /\ Matches(w, e) /\ pc[w] = "emit"
    BY <1>0, <1>5 DEF TypeOK, Current, EntitiesMatchRows, Emit
  <2>2. /\ Sent(batch[w][e]) \in Row
        /\ Sent(batch[w][e]).retryCount = batch[w][e].retryCount
    BY <2>1 DEF Row, Statuses
  <2>3. Current(w, e)' /\ batch'[w][e].retryCount = batch[w][e].retryCount
        /\ \A f \in Events : f # e => batch'[w][f] = batch[w][f]
    <3> HIDE DEF Sent
    <3> QED BY <1>0, <2>2, CurrentKept, SetEntityEffect
  <2>4. pc'[w] = "sent" /\ row' = row
    BY <1>0, <1>5 DEF Emit, table, TypeOK
  <2>5. Matches(w, e)'
    BY <2>1, <2>3, <2>4 DEF Matches, HasStatus
  <2> QED BY <1>0, <2>3, <2>4, <2>5, MatchFrame
<1>6. ASSUME NEW w \in Relays, SelectSent(w) \/ SelectCaught(w)
      PROVE  EntitiesMatchRows'
  <2> PICK e \in Events :
        /\ Current(w, e)
        /\ \/ pc[w] = "sent" /\ Select(w, e, "saveSent")
           \/ pc[w] = "catch" /\ Select(w, e, "saveCaught")
    BY <1>6 DEF SelectSent, SelectCaught
  <2>1. Matches(w, e)
    BY <1>0 DEF Current, EntitiesMatchRows
  <2>2. /\ loaded'[w] = row[e] /\ UNCHANGED <<row, batch>>
        /\ \/ pc[w] = "sent" /\ pc'[w] = "saveSent"
           \/ pc[w] = "catch" /\ pc'[w] = "saveCaught"
    BY <1>0, <1>6 DEF SelectSent, SelectCaught, Select, table, TypeOK
  <2>3. Matches(w, e)' /\ Current(w, e)'
    BY <2>1, <2>2 DEF Matches, HasStatus, Current
  <2> QED BY <1>0, <2>2, <2>3, MatchFrame
<1>7. ASSUME NEW w \in Relays, SaveSent(w) \/ SaveCaught(w)
      PROVE  EntitiesMatchRows'
  <2> PICK e \in Events : Current(w, e) /\ Write(w, e) /\ Advance(w, e)
    BY <1>7 DEF SaveSent, SaveCaught
  <2>1. Matches(w, e) /\ pc[w] \in {"saveSent", "saveCaught"}
    BY <1>0, <1>7 DEF Current, EntitiesMatchRows, SaveSent, SaveCaught
  <2>2. \A f \in Events : f # e => row'[f] = row[f]
    BY <1>0 DEF Write, TypeOK
  <2>3. batch'[w][e] = Null /\ \A f \in Events : f # e => batch'[w][f] = batch[w][f]
    BY <1>0 DEF Advance, TypeOK
  <2>4. pc'[w] = "processEvent" \/ \A f \in Events : batch'[w][f] = Null
    BY <1>0, <2>3 DEF Advance, TypeOK
  <2> QED BY <1>0, <2>2, <2>3, <2>4, MatchFrame
<1>8. ASSUME NEW w \in Relays, SaveFails(w) \/ EmitFails(w) \/ SaveConflicts(w)
      PROVE  EntitiesMatchRows'
  <2> PICK e \in Events : Current(w, e) /\ Catch(w, e)
    BY <1>8 DEF SaveFails, EmitFails, SaveConflicts
  <2>1. /\ Matches(w, e) /\ batch[w][e] \in Row
        /\ pc[w] \in {"processEvent", "saveProcessing", "emit", "sent", "saveSent"}
    BY <1>0, <1>8 DEF TypeOK, Current, EntitiesMatchRows, SaveFails, EmitFails,
                      SaveConflicts
  <2>2. HasStatus(e, "PENDING") \/ HasStatus(e, "PROCESSING")
    BY <2>1 DEF Matches, Untouched
  <2>3. Current(w, e)' /\ \A f \in Events : f # e => batch'[w][f] = batch[w][f]
    BY <1>0, <2>1, CaughtType, CurrentKept, SetEntityEffect DEF Catch
  <2>4. pc'[w] = "catch" /\ row' = row
    BY <1>0, <1>8 DEF Catch, SaveFails, EmitFails, SaveConflicts, table, TypeOK
  <2>5. Matches(w, e)'
    BY <2>2, <2>4 DEF Matches, HasStatus
  <2> QED BY <1>0, <2>3, <2>4, <2>5, MatchFrame
<1>9. ASSUME NEW w \in Relays,
             CaughtSaveConflicts(w) \/ CaughtSaveFails(w) \/ Crash(w)
      PROVE  EntitiesMatchRows'
  <2>1. Abandon(w)
    BY <1>9 DEF CaughtSaveConflicts, CaughtSaveFails, Crash
  <2> QED BY <1>0, <2>1, AbandonShrinks, NothingToMatch
<1>10. CASE RetryFailedEvents \/ CleanupOldEvents
  <2>1. \A w \in Relays, e \in Events : batch[w][e] # Null => row'[e] = row[e]
    BY <1>0, <1>10, BatchIsOpen
       DEF RetryFailedEvents, CleanupOldEvents, HasStatus, TypeOK
  <2>2. UNCHANGED relay
    BY <1>10 DEF RetryFailedEvents, CleanupOldEvents
  <2> QED BY <1>0, <2>1, <2>2, TableFrame
<1>11. CASE NextDay \/ UNCHANGED vars
  BY <1>0, <1>11, TableFrame DEF NextDay, vars, relay, table
<1> QED BY <1>1, <1>2, <1>3, <1>4, <1>5, <1>6, <1>7, <1>8, <1>9, <1>10, <1>11
        DEF Next, RelayStep, RelayFault

-----------------------------------------------------------------------------
(* The attempts stay within the limit.                                     *)

LEMMA LimitStep ==
  ASSUME OneAtATime, SingleInv, [Next]_vars
  PROVE  RetriesInLimit'
<1>0. /\ TypeOK /\ TypeOK' /\ StatusFollowsPc /\ EntitiesMatchRows
      /\ RetriesInLimit
  BY TypeStep DEF SingleInv, DeliveryInv
<1>1. ASSUME NEW w \in Relays,
             \A e \in Events : RowInLimit(e)' /\ CaughtInLimit(w, e)'
      PROVE  RetriesInLimit'
  BY <1>1 DEF OneAtATime, RetriesInLimit
<1>2. ASSUME NEW e \in Events, CreateOutboxEvent(e) PROVE RetriesInLimit'
  <2>1. row'[e] = NewRow /\ \A f \in Events : f # e => row'[f] = row[f]
    BY <1>0, <1>2 DEF CreateOutboxEvent, TypeOK
  <2>2. \A f \in Events : RowInLimit(f)'
    BY <1>0, <2>1, SizesAssumption
       DEF NewRow, RowInLimit, HasStatus, RetriesInLimit
  <2>3. UNCHANGED <<pc, batch>>
    BY <1>2 DEF CreateOutboxEvent, relay
  <2> QED BY <1>0, <2>2, <2>3 DEF RetriesInLimit, CaughtInLimit, Current
<1>3. ASSUME NEW w \in Relays,
             \/ FindPending(w) \/ SelectProcessing(w) \/ Emit(w) \/ SelectSent(w)
             \/ CaughtSaveConflicts(w) \/ CaughtSaveFails(w) \/ Crash(w)
      PROVE  RetriesInLimit'
  <2>1. row' = row /\ pc'[w] \notin {"catch", "saveCaught"}
    BY <1>0, <1>3 DEF FindPending, SelectProcessing, Emit, SelectSent, Select,
         CaughtSaveConflicts, CaughtSaveFails, Crash, Abandon, table, TypeOK
  <2>2. \A e \in Events : RowInLimit(e)' /\ CaughtInLimit(w, e)'
    BY <1>0, <2>1 DEF RetriesInLimit, RowInLimit, HasStatus, CaughtInLimit
  <2> QED BY <1>1, <2>2
<1>4. ASSUME NEW w \in Relays, SelectCaught(w) PROVE RetriesInLimit'
  <2>1. UNCHANGED <<row, batch>> /\ pc[w] = "catch"
    BY <1>4 DEF SelectCaught, table
  <2>2. \A e \in Events : RowInLimit(e)' /\ CaughtInLimit(w, e)'
    BY <1>0, <2>1 DEF RetriesInLimit, RowInLimit, HasStatus, CaughtInLimit, Current
  <2> QED BY <1>1, <2>2
<1>5. ASSUME NEW w \in Relays, SaveProcessing(w) \/ SaveSent(w) \/ SaveCaught(w)
      PROVE  RetriesInLimit'
  <2> PICK e \in Events : Current(w, e) /\ Write(w, e)
    BY <1>5 DEF SaveProcessing, SaveSent, SaveCaught
  <2>1. Matches(w, e) /\ batch[w][e].status \in StatusAt(pc[w])
    BY <1>0 DEF Current, EntitiesMatchRows, StatusFollowsPc
  <2>2. pc[w] \in {"saveProcessing", "saveSent", "saveCaught"}
    BY <1>5 DEF SaveProcessing, SaveSent, SaveCaught
  <2>3. row'[e] = batch[w][e] /\ \A f \in Events : f # e => row'[f] = row[f]
    BY <1>0, <2>1, <2>2, WriteFresh DEF Matches, HasStatus
  <2>4. RowInLimit(e)'
    <3>1. CASE pc[w] = "saveProcessing"
      BY <1>0, <2>1, <2>3, <3>1
         DEF Matches, StatusAt, RowInLimit, HasStatus, RetriesInLimit
    <3>2. CASE pc[w] = "saveSent"
      BY <2>1, <2>3, <3>2 DEF StatusAt, RowInLimit, HasStatus
    <3>3. CASE pc[w] = "saveCaught"
      BY <1>0, <2>1, <2>3, <3>3
         DEF StatusAt, RowInLimit, HasStatus, RetriesInLimit, CaughtInLimit
    <3> QED BY <2>2, <3>1, <3>2, <3>3
  <2>5. \A f \in Events : RowInLimit(f)'
    BY <1>0, <2>3, <2>4 DEF RetriesInLimit, RowInLimit, HasStatus
  <2>6. pc'[w] \notin {"catch", "saveCaught"}
    BY <1>0, <1>5 DEF SaveProcessing, SaveSent, SaveCaught, Advance, TypeOK
  <2> QED BY <1>1, <2>5, <2>6 DEF CaughtInLimit
<1>6. ASSUME NEW w \in Relays, SaveFails(w) \/ EmitFails(w) \/ SaveConflicts(w)
      PROVE  RetriesInLimit'
  <2> PICK e \in Events : Current(w, e) /\ Catch(w, e)
    BY <1>6 DEF SaveFails, EmitFails, SaveConflicts
  <2>1. /\ Matches(w, e) /\ batch[w][e] \in Row
        /\ pc[w] \in {"processEvent", "saveProcessing", "emit", "sent", "saveSent"}
    BY <1>0, <1>6 DEF TypeOK, Current, EntitiesMatchRows, SaveFails, EmitFails,
                      SaveConflicts
  <2>2. batch[w][e].retryCount < MaxRetries
    BY <1>0, <2>1 DEF Matches, Untouched, RetriesInLimit, RowInLimit
  <2>3. batch'[w][e] = Caught(batch[w][e])
    BY <1>0, SetEntityEffect DEF Catch
  <2>4. \A f \in Events : Current(w, f)' => f = e
    BY <1>0, <2>1, CaughtType, CurrentKept DEF Catch
  <2>5. \A f \in Events : CaughtInLimit(w, f)'
    BY <2>1, <2>2, <2>3, <2>4, CaughtLimit DEF CaughtInLimit
  <2>6. row' = row
    BY <1>6 DEF SaveFails, EmitFails, SaveConflicts, table
  <2>7. \A f \in Events : RowInLimit(f)'
    BY <1>0, <2>6 DEF RetriesInLimit, RowInLimit, HasStatus
  <2> QED BY <1>1, <2>5, <2>7
<1>7. CASE RetryFailedEvents
  <2>1. ASSUME NEW r \in Row
        PROVE  /\ [r EXCEPT !.status = "PENDING", !.retryCount = 0].status
                    = "PENDING"
               /\ [r EXCEPT !.status = "PENDING", !.retryCount = 0].retryCount = 0
    BY DEF Row
  <2>2. \A e \in Events : \/ row'[e] = row[e]
                          \/ row'[e].status = "PENDING" /\ row'[e].retryCount = 0
    BY <1>0, <1>7, <2>1 DEF RetryFailedEvents, HasStatus, TypeOK
  <2>3. \A e \in Events : RowInLimit(e)'
    BY <1>0, <2>2, SizesAssumption DEF RetriesInLimit, RowInLimit, HasStatus
  <2>4. UNCHANGED <<pc, batch>>
    BY <1>7 DEF RetryFailedEvents, relay
  <2> QED BY <1>0, <2>3, <2>4 DEF RetriesInLimit, CaughtInLimit, Current
<1>8. CASE CleanupOldEvents
  <2>1. \A e \in Events : row'[e] \in {row[e], Null}
    BY <1>0, <1>8 DEF CleanupOldEvents, TypeOK
  <2>2. UNCHANGED <<pc, batch>>
    BY <1>8 DEF CleanupOldEvents, relay
  <2> QED BY <1>0, <2>1, <2>2
          DEF RetriesInLimit, RowInLimit, HasStatus, CaughtInLimit, Current
<1>9. CASE NextDay \/ UNCHANGED vars
  <2>1. UNCHANGED <<row, pc, batch>>
    BY <1>9 DEF NextDay, vars, relay, table
  <2> QED BY <1>0, <2>1
          DEF RetriesInLimit, RowInLimit, HasStatus, CaughtInLimit, Current
<1> QED BY <1>2, <1>3, <1>4, <1>5, <1>6, <1>7, <1>8, <1>9
        DEF Next, RelayStep, RelayFault

LEMMA SingleStep ==
  ASSUME OneAtATime, SingleInv, [Next]_vars
  PROVE  SingleInv'
<1>1. DeliveryInv' /\ TypeOK /\ TypeOK' /\ StatusFollowsPc
  BY DeliveryStep, TypeStep DEF SingleInv, DeliveryInv
<1> QED BY <1>1, StatusStep, MatchStep, LimitStep DEF SingleInv

LEMMA SingleInit == Init => SingleInv
BY DEF Init, SingleInv, DeliveryInv, TypeOK, RowsAreCreated, BatchIsCreated,
       SentEntityIsPublished, SentIsPublished, GoneIsPublished, HasStatus,
       StatusFollowsPc, EntitiesMatchRows, RetriesInLimit, RowInLimit,
       CaughtInLimit, Current

\* With one relay, retryFailedEvents finds every FAILED row: the equality with
\* MAX_RETRIES in its where clause (outbox.service.ts:107-117) misses none.
THEOREM FailedAreFound ==
  ASSUME OneAtATime
  PROVE  Spec => []FailedIsRetryable
<1>1. SingleInv /\ [Next]_vars => SingleInv'
  BY SingleStep
<1>2. SingleInv => FailedIsRetryable
  BY DEF SingleInv, RetriesInLimit, RowInLimit, FailedIsRetryable
<1> QED BY SingleInit, <1>1, <1>2, PTL DEF Spec

-----------------------------------------------------------------------------
(* SENT is final.                                                          *)

\* A save finds the row open, and replaces it.
LEMMA WriteOpen ==
  ASSUME SingleInv, NEW w \in Relays, NEW e \in Events, Current(w, e),
         Write(w, e), pc[w] \in {"saveProcessing", "saveSent", "saveCaught"}
  PROVE  /\ HasStatus(e, "PENDING") \/ HasStatus(e, "PROCESSING")
         /\ pc[w] = "saveProcessing" => HasStatus(e, "PENDING")
         /\ row'[e] = batch[w][e] /\ batch[w][e] # Null
         /\ batch[w][e].status \in StatusAt(pc[w])
         /\ \A f \in Events : f # e => row'[f] = row[f]
<1>1. TypeOK /\ Matches(w, e)
  BY DEF SingleInv, DeliveryInv, EntitiesMatchRows, Current
<1>2. row[e] # Null /\ loaded[w] = row[e]
  BY <1>1 DEF Matches, HasStatus
<1>3. batch[w][e] # Null /\ batch[w][e].status \in StatusAt(pc[w])
  BY DEF SingleInv, StatusFollowsPc, Current
<1> QED BY <1>1, <1>2, <1>3, WriteFresh DEF Matches

\* Only open rows are written, a new row is inserted once, and only SENT rows
\* are deleted.
LEMMA RowStep ==
  ASSUME OneAtATime, SingleInv, [Next]_vars, NEW e \in created
  PROVE  \/ row'[e] = row[e]
         \/ row[e] # Null /\ row[e].status # "SENT" /\ row'[e] # Null
         \/ HasStatus(e, "SENT") /\ row'[e] = Null
<1>0. TypeOK /\ TypeOK' /\ e \in Events
  BY TypeStep DEF SingleInv, DeliveryInv, TypeOK
<1>1. ASSUME NEW f \in Events, CreateOutboxEvent(f) PROVE row'[e] = row[e]
  BY <1>0, <1>1 DEF CreateOutboxEvent, TypeOK
<1>2. ASSUME NEW w \in Relays, SaveProcessing(w) \/ SaveSent(w) \/ SaveCaught(w)
      PROVE  \/ row'[e] = row[e]
             \/ row[e] # Null /\ row[e].status # "SENT" /\ row'[e] # Null
  <2> PICK f \in Events : Current(w, f) /\ Write(w, f)
    BY <1>2 DEF SaveProcessing, SaveSent, SaveCaught
  <2>1. pc[w] \in {"saveProcessing", "saveSent", "saveCaught"}
    BY <1>2 DEF SaveProcessing, SaveSent, SaveCaught
  <2> QED BY <1>0, <2>1, WriteOpen DEF HasStatus
<1>3. CASE RetryFailedEvents
  <2>1. row'[e] # row[e] => HasStatus(e, "FAILED")
    BY <1>0, <1>3 DEF RetryFailedEvents, TypeOK
  <2>2. HasStatus(e, "FAILED") => row'[e] # Null
    <3> DEFINE Retried(r) == [r EXCEPT !.status = "PENDING", !.retryCount = 0]
    <3>1. \A r \in Row : Retried(r) \in Row
      BY DEF Row, Statuses
    <3>2. row'[e] = row[e] \/ row'[e] = Retried(row[e])
      BY <1>0, <1>3 DEF RetryFailedEvents, TypeOK
    <3>3. row[e] # Null => row[e] \in Row
      BY <1>0 DEF TypeOK
    <3> HIDE DEF Retried
    <3> QED BY <3>1, <3>2, <3>3, NullAssumption DEF HasStatus
  <2> QED BY <2>1, <2>2 DEF HasStatus
<1>4. CASE CleanupOldEvents
  BY <1>0, <1>4 DEF CleanupOldEvents, TypeOK
<1>5. CASE row' = row
  BY <1>5
<1> QED BY <1>1, <1>2, <1>3, <1>4, <1>5
        DEF Next, RelayStep, RelayFault, FindPending, SelectProcessing, Emit,
            SelectSent, SaveConflicts, SelectCaught, CaughtSaveConflicts,
            SaveFails, EmitFails, CaughtSaveFails, Crash, NextDay, vars, table

\* With one relay a SENT row is not written again, whatever failed before and
\* however late cleanupOldEvents deletes it, and a deleted row stays deleted.
THEOREM SentStays ==
  ASSUME OneAtATime
  PROVE  Spec => SentIsFinal
<1>1. SingleInv /\ [Next]_vars => SingleInv'
  BY SingleStep
<1>2. SingleInv /\ [Next]_vars =>
        [\A e \in created :
           /\ HasStatus(e, "SENT") => row'[e] \in {row[e], Null}
           /\ row[e] = Null => row'[e] = Null]_vars
  BY RowStep DEF HasStatus
<1> QED BY SingleInit, <1>1, <1>2, PTL DEF Spec, SentIsFinal

-----------------------------------------------------------------------------
(* Duplicates.                                                             *)

\* Before an attempt reaches the emit, and after it has failed, the event was
\* published at most as often as attempts failed.
AttemptIsCounted(e) ==
  /\ published[e] <= 1 + failures[e]
  /\ e \notin created => published[e] = 0
  /\ HasStatus(e, "PENDING") \/ HasStatus(e, "FAILED") =>
       published[e] <= failures[e]
  /\ \A w \in Relays :
       Current(w, e) /\ pc[w] \in {"emit", "catch", "saveCaught"} =>
         published[e] <= failures[e]

CountInv == SingleInv /\ \A e \in Events : AttemptIsCounted(e)

\* A step on one event's row, or on none, that publishes nothing.
LEMMA CountFrame ==
  ASSUME OneAtATime, CountInv, UNCHANGED <<published, failures, created>>,
         \A e \in Events :
           HasStatus(e, "PENDING")' \/ HasStatus(e, "FAILED")' =>
             published[e] <= failures[e],
         \A w \in Relays, e \in Events :
           Current(w, e)' /\ pc'[w] \in {"emit", "catch", "saveCaught"} =>
             published[e] <= failures[e]
  PROVE  \A e \in Events : AttemptIsCounted(e)'
BY DEF CountInv, AttemptIsCounted

LEMMA CountStep ==
  ASSUME OneAtATime, CountInv, [Next]_vars
  PROVE  CountInv'
<1> DEFINE Counted == \A e \in Events : AttemptIsCounted(e)
<1>0. /\ TypeOK /\ TypeOK' /\ SingleInv /\ SingleInv' /\ Counted
      /\ EntitiesMatchRows /\ BatchIsCreated
  BY SingleStep, TypeStep DEF CountInv, SingleInv, DeliveryInv
<1>1. ASSUME NEW e \in Events, CreateOutboxEvent(e) PROVE Counted'
  <2>1. /\ published[e] = 0 /\ created' = created \cup {e}
        /\ UNCHANGED <<published, failures, pc, batch>>
        /\ \A f \in Events : f # e => row'[f] = row[f]
    BY <1>0, <1>1 DEF CreateOutboxEvent, relay, history, AttemptIsCounted, TypeOK
  <2> QED BY <1>0, <2>1 DEF AttemptIsCounted, HasStatus, Current, TypeOK
<1>2. ASSUME NEW w \in Relays,
             \/ FindPending(w) \/ SelectProcessing(w) \/ SelectSent(w)
             \/ CaughtSaveConflicts(w) \/ CaughtSaveFails(w) \/ Crash(w)
      PROVE  Counted'
  <2>1. /\ UNCHANGED <<row, published, failures, created>>
        /\ pc'[w] \notin {"emit", "catch", "saveCaught"}
    BY <1>0, <1>2 DEF FindPending, SelectProcessing, SelectSent, Select,
         CaughtSaveConflicts, CaughtSaveFails, Crash, Abandon, table, history,
         TypeOK
  <2> QED BY <1>0, <2>1, CountFrame
          DEF OneAtATime, HasStatus, CountInv, AttemptIsCounted
<1>3. ASSUME NEW w \in Relays, SelectCaught(w) PROVE Counted'
  <2>1. UNCHANGED <<row, batch, published, failures, created>> /\ pc[w] = "catch"
    BY <1>3 DEF SelectCaught, table, history
  <2> QED BY <1>0, <2>1, CountFrame
          DEF OneAtATime, HasStatus, CountInv, AttemptIsCounted, Current
<1>4. ASSUME NEW w \in Relays, SaveProcessing(w) \/ SaveSent(w) \/ SaveCaught(w)
      PROVE  Counted'
  <2> PICK e \in Events : Current(w, e) /\ Write(w, e)
    BY <1>4 DEF SaveProcessing, SaveSent, SaveCaught
  <2>1. /\ pc[w] \in {"saveProcessing", "saveSent", "saveCaught"}
        /\ UNCHANGED <<published, failures, created>>
    BY <1>4 DEF SaveProcessing, SaveSent, SaveCaught, history
  <2>2. /\ pc[w] = "saveProcessing" => HasStatus(e, "PENDING")
        /\ batch[w][e].status \in StatusAt(pc[w])
        /\ row'[e] = batch[w][e] /\ \A f \in Events : f # e => row'[f] = row[f]
    BY <1>0, <2>1, WriteOpen
  <2>3. HasStatus(e, "PENDING")' \/ HasStatus(e, "FAILED")' => pc[w] = "saveCaught"
    BY <2>1, <2>2 DEF StatusAt, HasStatus
  <2>4. \A f \in Events : HasStatus(f, "PENDING")' \/ HasStatus(f, "FAILED")' =>
          published[f] <= failures[f]
    BY <1>0, <2>2, <2>3 DEF AttemptIsCounted, HasStatus
  <2>5. ASSUME NEW f \in Events, Current(w, f)',
               pc'[w] \in {"emit", "catch", "saveCaught"}
        PROVE  published[f] <= failures[f]
    <3>1. SaveProcessing(w)
      BY <1>0, <1>4, <2>5 DEF SaveSent, SaveCaught, Advance, TypeOK
    <3>2. f = e /\ pc[w] = "saveProcessing"
      BY <2>5, <3>1, CurrentUnique DEF SaveProcessing, Current
    <3> QED BY <1>0, <2>2, <3>2 DEF AttemptIsCounted
  <2> QED BY <1>0, <2>1, <2>4, <2>5, CountFrame DEF OneAtATime, CountInv
<1>5. ASSUME NEW w \in Relays, Emit(w) PROVE Counted'
  <2> PICK e \in Events : Current(w, e) /\ published' = [published EXCEPT ![e] = @ + 1]
    BY <1>5 DEF Emit
  <2>1. /\ UNCHANGED <<row, failures, created>> /\ pc[w] = "emit"
        /\ pc' = [pc EXCEPT ![w] = "sent"]
    BY <1>5 DEF Emit, table, history
  <2>2. /\ HasStatus(e, "PROCESSING") /\ e \in created
        /\ published[e] <= failures[e]
    BY <1>0, <2>1 DEF EntitiesMatchRows, Matches, BatchIsCreated, Current,
                      AttemptIsCounted
  <2>3. /\ published'[e] = published[e] + 1
        /\ \A f \in Events : f # e => published'[f] = published[f]
        /\ pc'[w] = "sent" /\ published[e] \in Nat /\ failures[e] \in Nat
    BY <1>0, <2>1 DEF TypeOK
  <2>4. AttemptIsCounted(e)'
    BY <2>1, <2>2, <2>3 DEF OneAtATime, AttemptIsCounted, HasStatus
  <2>5. \A f \in Events : f # e => AttemptIsCounted(f)'
    BY <1>0, <2>1, <2>3 DEF OneAtATime, AttemptIsCounted, HasStatus
  <2> QED BY <2>4, <2>5
<1>6. ASSUME NEW w \in Relays, SaveFails(w) \/ EmitFails(w) \/ SaveConflicts(w)
      PROVE  Counted'
  <2> PICK e \in Events :
        /\ Current(w, e) /\ Catch(w, e)
        /\ \/ published' = published
           \/ pc[w] = "emit" /\ published' = [published EXCEPT ![e] = @ + 1]
    BY <1>6 DEF SaveFails, EmitFails, SaveConflicts
  <2>1. UNCHANGED <<row, created>> /\ failures' = [failures EXCEPT ![e] = @ + 1]
    BY <1>6 DEF SaveFails, EmitFails, SaveConflicts, Catch, table
  <2>2. e \in created /\ (pc[w] = "emit" => published[e] <= failures[e])
    BY <1>0 DEF BatchIsCreated, Current, AttemptIsCounted
  <2>3. /\ published[e] \in Nat /\ failures[e] \in Nat
        /\ failures'[e] = failures[e] + 1
        /\ \A f \in Events : f # e => /\ published'[f] = published[f]
                                      /\ failures'[f] = failures[f]
    BY <1>0, <2>1 DEF TypeOK
  <2>4. published'[e] <= failures'[e]
    <3>1. CASE published' = published
      BY <1>0, <2>3, <3>1 DEF AttemptIsCounted
    <3>2. CASE pc[w] = "emit" /\ published' = [published EXCEPT ![e] = @ + 1]
      <4>1. published'[e] = published[e] + 1
        BY <1>0, <3>2 DEF TypeOK
      <4> QED BY <2>2, <2>3, <3>2, <4>1
    <3> QED BY <3>1, <3>2
  <2>5. \A f \in Events : Current(w, f)' => f = e
    <3>1. batch[w][e] \in Row
      BY <1>0 DEF TypeOK, Current
    <3> QED BY <1>0, <3>1, CaughtType, CurrentKept DEF Catch
  <2>6. AttemptIsCounted(e)'
    <3>1. published'[e] \in Nat /\ failures'[e] \in Nat
      BY <1>0 DEF TypeOK
    <3>2. published'[e] <= 1 + failures'[e]
      BY <2>4, <3>1
    <3> QED BY <2>1, <2>2, <2>4, <3>2 DEF AttemptIsCounted
  <2>7. \A f \in Events : f # e => AttemptIsCounted(f)'
    BY <1>0, <2>1, <2>3, <2>5 DEF OneAtATime, AttemptIsCounted, HasStatus
  <2> QED BY <2>6, <2>7
<1>7. ASSUME RetryFailedEvents \/ CleanupOldEvents PROVE Counted'
  <2>1. UNCHANGED <<published, failures, created, pc, batch>>
    BY <1>7 DEF RetryFailedEvents, CleanupOldEvents, relay, history
  <2>2. \A e \in Events : \/ row'[e] = row[e] \/ row'[e] = Null
                          \/ HasStatus(e, "FAILED")
    BY <1>0, <1>7 DEF RetryFailedEvents, CleanupOldEvents, TypeOK
  <2> QED BY <1>0, <2>1, <2>2 DEF AttemptIsCounted, HasStatus, Current
<1>8. ASSUME NextDay \/ UNCHANGED vars PROVE Counted'
  <2>1. UNCHANGED <<row, published, failures, created, pc, batch>>
    BY <1>8 DEF NextDay, vars, relay, table, history
  <2> QED BY <1>0, <2>1 DEF AttemptIsCounted, HasStatus, Current
<1>9. Counted'
  BY <1>1, <1>2, <1>3, <1>4, <1>5, <1>6, <1>7, <1>8
     DEF Next, RelayStep, RelayFault
<1> QED BY <1>0, <1>9 DEF CountInv

\* With one relay every message of an event after the first is accounted for
\* by a run of the catch block (outbox.service.ts:85-102).
THEOREM Duplicates ==
  ASSUME OneAtATime
  PROVE  Spec => []DuplicatesAreRetries
<1>1. Init => CountInv
  BY SingleInit DEF Init, CountInv, AttemptIsCounted
<1>2. CountInv /\ [Next]_vars => CountInv'
  BY CountStep
<1>3. CountInv => DuplicatesAreRetries
  BY DEF CountInv, AttemptIsCounted, DuplicatesAreRetries
<1> QED BY <1>1, <1>2, <1>3, PTL DEF Spec

-----------------------------------------------------------------------------
(* The refinement.                                                         *)

\* A step that publishes and records nothing, and neither opens nor settles
\* an event, is a stutter of the channel.
LEMMA ChannelStutters ==
  ASSUME UNCHANGED <<created, published>>,
         \A e \in created : (row'[e] = Null \/ HasStatus(e, "SENT")')
                              <=> (row[e] = Null \/ HasStatus(e, "SENT"))
  PROVE  [C!Next]_(C!vars)
<1>1. Settled' = Settled
  BY DEF Settled
<1> QED BY <1>1 DEF C!vars

\* A step of one relay, of its environment, or of the maintenance is a step of
\* the channel, or changes nothing in it.
LEMMA ChannelStep ==
  ASSUME OneAtATime, SingleInv, [Next]_vars
  PROVE  [C!Next]_(C!vars)
<1>0. /\ TypeOK /\ TypeOK' /\ EntitiesMatchRows /\ RowsAreCreated
      /\ BatchIsCreated /\ SentEntityIsPublished
  BY TypeStep DEF SingleInv, DeliveryInv
<1>1. ASSUME NEW e \in Events, CreateOutboxEvent(e) PROVE C!Record(e)
  <2>1. /\ e \notin created /\ created' = created \cup {e}
        /\ published' = published /\ row'[e] = NewRow
        /\ \A f \in Events : f # e => row'[f] = row[f]
    BY <1>0, <1>1 DEF CreateOutboxEvent, TypeOK
  <2>2. NewRow # Null /\ NewRow.status = "PENDING"
    <3>1. NewRow \in Row /\ NewRow.status = "PENDING"
      BY DEF NewRow, Row, Statuses
    <3> QED BY <3>1, NullAssumption
  <2>3. Settled' = Settled
    BY <1>0, <2>1, <2>2 DEF Settled, HasStatus, TypeOK
  <2> QED BY <2>1, <2>3 DEF C!Record
<1>2. ASSUME NEW w \in Relays, NEW e \in Events, Current(w, e),
             pc[w] \in {"emit", "saveSent"}
      PROVE  e \in created /\ e \notin Settled
  <2>1. HasStatus(e, "PROCESSING")
    BY <1>0, <1>2 DEF EntitiesMatchRows, Matches, Current
  <2> QED BY <1>0, <1>2, <2>1 DEF BatchIsCreated, Current, Settled, HasStatus
<1>3. ASSUME NEW w \in Relays, Emit(w) \/ EmitFails(w) PROVE [C!Next]_(C!vars)
  <2> PICK e \in Events :
        /\ Current(w, e) /\ pc[w] = "emit"
        /\ \/ published' = published
           \/ published' = [published EXCEPT ![e] = @ + 1]
    BY <1>3 DEF Emit, EmitFails
  <2>1. UNCHANGED <<row, created>>
    BY <1>3 DEF Emit, EmitFails, table
  <2>2. Settled' = Settled
    BY <2>1 DEF Settled, HasStatus
  <2>3. CASE published' = published
    BY <2>1, <2>2, <2>3 DEF C!vars
  <2>4. CASE published' = [published EXCEPT ![e] = @ + 1]
    <3>1. C!Deliver(e)
      BY <1>2, <2>1, <2>2, <2>4 DEF C!Deliver
    <3> QED BY <3>1 DEF C!Next
  <2> QED BY <2>3, <2>4
<1>4. ASSUME NEW w \in Relays, SaveProcessing(w) \/ SaveCaught(w)
      PROVE  [C!Next]_(C!vars)
  <2> PICK e \in Events : Current(w, e) /\ Write(w, e)
    BY <1>4 DEF SaveProcessing, SaveCaught
  <2>1. /\ pc[w] \in {"saveProcessing", "saveCaught"}
        /\ UNCHANGED <<created, published>>
    BY <1>4 DEF SaveProcessing, SaveCaught
  <2>2. /\ row[e] # Null /\ ~ HasStatus(e, "SENT")
        /\ row'[e] # Null /\ row'[e].status \in StatusAt(pc[w])
        /\ \A f \in Events : f # e => row'[f] = row[f]
    BY <2>1, WriteOpen DEF HasStatus
  <2>3. ~ HasStatus(e, "SENT")'
    BY <2>1, <2>2 DEF StatusAt, HasStatus
  <2> QED BY <1>0, <2>1, <2>2, <2>3, ChannelStutters DEF TypeOK, HasStatus
<1>5. ASSUME NEW w \in Relays, SaveSent(w) PROVE [C!Next]_(C!vars)
  <2> PICK e \in Events : Current(w, e) /\ Write(w, e)
    BY <1>5 DEF SaveSent
  <2>1. pc[w] = "saveSent" /\ UNCHANGED <<created, published>>
    BY <1>5 DEF SaveSent
  <2>2. /\ batch[w][e] # Null /\ batch[w][e].status = "SENT"
        /\ row'[e] = batch[w][e] /\ \A f \in Events : f # e => row'[f] = row[f]
    BY <2>1, WriteOpen DEF StatusAt
  <2>3. published[e] > 0
    BY <1>0, <2>2 DEF SentEntityIsPublished
  <2>4. Settled' = Settled \cup {e}
    BY <1>0, <1>2, <2>1, <2>2 DEF Settled, HasStatus, TypeOK
  <2>5. C!Settle(e)
    BY <1>2, <2>1, <2>3, <2>4 DEF C!Settle
  <2> QED BY <2>5 DEF C!Next
<1>6. CASE RetryFailedEvents \/ CleanupOldEvents
  <2>1. UNCHANGED <<created, published>>
    BY <1>6 DEF RetryFailedEvents, CleanupOldEvents
  <2>2. ASSUME NEW e \in created
        PROVE  (row'[e] = Null \/ HasStatus(e, "SENT")')
                 <=> (row[e] = Null \/ HasStatus(e, "SENT"))
    <3>1. \/ row'[e] = row[e]
          \/ HasStatus(e, "SENT") /\ row'[e] = Null
          \/ HasStatus(e, "FAILED") /\ row'[e] # Null /\ row'[e].status = "PENDING"
      <4> DEFINE Retried(r) == [r EXCEPT !.status = "PENDING", !.retryCount = 0]
      <4>1. \A r \in Row : Retried(r) \in Row /\ Retried(r).status = "PENDING"
        BY DEF Row, Statuses
      <4>2. \/ row'[e] = row[e]
            \/ HasStatus(e, "SENT") /\ row'[e] = Null
            \/ HasStatus(e, "FAILED") /\ row'[e] = Retried(row[e])
        BY <1>0, <1>6 DEF RetryFailedEvents, CleanupOldEvents, TypeOK
      <4>3. row[e] # Null => row[e] \in Row
        BY <1>0 DEF TypeOK
      <4> HIDE DEF Retried
      <4> QED BY <4>1, <4>2, <4>3, NullAssumption DEF HasStatus
    <3> QED BY <3>1 DEF HasStatus
  <2> QED BY <2>1, <2>2, ChannelStutters
<1>7. CASE UNCHANGED <<row, created, published>>
  BY <1>7, ChannelStutters DEF HasStatus
<1> QED BY <1>1, <1>3, <1>4, <1>5, <1>6, <1>7
        DEF Next, RelayStep, RelayFault, FindPending, SelectProcessing,
            SelectSent, SaveConflicts, SelectCaught, CaughtSaveConflicts,
            SaveFails, CaughtSaveFails, Crash, NextDay, vars, table, C!Next

\* One relay implements the channel of Channel.tla: every event is published
\* before its row is SENT or deleted, and neither published nor open after.
THEOREM Refinement ==
  ASSUME OneAtATime
  PROVE  Spec => ImplementsChannel
<1>1. Init => C!Init
  BY DEF Init, C!Init, Settled
<1>2. SingleInv /\ [Next]_vars => SingleInv'
  BY SingleStep
<1>3. SingleInv /\ [Next]_vars => [C!Next]_(C!vars)
  BY ChannelStep
<1> QED BY SingleInit, <1>1, <1>2, <1>3, PTL
        DEF Spec, ImplementsChannel, C!Spec
=============================================================================
