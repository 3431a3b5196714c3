------------------------ MODULE AtomicTicketsProofs -------------------------
(***************************************************************************)
(* When calls about one ticket do not overlap the ticket service           *)
(* implements AtomicTickets.                                               *)
(***************************************************************************)
EXTENDS ApartProofs, SequenceTheorems

-----------------------------------------------------------------------------
(* Sequences.                                                              *)

LEMMA OneOrTwo ==
  ASSUME NEW S, NEW a \in S
  PROVE  /\ <<a>> \in Seq(S) /\ Len(<<a>>) = 1
         /\ \A b \in S : /\ <<a, b>> \in Seq(S) /\ Len(<<a, b>>) = 2
                         /\ <<a>> \o <<b>> = <<a, b>>
<1>1. <<a>> \in Seq(S) /\ Len(<<a>>) = 1
  OBVIOUS
<1>2. ASSUME NEW b \in S
      PROVE  /\ <<a, b>> \in Seq(S) /\ Len(<<a, b>>) = 2
             /\ <<a>> \o <<b>> = <<a, b>>
  <2>1. <<b>> \in Seq(S) /\ <<a, b>> \in Seq(S) /\ Len(<<a, b>>) = 2
    OBVIOUS
  <2>2. Append(<<a>>, b) = <<a, b>>
    <3>1. /\ Append(<<a>>, b) \in Seq(S) /\ Len(Append(<<a>>, b)) = 2
          /\ Append(<<a>>, b)[1] = a /\ Append(<<a>>, b)[2] = b
      BY <1>1, AppendProperties
    <3>2. \A i \in 1..2 : Append(<<a>>, b)[i] = <<a, b>>[i]
      BY <3>1
    <3> QED  BY <2>1, <3>1, <3>2, SeqEqual
  <2> QED  BY <1>1, <2>1, <2>2, AppendIsConcat
<1> QED  BY <1>1, <1>2

LEMMA ConcatAppend ==
  ASSUME NEW S, NEW s \in Seq(S), NEW e \in S, NEW rest \in Seq(S)
  PROVE  Append(s, e) \o rest = s \o (<<e>> \o rest)
<1>1. <<e>> \in Seq(S)
  OBVIOUS
<1>2. Append(s, e) = s \o <<e>>
  BY AppendIsConcat
<1> QED  BY <1>1, <1>2, ConcatAssociative

\* What is left of a concatenation when its second part is cut off.
LEMMA CutConcat ==
  ASSUME NEW S, NEW s \in Seq(S), NEW rest \in Seq(S)
  PROVE  /\ Len(rest) <= Len(s \o rest)
         /\ SubSeq(s \o rest, 1, Len(s \o rest) - Len(rest)) = s
<1> DEFINE both == s \o rest
<1>1. /\ both \in Seq(S) /\ Len(both) = Len(s) + Len(rest)
      /\ \A i \in 1..Len(s) : both[i] = s[i]
      /\ Len(s) \in Nat /\ Len(rest) \in Nat
  BY ConcatProperties, LenProperties
<1> HIDE DEF both
<1>2. \A i \in 1..Len(s) : both[i] \in S
  BY <1>1, ElementOfSeq
<1>3. /\ SubSeq(both, 1, Len(s)) \in Seq(S)
      /\ Len(SubSeq(both, 1, Len(s))) = Len(s)
      /\ \A i \in 1..Len(s) : SubSeq(both, 1, Len(s))[i] = s[i]
  BY <1>1, <1>2, SubSeqProperties
<1>4. SubSeq(both, 1, Len(s)) = s
  BY <1>3, SeqEqual
<1> QED  BY <1>1, <1>4 DEF both

-----------------------------------------------------------------------------
(* The events a call owes.                                                 *)

LEMMA OwedEffect ==
  ASSUME NEW c
  PROVE  /\ c.at = "recordCreated" =>
              Owed(c) = <<[type |-> "TICKET_CREATED", ticket |-> c.ticket,
                           status |-> Todo, text |-> c.text]>>
         /\ c.at = "recordUpdated" =>
              Owed(c) =
                IF c.dto.status \in {Null, c.oldStatus}
                THEN <<[type |-> "TICKET_UPDATED", ticket |-> c.ticket,
                        status |-> c.dto.status, text |-> c.dto.text,
                        plan |-> c.dto.plan]>>
                ELSE <<[type |-> "TICKET_UPDATED", ticket |-> c.ticket,
                        status |-> c.dto.status, text |-> c.dto.text,
                        plan |-> c.dto.plan],
                       [type |-> "TICKET_STATUS_CHANGED", ticket |-> c.ticket,
                        oldStatus |-> c.oldStatus, newStatus |-> c.dto.status]>>
         /\ c.at = "recordStatusChanged" =>
              Owed(c) = <<[type |-> "TICKET_STATUS_CHANGED", ticket |-> c.ticket,
                           oldStatus |-> c.oldStatus, newStatus |-> c.dto.status]>>
         /\ c.at = "recordDeleted" =>
              Owed(c) = <<[type |-> "TICKET_DELETED", ticket |-> c.ticket]>>
         /\ c.at = "recordComment" =>
              Owed(c) = <<[type |-> "TICKET_COMMENT_ADDED", ticket |-> c.ticket,
                           comment |-> c.comment]>>
         /\ c.at \notin {"recordCreated", "recordUpdated", "recordStatusChanged",
                         "recordDeleted", "recordComment"} => Owed(c) = <<>>
BY DEF Owed

LEMMA OwedType ==
  ASSUME NEW c \in Calls, c.at = "recordStatusChanged" => c.dto.status # Null
  PROVE  Owed(c) \in Seq(Events) /\ Len(Owed(c)) \in 0..2
<1>1. CASE c.at \in {"recordUpdated", "recordStatusChanged"}
  <2> DEFINE updated == [type |-> "TICKET_UPDATED", ticket |-> c.ticket,
                         status |-> c.dto.status, text |-> c.dto.text,
                         plan |-> c.dto.plan]
             changed == [type |-> "TICKET_STATUS_CHANGED", ticket |-> c.ticket,
                         oldStatus |-> c.oldStatus, newStatus |-> c.dto.status]
  <2>1. updated \in Events /\ (c.dto.status # Null => changed \in Events)
    <3>1. /\ c.ticket \in Tickets /\ c.dto.status \in Statuses \cup {Null}
          /\ c.dto.text \in Texts \cup {Null} /\ c.dto.plan \in Plans \cup {Null}
          /\ c.oldStatus \in Statuses
      BY <1>1, CallFields DEF UpdatePlaces, UpdateCalls, Dto
    <3> QED  BY <3>1 DEF Events
  <2>2. \/ Owed(c) = <<updated>>
        \/ c.dto.status # Null /\ Owed(c) \in {<<changed>>, <<updated, changed>>}
    BY <1>1, OwedEffect
  <2> HIDE DEF updated, changed
  <2>3. CASE Owed(c) = <<updated>>
    BY <2>1, <2>3, OneOrTwo
  <2>4. CASE c.dto.status # Null /\ Owed(c) = <<changed>>
    BY <2>1, <2>4, OneOrTwo
  <2>5. CASE c.dto.status # Null /\ Owed(c) = <<updated, changed>>
    BY <2>1, <2>5, OneOrTwo
  <2> QED  BY <2>2, <2>3, <2>4, <2>5
<1>2. CASE c.at \in {"recordCreated", "recordDeleted", "recordComment"}
  <2> DEFINE created == [type |-> "TICKET_CREATED", ticket |-> c.ticket,
                         status |-> Todo, text |-> c.text]
             deleted == [type |-> "TICKET_DELETED", ticket |-> c.ticket]
             commented == [type |-> "TICKET_COMMENT_ADDED", ticket |-> c.ticket,
                           comment |-> c.comment]
  <2>1. /\ c.at = "recordCreated" => created \in Events
        /\ c.at = "recordDeleted" => deleted \in Events
        /\ c.at = "recordComment" => commented \in Events
    BY CallFields DEF Events, DeleteCalls
  <2>2. /\ c.at = "recordCreated" => Owed(c) = <<created>>
        /\ c.at = "recordDeleted" => Owed(c) = <<deleted>>
        /\ c.at = "recordComment" => Owed(c) = <<commented>>
    BY OwedEffect
  <2> HIDE DEF created, deleted, commented
  <2> QED  BY <1>2, <2>1, <2>2, OneOrTwo
<1>3. CASE c.at \notin {"recordCreated", "recordUpdated", "recordStatusChanged",
                        "recordDeleted", "recordComment"}
  <2>1. Owed(c) = <<>>
    BY <1>3, OwedEffect
  <2> QED  BY <2>1, EmptySeq
<1> QED  BY <1>1, <1>2, <1>3

-----------------------------------------------------------------------------
(* The log of a ticket.                                                    *)

LEMMA LogTypes ==
  ASSUME TypeOK, ViewInv
  PROVE  /\ \A h \in Handlers :
              Owed(call[h]) \in Seq(Events) /\ Len(Owed(call[h])) \in 0..2
         /\ \A t \in Tickets : View.told[t] \in Seq(Events)
<1>1. ASSUME NEW h \in Handlers
      PROVE  Owed(call[h]) \in Seq(Events) /\ Len(Owed(call[h])) \in 0..2
  <2>1. call[h] \in Calls
        /\ (call[h].at = "recordStatusChanged" => call[h].dto.status # Null)
    BY DEF TypeOK
  <2> QED  BY <2>1, OwedType
<1>2. View.told \in [Tickets -> Seq(Events)]
  BY DEF ViewInv, Sights
<1> QED  BY <1>1, <1>2

\* A log ends with what the call about its ticket owes, if there is one.
LogsAre ==
  /\ \A h \in Handlers :
       Owed(call[h]) \in Seq(Events) /\ Len(Owed(call[h])) \in 0..2
  /\ \A t \in Tickets : View.told[t] \in Seq(Events)
  /\ \A t \in Tickets :
       /\ \A h \in Handlers : Talks(h) /\ call[h].ticket = t =>
            Log(t) = View.told[t] \o Owed(call[h])
       /\ (\A h \in Handlers : Talks(h) => call[h].ticket # t) => Log(t) = View.told[t]

LEMMA LogIs == TypeOK /\ ViewInv /\ Apart => LogsAre
<1> SUFFICES ASSUME TypeOK, ViewInv, Apart, NEW t \in Tickets
             PROVE  /\ \A h \in Handlers : Talks(h) /\ call[h].ticket = t =>
                         Log(t) = View.told[t] \o Owed(call[h])
                    /\ (\A h \in Handlers : Talks(h) => call[h].ticket # t)
                         => Log(t) = View.told[t]
  BY LogTypes DEF LogsAre
<1> DEFINE callers == {h \in Handlers : Talks(h) /\ call[h].ticket = t}
<1>1. ASSUME NEW h \in Handlers, Talks(h), call[h].ticket = t
      PROVE  Log(t) = View.told[t] \o Owed(call[h])
  <2>1. callers = {h}
    BY <1>1 DEF Apart
  <2>2. (CHOOSE g \in callers : TRUE) = h
    BY <2>1
  <2> QED  BY <2>1, <2>2 DEF Log
<1>2. ASSUME \A h \in Handlers : Talks(h) => call[h].ticket # t
      PROVE  Log(t) = View.told[t]
  <2>1. callers = {}
    BY <1>2
  <2>2. View.told[t] \o <<>> = View.told[t]
    BY LogTypes, ConcatEmptySeq
  <2> QED  BY <2>1, <2>2 DEF Log
<1> QED  BY <1>1, <1>2

LEMMA LogIsNext == TypeOK' /\ ViewInv' /\ Apart' => LogsAre'
BY LogIs, PTL

\* The ticket a step is about.
About(h, t) ==
  /\ Talks(h) \/ Talks(h)'
  /\ Talks(h) => call[h].ticket = t
  /\ Talks(h)' => call'[h].ticket = t

LEMMA LogAbout ==
  ASSUME TypeOK, ViewInv, Apart, Apart', NEW h \in Handlers, Acts(h)
  PROVE  /\ \A t \in Tickets : About(h, t) =>
              /\ Log(t) = View.told[t] \o Owed(call[h])
              /\ Log(t)' = View'.told[t] \o Owed(call'[h])
         /\ \A u \in Tickets :
              /\ Talks(h) => call[h].ticket # u
              /\ Talks(h)' => call'[h].ticket # u
              => Log(u)' = Log(u)
<1>1. LogsAre /\ LogsAre'
  BY ActsType, ViewAbout, LogIs, LogIsNext
<1>2. \A g \in Handlers \ {h} :
        /\ call'[g] = call[g] /\ (Talks(g)' <=> Talks(g))
        /\ Talks(g) => /\ Talks(h) => call[h].ticket # call[g].ticket
                       /\ Talks(h)' => call'[h].ticket # call[g].ticket
  BY OthersApart DEF Talks
<1>3. ASSUME ~ Talks(h)
      PROVE  Owed(call[h]) = <<>>
  BY <1>3, OwedEffect DEF Talks
<1>4. ASSUME ~ Talks(h)'
      PROVE  Owed(call'[h]) = <<>>
  BY <1>4, OwedEffect DEF Talks
<1>5. ASSUME NEW t \in Tickets, About(h, t)
      PROVE  /\ Log(t) = View.told[t] \o Owed(call[h])
             /\ Log(t)' = View'.told[t] \o Owed(call'[h])
  <2>1. \A g \in Handlers \ {h} :
          /\ Talks(g) => call[g].ticket # t
          /\ Talks(g)' => call'[g].ticket # t
    BY <1>2, <1>5 DEF About
  <2>2. View.told[t] \o <<>> = View.told[t] /\ View'.told[t] \o <<>> = View'.told[t]
    BY <1>1, ConcatEmptySeq DEF LogsAre
  <2>3. Log(t) = View.told[t] \o Owed(call[h])
    <3>1. CASE Talks(h)
      BY <1>1, <1>5, <3>1 DEF LogsAre, About
    <3>2. CASE ~ Talks(h)
      BY <1>1, <1>3, <2>1, <2>2, <3>2 DEF LogsAre
    <3> QED  BY <3>1, <3>2
  <2>4. Log(t)' = View'.told[t] \o Owed(call'[h])
    <3>1. CASE Talks(h)'
      BY <1>1, <1>5, <3>1 DEF LogsAre, About
    <3>2. CASE ~ Talks(h)'
      BY <1>1, <1>4, <2>1, <2>2, <3>2 DEF LogsAre
    <3> QED  BY <3>1, <3>2
  <2> QED  BY <2>3, <2>4
<1>6. ASSUME NEW u \in Tickets,
             Talks(h) => call[h].ticket # u, Talks(h)' => call'[h].ticket # u
      PROVE  Log(u)' = Log(u)
  <2>1. View'.told[u] = View.told[u]
    BY <1>6, ViewAbout
  <2>2. CASE \E g \in Handlers : Talks(g) /\ call[g].ticket = u
    <3>1. PICK g \in Handlers : Talks(g) /\ call[g].ticket = u
      BY <2>2
    <3>2. g # h /\ call'[g] = call[g] /\ Talks(g)'
      BY <1>2, <1>6, <3>1
    <3>3. /\ Log(u) = View.told[u] \o Owed(call[g])
          /\ Log(u)' = View'.told[u] \o Owed(call'[g])
      BY <1>1, <3>1, <3>2 DEF LogsAre
    <3> QED  BY <2>1, <3>2, <3>3
  <2>3. CASE \A g \in Handlers : Talks(g) => call[g].ticket # u
    <3>1. \A g \in Handlers : Talks(g)' => call'[g].ticket # u
      BY <1>2, <1>6, <2>3
    <3>2. Log(u) = View.told[u] /\ Log(u)' = View'.told[u]
      BY <1>1, <2>3, <3>1 DEF LogsAre
    <3> QED  BY <2>1, <3>2
  <2> QED  BY <2>2, <2>3
<1> QED  BY <1>5, <1>6

Logs == [t \in Tickets |-> Log(t)]

LEMMA LogsAbout ==
  ASSUME TypeOK, ViewInv, Apart, Apart', NEW h \in Handlers, Acts(h)
  PROVE  /\ ~ Talks(h) /\ ~ Talks(h)' => Logs' = Logs
         /\ \A t \in Tickets : About(h, t) => Logs' = [Logs EXCEPT ![t] = Log(t)']
<1>1. CASE ~ Talks(h) /\ ~ Talks(h)'
  <2>1. \A u \in Tickets : Log(u)' = Log(u)
    BY <1>1, LogAbout
  <2> QED  BY <1>1, <2>1 DEF Logs, About
<1>2. ASSUME NEW t \in Tickets, About(h, t)
      PROVE  Logs' = [Logs EXCEPT ![t] = Log(t)']
  <2>1. \A u \in Tickets \ {t} : Log(u)' = Log(u)
    BY <1>2, LogAbout DEF About
  <2> QED  BY <2>1 DEF Logs
<1> QED  BY <1>1, <1>2

\* Recording the first of the events that are owed.
LEMMA LogRecord ==
  ASSUME TypeOK, ViewInv, Apart, Apart', NEW h \in Handlers, Acts(h), Talks(h),
         NEW event \in Events, event.ticket = call[h].ticket, Record(event),
         Talks(h)' => call'[h].ticket = call[h].ticket,
         Owed(call[h]) = <<event>> \o Owed(call'[h])
  PROVE  Logs' = Logs
<1>1. PICK t \in Tickets : t = call[h].ticket
  BY TalksType
<1>2. /\ Log(t) = View.told[t] \o Owed(call[h])
      /\ Log(t)' = View'.told[t] \o Owed(call'[h])
      /\ Logs' = [Logs EXCEPT ![t] = Log(t)']
  BY <1>1, LogAbout, LogsAbout DEF About
<1>3. View'.told[t] = Append(View.told[t], event)
  BY <1>1, SeenEffect
<1>4. View.told[t] \in Seq(Events) /\ Owed(call'[h]) \in Seq(Events)
  BY ActsType, ViewAbout, LogIs, LogIsNext DEF LogsAre
<1>5. Append(View.told[t], event) \o Owed(call'[h])
        = View.told[t] \o (<<event>> \o Owed(call'[h]))
  <2>1. PICK s \in Seq(Events), rest \in Seq(Events) :
          s = View.told[t] /\ rest = Owed(call'[h])
    BY <1>4
  <2>2. Append(s, event) \o rest = s \o (<<event>> \o rest)
    BY ConcatAppend
  <2> QED  BY <2>1, <2>2, Zenon
<1>6. Log(t)' = Log(t)
  BY <1>2, <1>3, <1>5, Zenon
<1> QED  BY <1>1, <1>2, <1>6 DEF Logs

\* The events that a step begins to owe are told by it.
LEMMA LogTold ==
  ASSUME TypeOK, ViewInv, Apart, Apart', NEW h \in Handlers, Acts(h),
         NEW t \in Tickets, About(h, t), Owed(call[h]) = <<>>, UNCHANGED events
  PROVE  /\ Logs[t] = View.told[t]
         /\ Logs' = [Logs EXCEPT ![t] = @ \o Owed(call'[h])]
<1>1. /\ Log(t) = View.told[t] \o Owed(call[h])
      /\ Log(t)' = View'.told[t] \o Owed(call'[h])
      /\ Logs' = [Logs EXCEPT ![t] = Log(t)']
  BY LogAbout, LogsAbout
<1>2. View' = View /\ View.told[t] \o <<>> = View.told[t]
  BY ViewKept, LogTypes, ConcatEmptySeq
<1>3. Log(t) = View.told[t] /\ Log(t)' = Log(t) \o Owed(call'[h])
  BY <1>1, <1>2
<1>4. Logs[t] = Log(t)
  BY DEF Logs
<1> QED  BY <1>1, <1>3, <1>4

\* A call that ends takes the events it owes with it.
LEMMA LogCut ==
  ASSUME TypeOK, ViewInv, Apart, Apart', NEW h \in Handlers, Acts(h),
         NEW t \in Tickets, About(h, t), Owed(call'[h]) = <<>>, UNCHANGED events
  PROVE  \E n \in 0..2 :
           /\ n <= Len(Logs[t])
           /\ Logs' = [Logs EXCEPT ![t] = SubSeq(@, 1, Len(@) - n)]
<1> DEFINE n == Len(Owed(call[h]))
<1>1. /\ Log(t) = View.told[t] \o Owed(call[h])
      /\ Log(t)' = View'.told[t] \o Owed(call'[h])
      /\ Logs' = [Logs EXCEPT ![t] = Log(t)']
      /\ Logs[t] = Log(t)
  BY LogAbout, LogsAbout DEF Logs
<1>2. /\ View.told[t] \in Seq(Events) /\ Owed(call[h]) \in Seq(Events) /\ n \in 0..2
      /\ View' = View
  BY LogTypes, ViewKept
<1>3. Log(t)' = View.told[t]
  BY <1>1, <1>2, ConcatEmptySeq
<1>4. LET both == View.told[t] \o Owed(call[h])
      IN  n <= Len(both) /\ SubSeq(both, 1, Len(both) - n) = View.told[t]
  BY <1>2, CutConcat
<1> HIDE DEF n
<1>5. n <= Len(Log(t)) /\ SubSeq(Log(t), 1, Len(Log(t)) - n) = View.told[t]
  BY <1>1, <1>4, Zenon
<1> QED  BY <1>1, <1>2, <1>3, <1>5

-----------------------------------------------------------------------------
(* The inductive invariant.                                                *)

\* The call of a deletion still finds its ticket.
Found(h) == call[h].at = "remove" => ticket[call[h].ticket] # Null

\* The comment that a call is about to tell of has been created.
Commented(h) == call[h].at = "recordComment" => call[h].comment <= born.comments

\* Nothing is told of a ticket that is not created yet, nor of such a comment.
ToldInv ==
  \A t \in Tickets :
    /\ born.tickets < t => View.told[t] = <<>>
    /\ \A i \in DOMAIN View.told[t] :
         View.told[t][i].type = "TICKET_COMMENT_ADDED" =>
           View.told[t][i].comment <= born.comments

AtomicInv ==
  /\ FreshInv /\ SerialInv /\ ViewInv
  /\ \A h \in Handlers : Found(h) /\ Commented(h)
  /\ ToldInv

LEMMA BornGrows ==
  ASSUME TypeOK, NEW h \in Handlers, Acts(h)
  PROVE  /\ born.tickets \in Nat /\ born.comments \in Nat
         /\ born'.tickets \in Nat /\ born'.comments \in Nat
         /\ born.tickets <= born'.tickets /\ born.comments <= born'.comments
<1>1. TypeOK'
  BY ActsType
<1>2. born.tickets \in Nat /\ born.comments \in Nat
  BY BoundsAssumption DEF TypeOK
<1>3. CASE \E text \in Texts, plan \in Plans \cup {Null} : CreateTicket(h, text, plan)
  BY <1>2, <1>3 DEF TypeOK, CreateTicket
<1>4. CASE \E t \in Tickets : CreateComment(h, t)
  BY <1>2, <1>4 DEF TypeOK, CreateComment
<1>5. CASE \/ \E t \in Tickets :
                \/ \E dto \in Dto : FindForUpdate(h, t, dto)
                \/ FindForDelete(h, t)
           \/ \E c \in Comments : FindComment(h, c)
           \/ Step(h) \/ CallFails(h)
  <2>1. UNCHANGED born
    BY <1>5
       DEF FindForUpdate, FindForDelete, FindComment, Step, RecordCreated,
           SelectForUpdate, WriteUpdate, WriteConflicts, RecordUpdated,
           RecordStatusChanged, RemoveTicket, RecordDeleted, RecordComment,
           RemoveComment, CallFails
  <2> QED  BY <1>2, <2>1
<1> QED  BY <1>3, <1>4, <1>5 DEF Acts, Start

\* Only one step tells of a comment.
LEMMA CommentTold ==
  ASSUME TypeOK, NEW h \in Handlers, Acts(h), NEW event, Record(event),
         event.type = "TICKET_COMMENT_ADDED"
  PROVE  call[h].at = "recordComment" /\ event.comment = call[h].comment
<1>1. events' # events /\ events'[Len(events) + 1] = event
  <2>1. events \in Seq(Events)
    BY DEF TypeOK
  <2> HIDE DEF Events
  <2> QED  BY <2>1 DEF Record
<1>2. ASSUME NEW other, Record(other)
      PROVE  other = event
  BY <1>1, <1>2, RecordEffect
<1>3. ~ Start(h) /\ ~ CallFails(h)
  BY <1>1 DEF Start, CreateTicket, FindForUpdate, FindForDelete, CreateComment,
              FindComment, CallFails
<1>4. /\ ~ SelectForUpdate(h) /\ ~ WriteUpdate(h) /\ ~ WriteConflicts(h)
      /\ ~ RemoveTicket(h) /\ ~ RemoveComment(h)
  BY <1>1 DEF SelectForUpdate, WriteUpdate, WriteConflicts, RemoveTicket, RemoveComment
<1>5. CASE RecordUpdated(h)
  <2> DEFINE other == [type |-> "TICKET_UPDATED", ticket |-> call[h].ticket,
                       status |-> call[h].dto.status, text |-> call[h].dto.text,
                       plan |-> call[h].dto.plan]
  <2>1. Record(other) /\ other.type = "TICKET_UPDATED"
    BY <1>5 DEF RecordUpdated
  <2> HIDE DEF other
  <2> QED  BY <1>2, <2>1
<1>6. CASE RecordCreated(h) \/ RecordStatusChanged(h) \/ RecordDeleted(h)
  <2>1. \E other : Record(other) /\ other.type # "TICKET_COMMENT_ADDED"
    BY <1>6 DEF RecordCreated, RecordStatusChanged, RecordDeleted
  <2> QED  BY <1>2, <2>1
<1>7. CASE RecordComment(h)
  <2>1. \E other : Record(other) /\ other.comment = call[h].comment
    BY <1>7 DEF RecordComment
  <2> QED  BY <1>2, <1>7, <2>1 DEF RecordComment
<1> QED  BY <1>3, <1>4, <1>5, <1>6, <1>7 DEF Acts, Step

LEMMA ToldActs ==
  ASSUME AtomicInv, Apart', NEW h \in Handlers, Acts(h)
  PROVE  ToldInv'
<1>1. /\ TypeOK /\ TypeOK' /\ SerialInv /\ SerialInv' /\ ViewInv /\ ToldInv
  BY ActsType, SerialActs DEF AtomicInv, FreshInv
<1>2. /\ born.tickets \in Nat /\ born.comments \in Nat
      /\ born'.tickets \in Nat /\ born'.comments \in Nat
      /\ born.tickets <= born'.tickets /\ born.comments <= born'.comments
  BY <1>1, BornGrows
<1>3. SUFFICES ASSUME NEW t \in Tickets
               PROVE  /\ born'.tickets < t => View'.told[t] = <<>>
                      /\ \A i \in DOMAIN View'.told[t] :
                           View'.told[t][i].type = "TICKET_COMMENT_ADDED" =>
                             View'.told[t][i].comment <= born'.comments
  BY DEF ToldInv
<1>4. /\ born.tickets < t => View.told[t] = <<>>
      /\ \A i \in DOMAIN View.told[t] :
           View.told[t][i].type = "TICKET_COMMENT_ADDED" =>
             /\ View.told[t][i].comment \in Nat
             /\ View.told[t][i].comment <= born.comments
  <2>1. View.told[t] \in Seq(Events)
    BY <1>1, LogTypes
  <2>2. ASSUME NEW i \in DOMAIN View.told[t],
               View.told[t][i].type = "TICKET_COMMENT_ADDED"
        PROVE  View.told[t][i].comment \in Nat
    <3>1. PICK event \in Events : event = View.told[t][i]
      BY <2>1, <2>2, ElementOfSeq, LenProperties
    <3>2. event.comment \in Comments
      BY <2>2, <3>1 DEF Events
    <3> QED  BY <3>1, <3>2, BoundsAssumption DEF Comments
  <2> QED  BY <1>1, <2>2 DEF ToldInv
<1>5. t \in Nat
  BY BoundsAssumption DEF Tickets
<1>6. CASE View'.told[t] = View.told[t]
  <2>1. born'.tickets < t => born.tickets < t
    BY <1>2, <1>5
  <2>2. \A n \in Nat : n <= born.comments => n <= born'.comments
    BY <1>2
  <2> QED  BY <1>4, <1>6, <2>1, <2>2
<1>7. CASE View'.told[t] # View.told[t]
  <2>1. About(h, t)
    <3>1. (Talks(h) /\ call[h].ticket = t) \/ (Talks(h)' /\ call'[h].ticket = t)
      BY <1>1, <1>7, ViewAbout
    <3> QED  BY <1>1, <3>1, ActsAbout DEF About
  <2>2. ~ (born'.tickets < t)
    BY <1>1, <1>2, <1>5, <2>1 DEF About, SerialInv, Bounded
  <2>3. PICK event \in Events : event.ticket = t /\ Record(event)
    <3>1. ~ UNCHANGED events
      BY <1>7, ViewKept
    <3> QED  BY <1>1, <2>1, <3>1, ActsAbout DEF About
  <2>4. View'.told[t] = Append(View.told[t], event)
    BY <1>1, <2>3, SeenEffect
  <2>5. event.type = "TICKET_COMMENT_ADDED" => event.comment <= born'.comments
    <3> SUFFICES ASSUME event.type = "TICKET_COMMENT_ADDED"
                 PROVE  event.comment <= born'.comments
      OBVIOUS
    <3>1. call[h].at = "recordComment" /\ event.comment = call[h].comment
      BY <1>1, <2>3, CommentTold
    <3>2. event.comment <= born.comments /\ event.comment \in Comments
      BY <3>1 DEF AtomicInv, Commented, Events
    <3>3. event.comment \in Nat
      BY <3>2, BoundsAssumption DEF Comments
    <3> QED  BY <1>2, <3>2, <3>3
  <2>6. ASSUME NEW i \in DOMAIN View'.told[t]
        PROVE  \/ i \in DOMAIN View.told[t] /\ View'.told[t][i] = View.told[t][i]
               \/ View'.told[t][i] = event
    <3>1. PICK s \in Seq(Events) : s = View.told[t]
      BY <1>1, LogTypes
    <3> HIDE DEF Events
    <3>2. \A j \in DOMAIN Append(s, event) :
            \/ j \in DOMAIN s /\ Append(s, event)[j] = s[j]
            \/ Append(s, event)[j] = event
      OBVIOUS
    <3> QED  BY <2>4, <2>6, <3>1, <3>2
  <2>7. \A n \in Nat : n <= born.comments => n <= born'.comments
    BY <1>2
  <2> QED  BY <1>4, <2>2, <2>5, <2>6, <2>7
<1> QED  BY <1>6, <1>7

LEMMA AtomicActs ==
  ASSUME AtomicInv, Apart', NEW h \in Handlers, Acts(h)
  PROVE  AtomicInv'
<1>1. /\ FreshInv' /\ SerialInv' /\ ViewInv' /\ ToldInv' /\ TypeOK /\ TypeOK' /\ Apart
  BY ActsType, FreshActs, SerialActs, ViewAbout, ToldActs DEF AtomicInv, FreshInv
<1>2. born.comments \in Nat /\ born'.comments \in Nat /\ born.comments <= born'.comments
  BY <1>1, BornGrows
<1>3. ASSUME NEW g \in Handlers, g # h
      PROVE  Found(g)' /\ Commented(g)'
  <2>1. /\ call'[g] = call[g]
        /\ Talks(g) => ticket'[call[g].ticket] = ticket[call[g].ticket]
    BY <1>1, <1>3, OthersApart
  <2>2. Found(g)'
    BY <2>1 DEF AtomicInv, Found, Talks
  <2>3. Commented(g)'
    <3> SUFFICES ASSUME call[g].at = "recordComment"
                 PROVE  call[g].comment <= born'.comments
      BY <2>1 DEF Commented
    <3>1. call[g].comment \in Nat
      BY <1>1, CallFields, BoundsAssumption DEF TypeOK, Comments
    <3> QED  BY <1>2, <3>1 DEF AtomicInv, Commented
  <2> QED  BY <2>2, <2>3
<1>4. ASSUME call'[h].at \notin {"remove", "recordComment"}
      PROVE  Found(h)' /\ Commented(h)'
  BY <1>4 DEF Found, Commented
<1>5. ASSUME NEW t \in Tickets, CreateComment(h, t)
      PROVE  Found(h)' /\ Commented(h)'
  <2>1. /\ call'[h].at = "recordComment" /\ call'[h].comment = born.comments + 1
        /\ born'.comments = born.comments + 1
    BY <1>1, <1>5 DEF TypeOK, CreateComment, Begin
  <2> QED  BY <1>2, <2>1 DEF Found, Commented
<1>6. ASSUME NEW t \in Tickets, FindForDelete(h, t)
      PROVE  Found(h)' /\ Commented(h)'
  <2>1. call'[h].at = "remove" /\ call'[h].ticket = t /\ ticket'[t] # Null
    BY <1>1, <1>6 DEF TypeOK, FindForDelete, Begin
  <2> QED  BY <2>1 DEF Found, Commented
<1>7. ASSUME \E text \in Texts, plan \in Plans \cup {Null} : CreateTicket(h, text, plan)
      PROVE  Found(h)' /\ Commented(h)'
  BY <1>1, <1>4, <1>7 DEF TypeOK, CreateTicket, Begin
<1>8. ASSUME \/ \E t \in Tickets : \E dto \in Dto : FindForUpdate(h, t, dto)
             \/ \E c \in Comments : FindComment(h, c)
      PROVE  Found(h)' /\ Commented(h)'
  BY <1>1, <1>4, <1>8 DEF TypeOK, FindForUpdate, FindComment, Begin
<1>9. ASSUME SelectForUpdate(h) \/ WriteUpdate(h) \/ RecordUpdated(h)
      PROVE  Found(h)' /\ Commented(h)'
  <2>1. call[h] \in UpdateCalls
    BY <1>1, <1>9, CallFields
       DEF TypeOK, SelectForUpdate, WriteUpdate, RecordUpdated, UpdatePlaces
  <2>2. call'[h].at \in {"write", "recordUpdated", "recordStatusChanged", "idle"}
    BY <1>1, <1>9, <2>1
       DEF TypeOK, SelectForUpdate, WriteUpdate, RecordUpdated, Continue, Return, Idle,
           UpdateCalls
  <2> QED  BY <1>4, <2>2
<1>10. ASSUME RemoveTicket(h)
       PROVE  Found(h)' /\ Commented(h)'
  <2>1. call[h] \in DeleteCalls
    BY <1>1, <1>10, CallFields DEF TypeOK, RemoveTicket
  <2>2. call'[h].at = "recordDeleted"
    BY <1>1, <1>10, <2>1 DEF TypeOK, RemoveTicket, Continue, DeleteCalls
  <2> QED  BY <1>4, <2>2
<1>11. ASSUME \/ WriteConflicts(h) \/ RemoveComment(h) \/ CallFails(h)
              \/ RecordCreated(h) \/ RecordStatusChanged(h) \/ RecordDeleted(h)
              \/ RecordComment(h)
       PROVE  Found(h)' /\ Commented(h)'
  <2>1. call'[h].at = "idle"
    BY <1>1, <1>11
       DEF TypeOK, WriteConflicts, RemoveComment, CallFails, RecordCreated,
           RecordStatusChanged, RecordDeleted, RecordComment, Return, Idle
  <2> QED  BY <1>4, <2>1
<1>12. Found(h)' /\ Commented(h)'
  BY <1>5, <1>6, <1>7, <1>8, <1>9, <1>10, <1>11 DEF Acts, Start, Step
<1> QED  BY <1>1, <1>3, <1>12 DEF AtomicInv

LEMMA AtomicStep ==
  ASSUME AtomicInv, [Next /\ Apart']_vars
  PROVE  AtomicInv'
<1>1. ASSUME NEW h \in Handlers, Acts(h), Apart'
      PROVE  AtomicInv'
  BY <1>1, AtomicActs
<1>2. CASE UNCHANGED vars
  <2>1. FreshInv' /\ SerialInv' /\ ViewInv' /\ View' = View
    BY <1>2, FreshStep, SerialStep, ViewKept DEF AtomicInv, vars
  <2> QED  BY <1>2, <2>1 DEF vars, AtomicInv, Found, Commented, ToldInv
<1> QED  BY <1>1, <1>2 DEF Next, Acts

-----------------------------------------------------------------------------
(* The refinement, step by step.                                           *)

LEMMA AssignIs ==
  ASSUME NEW row, NEW dto
  PROVE  Assign(row, dto) =
           [status |-> IF dto.status = Null THEN row.status ELSE dto.status,
            text   |-> IF dto.text = Null THEN row.text ELSE dto.text,
            plan   |-> IF dto.plan = Null THEN row.plan ELSE dto.plan]
BY DEF Assign, Columns

\* No log tells of a comment that is not created yet.
LEMMA LogComments ==
  ASSUME AtomicInv, NEW u \in Tickets, NEW i \in DOMAIN Log(u),
         Log(u)[i].type = "TICKET_COMMENT_ADDED"
  PROVE  Log(u)[i].comment <= born.comments
<1>1. /\ TypeOK /\ ViewInv /\ LogsAre
      /\ \A j \in DOMAIN View.told[u] :
           View.told[u][j].type = "TICKET_COMMENT_ADDED" =>
             View.told[u][j].comment <= born.comments
  BY LogIs DEF AtomicInv, FreshInv, ToldInv
<1>2. CASE \A h \in Handlers : Talks(h) => call[h].ticket # u
  <2>1. Log(u) = View.told[u]
    BY <1>1, <1>2 DEF LogsAre
  <2> QED  BY <1>1, <2>1
<1>3. ASSUME NEW h \in Handlers, Talks(h), call[h].ticket = u
      PROVE  Log(u)[i].comment <= born.comments
  <2>1. Log(u) = View.told[u] \o Owed(call[h])
    BY <1>1, <1>3 DEF LogsAre
  <2>2. PICK s \in Seq(Events), rest \in Seq(Events) :
          s = View.told[u] /\ rest = Owed(call[h])
    BY <1>1 DEF LogsAre
  <2>3. CASE i \in DOMAIN s /\ (s \o rest)[i] = s[i]
    <3>1. Log(u)[i] = View.told[u][i] /\ i \in DOMAIN View.told[u]
      BY <2>1, <2>2, <2>3
    <3> QED  BY <1>1, <3>1
  <2>4. ASSUME NEW j \in DOMAIN rest, (s \o rest)[i] = rest[j]
        PROVE  Log(u)[i].comment <= born.comments
    <3>1. Log(u)[i] = Owed(call[h])[j] /\ j \in DOMAIN Owed(call[h])
      BY <2>1, <2>2, <2>4
    <3>2. call[h].at = "recordComment" /\ Log(u)[i].comment = call[h].comment
      BY <3>1, OwedEffect
    <3> QED  BY <3>2 DEF AtomicInv, Commented
  <2>5. \/ i \in DOMAIN s /\ (s \o rest)[i] = s[i]
        \/ \E j \in DOMAIN rest : (s \o rest)[i] = rest[j]
    <3>1. i \in DOMAIN (s \o rest)
      BY <2>1, <2>2
    <3> HIDE DEF Events
    <3>2. /\ s \o rest \in Seq(Events) /\ Len(s \o rest) = Len(s) + Len(rest)
          /\ \A k \in 1..Len(s) : (s \o rest)[k] = s[k]
          /\ \A k \in 1..Len(rest) : (s \o rest)[Len(s) + k] = rest[k]
      BY ConcatProperties
    <3>3. /\ Len(s) \in Nat /\ Len(rest) \in Nat
          /\ DOMAIN s = 1..Len(s) /\ DOMAIN rest = 1..Len(rest)
          /\ DOMAIN (s \o rest) = 1..Len(s \o rest)
      BY <3>2, LenProperties
    <3> QED
      <4>1. CASE i \in 1..Len(s)
        BY <3>2, <3>3, <4>1
      <4>2. CASE i \notin 1..Len(s)
        <5>1. i \in 1..(Len(s) + Len(rest))
          BY <3>1, <3>2, <3>3
        <5>2. i - Len(s) \in 1..Len(rest) /\ i = Len(s) + (i - Len(s))
          BY <3>3, <4>2, <5>1
        <5> QED  BY <3>2, <3>3, <5>2
      <4> QED  BY <4>1, <4>2
  <2> QED  BY <2>3, <2>4, <2>5
<1> QED  BY <1>2, <1>3

\* Each step of a call is one of the abstract service, or none.
LEMMA RefinementActs ==
  ASSUME AtomicInv, Apart', NEW h \in Handlers, Acts(h)
  PROVE  [A!Next]_(A!vars)
<1>1. /\ TypeOK /\ TypeOK' /\ FreshInv /\ SerialInv /\ ViewInv /\ Apart
      /\ ToldInv
  BY ActsType DEF AtomicInv, FreshInv
<1>2. born.tickets \in Nat /\ born.comments \in Nat
  BY <1>1, BoundsAssumption DEF TypeOK
<1>3. ASSUME Logs' = Logs, UNCHANGED <<ticket, faults>>
      PROVE  [A!Next]_(A!vars)
  BY <1>3 DEF A!vars, Logs
\* Steps that have nothing to do with a ticket.
<1>4. ASSUME ~ Talks(h), ~ Talks(h)', UNCHANGED <<ticket, faults>>
      PROVE  [A!Next]_(A!vars)
  BY <1>1, <1>3, <1>4, LogsAbout
\* Steps of a call about a ticket that owes nothing and goes on to owe nothing.
<1>5. ASSUME NEW t \in Tickets, About(h, t),
             Owed(call[h]) = <<>>, Owed(call'[h]) = <<>>,
             UNCHANGED <<events, ticket, faults>>
      PROVE  [A!Next]_(A!vars)
  <2>1. Logs' = [Logs EXCEPT ![t] = @ \o Owed(call'[h])] /\ Logs[t] = View.told[t]
    BY <1>1, <1>5, LogTold
  <2>2. Logs[t] \o <<>> = Logs[t]
    BY <1>1, <2>1, LogTypes, ConcatEmptySeq
  <2>3. Logs' = Logs
    BY <1>5, <2>1, <2>2 DEF Logs
  <2> QED  BY <1>3, <1>5, <2>3
<1>6. ASSUME NEW text \in Texts, NEW plan \in Plans \cup {Null},
             CreateTicket(h, text, plan)
      PROVE  [A!Next]_(A!vars)
  <2>1. PICK t \in Tickets : t = born.tickets + 1
    BY <1>1, <1>2, <1>6, BoundsAssumption DEF TypeOK, CreateTicket, Tickets
  <2>2. /\ call[h] = Idle /\ UNCHANGED <<events, faults>>
        /\ call'[h] = [at |-> "recordCreated", ticket |-> t, text |-> text]
        /\ ticket' = [ticket EXCEPT ![t] =
                          [status |-> Todo, text |-> text, plan |-> plan]]
    BY <1>1, <1>6, <2>1 DEF TypeOK, CreateTicket, Begin
  <2>3. ticket[t] = Null /\ View.told[t] = <<>>
    BY <1>1, <1>2, <2>1 DEF SerialInv, Bounded, ToldInv
  <2>4. About(h, t) /\ Owed(call[h]) = <<>>
    BY <2>2, OwedEffect DEF About, Talks, Idle
  <2> DEFINE created == [type |-> "TICKET_CREATED", ticket |-> t,
                         status |-> Todo, text |-> text]
  <2>5. Owed(call'[h]) = <<created>>
    BY <2>2, OwedEffect
  <2>6. Logs[t] = <<>> /\ Logs' = [Logs EXCEPT ![t] = @ \o <<created>>]
    BY <1>1, <2>2, <2>3, <2>4, <2>5, LogTold
  <2>7. A!Create(t, text, plan)
    BY <2>2, <2>3, <2>6, Zenon DEF A!Create, A!Tell, Logs
  <2> QED  BY <2>7 DEF A!Next
<1>7. ASSUME WriteUpdate(h)
      PROVE  [A!Next]_(A!vars)
  <2>1. /\ call[h] \in UpdateCalls /\ call[h].at = "write"
        /\ ticket[call[h].ticket] \in Row
        /\ ticket' = [ticket EXCEPT ![call[h].ticket] = Assign(@, call[h].dto)]
        /\ call[h].oldStatus = ticket[call[h].ticket].status
    BY <1>1, <1>7, FreshWrite
  <2>2. PICK t \in Tickets, dto \in Dto : t = call[h].ticket /\ dto = call[h].dto
    BY <2>1 DEF UpdateCalls
  <2>3. /\ call'[h].at = "recordUpdated" /\ call'[h].ticket = t
        /\ call'[h].dto = dto /\ call'[h].oldStatus = ticket[t].status
        /\ UNCHANGED <<events, faults>>
    BY <1>1, <1>7, <2>1, <2>2 DEF TypeOK, WriteUpdate, Continue, UpdateCalls
  <2>4. About(h, t) /\ Owed(call[h]) = <<>>
    BY <2>1, <2>2, <2>3, OwedEffect DEF About, Talks
  <2> DEFINE updated == [type |-> "TICKET_UPDATED", ticket |-> t,
                         status |-> dto.status, text |-> dto.text,
                         plan |-> dto.plan]
             changed == [type |-> "TICKET_STATUS_CHANGED", ticket |-> t,
                         oldStatus |-> ticket[t].status, newStatus |-> dto.status]
             told == IF dto.status \in {Null, ticket[t].status} THEN <<updated>>
                     ELSE <<updated, changed>>
  <2>5. Owed(call'[h]) = told
    BY <2>3, OwedEffect
  <2>6. Logs' = [Logs EXCEPT ![t] = @ \o told]
    <3> HIDE DEF told
    <3> QED  BY <1>1, <2>3, <2>4, <2>5, LogTold
  <2>7. ticket[t] # Null
    BY <2>1, <2>2, NoRowAssumption
  <2>8. ticket' = [ticket EXCEPT ![t] =
                     [status |-> IF dto.status = Null THEN @.status ELSE dto.status,
                      text |-> IF dto.text = Null THEN @.text ELSE dto.text,
                      plan |-> IF dto.plan = Null THEN @.plan ELSE dto.plan]]
    BY <2>1, <2>2, AssignIs, Zenon
  <2>9. A!Update(t, dto)
    BY <2>3, <2>6, <2>7, <2>8, Zenon DEF A!Update, A!Tell, Logs
  <2>10. dto \in A!Dto
    BY DEF A!Dto, Dto
  <2> QED  BY <2>9, <2>10 DEF A!Next
<1>8. ASSUME RemoveTicket(h)
      PROVE  [A!Next]_(A!vars)
  <2>1. call[h] \in DeleteCalls /\ call[h].at = "remove"
    BY <1>1, <1>8, CallFields DEF TypeOK, RemoveTicket
  <2>2. PICK t \in Tickets : t = call[h].ticket
    BY <2>1 DEF DeleteCalls
  <2>3. /\ call'[h].at = "recordDeleted" /\ call'[h].ticket = t
        /\ ticket' = [ticket EXCEPT ![t] = Null] /\ UNCHANGED <<events, faults>>
    BY <1>1, <1>8, <2>1, <2>2 DEF TypeOK, RemoveTicket, Continue, DeleteCalls
  <2>4. About(h, t) /\ Owed(call[h]) = <<>>
    BY <2>1, <2>2, <2>3, OwedEffect DEF About, Talks
  <2> DEFINE deleted == [type |-> "TICKET_DELETED", ticket |-> t]
  <2>5. Owed(call'[h]) = <<deleted>>
    BY <2>3, OwedEffect
  <2>6. Logs' = [Logs EXCEPT ![t] = @ \o <<deleted>>]
    BY <1>1, <2>3, <2>4, <2>5, LogTold
  <2>7. ticket[t] # Null
    BY <2>1, <2>2 DEF AtomicInv, Found
  <2>8. A!Delete(t)
    BY <2>3, <2>6, <2>7, Zenon DEF A!Delete, A!Tell, Logs
  <2> QED  BY <2>8 DEF A!Next
<1>9. ASSUME NEW t \in Tickets, CreateComment(h, t)
      PROVE  [A!Next]_(A!vars)
  <2>1. PICK c \in Comments : c = born.comments + 1
    BY <1>1, <1>2, <1>9, BoundsAssumption DEF TypeOK, CreateComment, Comments
  <2>2. /\ call[h] = Idle /\ UNCHANGED <<events, ticket, faults>> /\ ticket[t] # Null
        /\ call'[h] = [at |-> "recordComment", ticket |-> t, comment |-> c]
    BY <1>1, <1>9, <2>1 DEF TypeOK, CreateComment, Begin
  <2>3. \A u \in Tickets : \A i \in DOMAIN Logs[u] :
          Logs[u][i].type = "TICKET_COMMENT_ADDED" => Logs[u][i].comment # c
    BY <1>2, <2>1, LogComments DEF Logs
  <2>4. About(h, t) /\ Owed(call[h]) = <<>>
    BY <2>2, OwedEffect DEF About, Talks, Idle
  <2> DEFINE commented == [type |-> "TICKET_COMMENT_ADDED", ticket |-> t,
                           comment |-> c]
  <2>5. Owed(call'[h]) = <<commented>>
    BY <2>2, OwedEffect
  <2>6. Logs' = [Logs EXCEPT ![t] = @ \o <<commented>>]
    BY <1>1, <2>2, <2>4, <2>5, LogTold
  <2>7. A!Comment(t, c)
    BY <2>2, <2>3, <2>6, Zenon DEF A!Comment, A!Tell, Logs
  <2> QED  BY <2>7 DEF A!Next
<1>10. ASSUME CallFails(h)
       PROVE  [A!Next]_(A!vars)
  <2>1. /\ call'[h] = Idle /\ UNCHANGED <<events, ticket>> /\ faults' = faults + 1
    BY <1>1, <1>10 DEF TypeOK, CallFails, Return
  <2>2. Owed(call'[h]) = <<>> /\ ~ Talks(h)'
    BY <2>1, OwedEffect DEF Talks, Idle
  <2>3. \/ Logs' = Logs
        \/ \E t \in Tickets : \E n \in 0..2 :
             /\ n <= Len(Logs[t])
             /\ Logs' = [Logs EXCEPT ![t] = SubSeq(@, 1, Len(@) - n)]
    <3>1. CASE ~ Talks(h)
      BY <1>1, <2>2, <3>1, LogsAbout
    <3>2. CASE Talks(h)
      <4>1. PICK t \in Tickets : t = call[h].ticket
        BY <1>1, <3>2, TalksType
      <4>2. About(h, t)
        BY <2>2, <3>2, <4>1 DEF About
      <4> QED  BY <1>1, <2>1, <2>2, <4>2, LogCut
    <3> QED  BY <3>1, <3>2
  <2>4. A!Fault
    BY <2>1, <2>3, Zenon DEF A!Fault, Logs
  <2> QED  BY <2>4 DEF A!Next
<1>11. ASSUME NEW t \in Tickets,
              (\E dto \in Dto : FindForUpdate(h, t, dto)) \/ FindForDelete(h, t)
       PROVE  [A!Next]_(A!vars)
  <2>1. /\ call[h] = Idle /\ UNCHANGED <<events, ticket, faults>>
        /\ call'[h].at \in {"select", "remove"} /\ call'[h].ticket = t
    BY <1>1, <1>11 DEF TypeOK, FindForUpdate, FindForDelete, Begin
  <2>2. About(h, t)
    BY <2>1 DEF About, Talks, Idle
  <2>3. Owed(call[h]) = <<>> /\ Owed(call'[h]) = <<>>
    BY <2>1, OwedEffect DEF Idle
  <2> QED  BY <1>5, <2>1, <2>2, <2>3
<1>12. ASSUME (\E c \in Comments : FindComment(h, c)) \/ RemoveComment(h)
       PROVE  [A!Next]_(A!vars)
  <2>1. /\ call[h].at \in {"idle", "removeComment"}
        /\ call'[h].at \in {"idle", "removeComment"}
        /\ UNCHANGED <<ticket, faults>>
    BY <1>1, <1>12 DEF TypeOK, FindComment, RemoveComment, Begin, Return, Idle
  <2> QED  BY <1>4, <2>1 DEF Talks
<1>13. ASSUME SelectForUpdate(h) \/ WriteConflicts(h)
       PROVE  [A!Next]_(A!vars)
  <2>1. call[h] \in UpdateCalls /\ call[h].at \in {"select", "write"}
    BY <1>1, <1>13, CallFields
       DEF TypeOK, SelectForUpdate, WriteConflicts, UpdatePlaces
  <2>2. /\ UNCHANGED <<events, ticket, faults>>
        /\ call'[h].at \in {"write", "idle"}
        /\ call'[h].at = "write" => call'[h].ticket = call[h].ticket
    BY <1>1, <1>13, <2>1
       DEF TypeOK, SelectForUpdate, WriteConflicts, Return, Idle, UpdateCalls
  <2>3. PICK t \in Tickets : t = call[h].ticket
    BY <2>1 DEF UpdateCalls
  <2>4. About(h, t)
    BY <2>1, <2>2, <2>3 DEF About, Talks
  <2>5. Owed(call[h]) = <<>> /\ Owed(call'[h]) = <<>>
    BY <2>1, <2>2, OwedEffect
  <2> QED  BY <1>5, <2>2, <2>4, <2>5
\* A step that records the only event that is owed.
<1>14. ASSUME NEW event \in Events, event.ticket = call[h].ticket, Talks(h),
              Record(event), Owed(call[h]) = <<event>>, call'[h] = Idle,
              UNCHANGED <<ticket, faults>>
       PROVE  [A!Next]_(A!vars)
  <2>1. Owed(call'[h]) = <<>> /\ ~ Talks(h)'
    BY <1>14, OwedEffect DEF Idle, Talks
  <2>2. <<event>> \o <<>> = <<event>>
    BY OneOrTwo, ConcatEmptySeq
  <2>3. Logs' = Logs
    BY <1>1, <1>14, <2>1, <2>2, LogRecord
  <2> QED  BY <1>3, <1>14, <2>3
<1>15. ASSUME RecordCreated(h)
       PROVE  [A!Next]_(A!vars)
  <2> DEFINE event == [type |-> "TICKET_CREATED", ticket |-> call[h].ticket,
                       status |-> Todo, text |-> call[h].text]
  <2>1. /\ event \in Events /\ Owed(call[h]) = <<event>> /\ Talks(h)
        /\ event.ticket = call[h].ticket
    BY <1>1, <1>15, EventType, OwedEffect DEF RecordCreated, Talks
  <2>2. Record(event) /\ UNCHANGED <<ticket, faults>> /\ call'[h] = Idle
    BY <1>1, <1>15 DEF TypeOK, RecordCreated, Return
  <2> HIDE DEF event
  <2> QED  BY <1>14, <2>1, <2>2
<1>16. ASSUME RecordDeleted(h)
       PROVE  [A!Next]_(A!vars)
  <2> DEFINE event == [type |-> "TICKET_DELETED", ticket |-> call[h].ticket]
  <2>1. /\ event \in Events /\ Owed(call[h]) = <<event>> /\ Talks(h)
        /\ event.ticket = call[h].ticket
    BY <1>1, <1>16, EventType, OwedEffect DEF RecordDeleted, Talks
  <2>2. Record(event) /\ UNCHANGED <<ticket, faults>> /\ call'[h] = Idle
    BY <1>1, <1>16 DEF TypeOK, RecordDeleted, Return
  <2> HIDE DEF event
  <2> QED  BY <1>14, <2>1, <2>2
<1>17. ASSUME RecordComment(h)
       PROVE  [A!Next]_(A!vars)
  <2> DEFINE event == [type |-> "TICKET_COMMENT_ADDED", ticket |-> call[h].ticket,
                       comment |-> call[h].comment]
  <2>1. /\ event \in Events /\ Owed(call[h]) = <<event>> /\ Talks(h)
        /\ event.ticket = call[h].ticket
    BY <1>1, <1>17, EventType, OwedEffect DEF RecordComment, Talks
  <2>2. Record(event) /\ UNCHANGED <<ticket, faults>> /\ call'[h] = Idle
    BY <1>1, <1>17 DEF TypeOK, RecordComment, Return
  <2> HIDE DEF event
  <2> QED  BY <1>14, <2>1, <2>2
<1>18. ASSUME RecordStatusChanged(h)
       PROVE  [A!Next]_(A!vars)
  <2> DEFINE event == [type |-> "TICKET_STATUS_CHANGED", ticket |-> call[h].ticket,
                       oldStatus |-> call[h].oldStatus,
                       newStatus |-> call[h].dto.status]
  <2>1. /\ event \in Events /\ Owed(call[h]) = <<event>> /\ Talks(h)
        /\ event.ticket = call[h].ticket
    BY <1>1, <1>18, EventType, OwedEffect DEF RecordStatusChanged, Talks
  <2>2. Record(event) /\ UNCHANGED <<ticket, faults>> /\ call'[h] = Idle
    BY <1>1, <1>18 DEF TypeOK, RecordStatusChanged, Return
  <2> HIDE DEF event
  <2> QED  BY <1>14, <2>1, <2>2
<1>19. ASSUME RecordUpdated(h)
       PROVE  [A!Next]_(A!vars)
  <2> DEFINE updated == [type |-> "TICKET_UPDATED", ticket |-> call[h].ticket,
                         status |-> call[h].dto.status, text |-> call[h].dto.text,
                         plan |-> call[h].dto.plan]
             changed == [type |-> "TICKET_STATUS_CHANGED",
                         ticket |-> call[h].ticket,
                         oldStatus |-> call[h].oldStatus,
                         newStatus |-> call[h].dto.status]
  <2>1. /\ call[h] \in UpdateCalls /\ call[h].at = "recordUpdated"
        /\ updated \in Events /\ updated.ticket = call[h].ticket /\ Talks(h)
    BY <1>1, <1>19, CallFields, EventType DEF TypeOK, RecordUpdated, UpdatePlaces, Talks
  <2>2. Record(updated) /\ UNCHANGED <<ticket, faults>>
    BY <1>19 DEF RecordUpdated
  <2>3. Owed(call[h]) =
          IF call[h].dto.status \in {Null, call[h].oldStatus} THEN <<updated>>
          ELSE <<updated, changed>>
    BY <2>1, OwedEffect
  <2>4. CASE call[h].dto.status \in {Null, call[h].oldStatus}
    <3>1. call'[h] = Idle
      BY <1>1, <1>19, <2>4 DEF TypeOK, RecordUpdated, Return
    <3> HIDE DEF updated, changed
    <3> QED  BY <1>14, <2>1, <2>2, <2>3, <2>4, <3>1
  <2>5. CASE call[h].dto.status \notin {Null, call[h].oldStatus}
    <3>1. /\ call'[h].at = "recordStatusChanged" /\ call'[h].ticket = call[h].ticket
          /\ call'[h].oldStatus = call[h].oldStatus /\ call'[h].dto = call[h].dto
      BY <1>1, <1>19, <2>1, <2>5 DEF TypeOK, RecordUpdated, Continue, UpdateCalls
    <3>2. Owed(call'[h]) = <<changed>>
      BY <3>1, OwedEffect
    <3>3. <<updated>> \o <<changed>> = <<updated, changed>>
      <4>1. changed \in Events
        BY <2>1, <2>5 DEF UpdateCalls, Dto, Events
      <4> HIDE DEF updated, changed
      <4> QED  BY <2>1, <4>1, OneOrTwo
    <3> HIDE DEF updated, changed
    <3>4. Logs' = Logs
      BY <1>1, <2>1, <2>2, <2>3, <2>5, <3>1, <3>2, <3>3, LogRecord
    <3> QED  BY <1>3, <2>2, <3>4
  <2> QED  BY <2>4, <2>5
<1> QED
  BY <1>6, <1>7, <1>8, <1>9, <1>10, <1>11, <1>12, <1>13, <1>15, <1>16, <1>17,
     <1>18, <1>19 DEF Acts, Start, Step

LEMMA RefinementStep ==
  ASSUME AtomicInv, [Next /\ Apart']_vars
  PROVE  [A!Next]_(A!vars)
<1>1. ASSUME NEW h \in Handlers, Acts(h), Apart'
      PROVE  [A!Next]_(A!vars)
  BY <1>1, RefinementActs
<1>2. CASE UNCHANGED vars
  <2>1. View' = View
    BY <1>2, ViewKept DEF vars
  <2>2. \A t : Log(t)' = Log(t)
    BY <1>2, <2>1 DEF vars, Log, Talks
  <2> QED  BY <1>2, <2>2 DEF vars, A!vars
<1> QED  BY <1>1, <1>2 DEF Next, Acts

LEMMA RefinementInit == Init => AtomicInv /\ A!Init
<1> SUFFICES ASSUME Init PROVE AtomicInv /\ A!Init
  OBVIOUS
<1>1. FreshInv /\ SerialInv /\ ViewInv /\ \A t \in Tickets : View.told[t] = <<>>
  BY FreshInit, SerialInit, ViewInit DEF NothingSeen
<1>2. \A h \in Handlers : call[h].at = "idle"
  BY DEF Init, Idle
<1>3. AtomicInv
  BY <1>1, <1>2 DEF AtomicInv, Found, Commented, ToldInv
<1>4. \A t \in Tickets : Log(t) = <<>>
  BY <1>1, <1>2, LogIs DEF LogsAre, Talks, FreshInv
<1> QED  BY <1>3, <1>4 DEF Init, A!Init

\* Calls about one ticket apart, any number of handlers, whatever fails: the service
\* behaves as if a change and the events that tell of it were saved in one step, but
\* that a fault takes the last events of its ticket away.
THEOREM Refinement == ApartSpec => ImplementsAtomicTickets
BY RefinementInit, AtomicStep, RefinementStep, PTL
   DEF ApartSpec, ImplementsAtomicTickets, A!Spec
=============================================================================
