--------------------------- MODULE AtomicTickets ----------------------------
(***************************************************************************)
(* What the outbox pattern promises of the ticket service: a change of the *)
(* data and the events that tell of it are saved together.  Only a fault   *)
(* parts them: it takes the last events away and leaves the change.        *)
(***************************************************************************)
EXTENDS Naturals, Sequences

CONSTANTS Tickets, Comments, Statuses, Texts, Plans, Todo, Null

VARIABLES
  table,    \* the row of each ticket, Null when there is none
  log,      \* the events about each ticket, in their order
  faults    \* calls that ended in an error or a crash

vars == <<table, log, faults>>

Dto ==
  [status: Statuses \cup {Null}, text: Texts \cup {Null}, plan: Plans \cup {Null}]

Init ==
  /\ table = [t \in Tickets |-> Null]
  /\ log = [t \in Tickets |-> <<>>]
  /\ faults = 0

Tell(t, events) == UNCHANGED faults /\ log' = [log EXCEPT ![t] = @ \o events]

\* What is told of a new ticket leaves its plan out.
Create(t, text, plan) ==
  /\ table[t] = Null
  /\ table' = [table EXCEPT ![t] = [status |-> Todo, text |-> text, plan |-> plan]]
  /\ log[t] = <<>>
  /\ Tell(t, <<[type |-> "TICKET_CREATED", ticket |-> t, status |-> Todo,
                text |-> text]>>)

\* The columns that were asked for change, and the new status is told with the
\* one it replaces.
Update(t, dto) ==
  LET updated == [type |-> "TICKET_UPDATED", ticket |-> t, status |-> dto.status,
                  text |-> dto.text, plan |-> dto.plan]
      changed == [type |-> "TICKET_STATUS_CHANGED", ticket |-> t,
                  oldStatus |-> table[t].status, newStatus |-> dto.status]
  IN
  /\ table[t] # Null
  /\ table' = [table EXCEPT ![t] =
                 [status |-> IF dto.status = Null THEN @.status ELSE dto.status,
                  text |-> IF dto.text = Null THEN @.text ELSE dto.text,
                  plan |-> IF dto.plan = Null THEN @.plan ELSE dto.plan]]
  /\ Tell(t, IF dto.status \in {Null, table[t].status} THEN <<updated>>
             ELSE <<updated, changed>>)

Delete(t) ==
  /\ table[t] # Null
  /\ table' = [table EXCEPT ![t] = Null]
  /\ Tell(t, <<[type |-> "TICKET_DELETED", ticket |-> t]>>)

\* A comment is on a ticket there is, and told once.
Comment(t, c) ==
  /\ table[t] # Null
  /\ UNCHANGED table
  /\ Tell(t, <<[type |-> "TICKET_COMMENT_ADDED", ticket |-> t, comment |-> c]>>)
  /\ \A u \in Tickets : \A i \in DOMAIN log[u] :
       log[u][i].type = "TICKET_COMMENT_ADDED" => log[u][i].comment # c

\* A fault takes at most the two events of one update away.
Fault ==
  /\ faults' = faults + 1
  /\ \/ UNCHANGED log
     \/ \E t \in Tickets : \E n \in 0..2 :
          /\ n <= Len(log[t])
          /\ log' = [log EXCEPT ![t] = SubSeq(@, 1, Len(@) - n)]
  /\ UNCHANGED table

Next ==
  \/ \E t \in Tickets :
       \/ \E text \in Texts, plan \in Plans \cup {Null} : Create(t, text, plan)
       \/ \E dto \in Dto : Update(t, dto)
       \/ Delete(t)
       \/ \E c \in Comments : Comment(t, c)
  \/ Fault

Spec == Init /\ [][Next]_vars
=============================================================================
