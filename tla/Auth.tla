--------------------------------- MODULE Auth ---------------------------------
(***************************************************************************)
(* The auth service: register, login, refreshToken and logout as chains of *)
(* awaited statements of concurrent calls on the table users.              *)
(*                                                                         *)
(* The service keeps one refresh token for each user, as a bcrypt hash.    *)
(* bcrypt reads 72 bytes.  The first 72 of a token are its header and the  *)
(* beginning of its payload, up to the 15th character of the user's id:    *)
(* they differ between users and not between the tokens of one user.  So   *)
(* what the service keeps, and what its comparison tells apart, is whose   *)
(* token it is (HashOf).                                                   *)
(*                                                                         *)
(* Calls that end in 401, 404 or 409 after their queries change nothing    *)
(* and are not steps.  No operation changes users.status, and lastLogin    *)
(* decides nothing.                                                        *)
(***************************************************************************)
EXTENDS Naturals, Sequences, FiniteSets

CONSTANTS
  Handlers,   \* calls in progress at the same time
  Emails,     \* e-mail addresses people register with
  Null,       \* SQL NULL, the row not there
  MaxUsers,   \* bound: rows inserted; they are numbered in that order
  MaxCalls,   \* bound: calls that get past their queries
  MaxFaults   \* bound: calls that end in an unrelated error or a crash

ASSUME BoundsAssumption ==
  MaxUsers \in Nat /\ MaxCalls \in Nat /\ MaxFaults \in Nat

VARIABLES
  user,       \* the table: Null, or e-mail and hashed refresh token of the row
  events,     \* the USER_REGISTERED rows of the outbox, in order of commit
  holders,    \* the users who were answered with tokens
  call,       \* what each handler is executing
  loggedOut,  \* history: users whose last logout met no other call of theirs
              \* and who have not begun to log in since
  calls,      \* counts calls against MaxCalls
  faults      \* counts faults against MaxFaults

vars == <<user, events, holders, call, loggedOut, calls, faults>>

Users == 1..MaxUsers
HashOf(u) == u
Row == [email: Emails, refreshToken: {HashOf(u) : u \in Users} \cup {Null}]
Idle == [at |-> "idle"]

ASSUME NullAssumption == Null \notin Nat \cup Emails /\ Null \notin Row

-----------------------------------------------------------------------------
HasEmail(u, email) == user[u] # Null /\ user[u].email = email

\* The calls in progress on an account.
On(u) == {h \in Handlers :
            call[h].at \in {"recordRegistered", "storeToken"} /\ call[h].user = u}

Begin(h, activity) ==
  /\ calls < MaxCalls
  /\ calls' = calls + 1
  /\ call[h] = Idle
  /\ call' = [call EXCEPT ![h] = activity]

Return(h) == call' = [call EXCEPT ![h] = Idle]

(* register: UsersService.create looks for the e-mail, hashes the password *)
(* and inserts; then the event, then the tokens.                           *)

FindForRegister(h, email) ==
  /\ \A u \in Users : ~ HasEmail(u, email)
  /\ Begin(h, [at |-> "insert", email |-> email])
  /\ UNCHANGED <<user, events, holders, loggedOut, faults>>

\* Mutants of InsertUser: the column email has no unique index, the refresh
\* token has a default, or the event is forgotten.
InsertAnyUser(h, u) ==
  /\ call[h].at = "insert"
  /\ user[u] = Null /\ \A v \in 1..(u - 1) : user[v] # Null
  /\ user' = [user EXCEPT ![u] = [email |-> call[h].email, refreshToken |-> Null]]
  /\ call' = [call EXCEPT ![h] = [at |-> "recordRegistered", user |-> u]]
  /\ UNCHANGED <<events, holders, loggedOut, calls, faults>>
InsertWithDefault(h, u) ==
  /\ call[h].at = "insert"
  /\ \A v \in Users : ~ HasEmail(v, call[h].email)
  /\ user[u] = Null /\ \A v \in 1..(u - 1) : user[v] # Null
  /\ user' = [user EXCEPT ![u] = [email |-> call[h].email, refreshToken |-> 0]]
  /\ call' = [call EXCEPT ![h] = [at |-> "recordRegistered", user |-> u]]
  /\ UNCHANGED <<events, holders, loggedOut, calls, faults>>

InsertUnrecorded(h, u) ==
  /\ call[h].at = "insert"
  /\ \A v \in Users : ~ HasEmail(v, call[h].email)
  /\ user[u] = Null /\ \A v \in 1..(u - 1) : user[v] # Null
  /\ user' = [user EXCEPT ![u] = [email |-> call[h].email, refreshToken |-> Null]]
  /\ call' = [call EXCEPT ![h] = [at |-> "storeToken", user |-> u]]
  /\ UNCHANGED <<events, holders, loggedOut, calls, faults>>

\* The row gets the next number.
InsertUser(h, u) ==
  /\ call[h].at = "insert"
  /\ \A v \in Users : ~ HasEmail(v, call[h].email)
  /\ user[u] = Null /\ \A v \in 1..(u - 1) : user[v] # Null
  /\ user' = [user EXCEPT ![u] = [email |-> call[h].email, refreshToken |-> Null]]
  /\ call' = [call EXCEPT ![h] = [at |-> "recordRegistered", user |-> u]]
  /\ UNCHANGED <<events, holders, loggedOut, calls, faults>>

\* The unique index on email refuses the INSERT: the call ends in an error.
InsertRefused(h) ==
  /\ call[h].at = "insert"
  /\ \E v \in Users : HasEmail(v, call[h].email)
  /\ Return(h)
  /\ UNCHANGED <<user, events, holders, loggedOut, calls, faults>>

RecordRegistered(h) ==
  /\ call[h].at = "recordRegistered"
  /\ events' = Append(events, [user |-> call[h].user,
                               email |-> user[call[h].user].email])
  /\ call' = [call EXCEPT ![h].at = "storeToken"]
  /\ UNCHANGED <<user, holders, loggedOut, calls, faults>>

(* login: the user is found by e-mail and the password is right; lastLogin *)
(* is updated; then the tokens.                                            *)

FindForLogin(h, u) ==
  /\ user[u] # Null
  /\ Begin(h, [at |-> "storeToken", user |-> u])
  /\ loggedOut' = loggedOut \ {u}
  /\ UNCHANGED <<user, events, holders, faults>>

(* refreshToken: the token is verified and its user found; the user must   *)
(* have a stored token and the comparison with it succeed; then the tokens.*)

\* Mutant of FindForRefresh: the stored token is not looked at.
FindUnchecked(h, u) ==
  /\ u \in holders
  /\ Begin(h, [at |-> "storeToken", user |-> u])
  /\ UNCHANGED <<user, events, holders, loggedOut, faults>>

FindForRefresh(h, u) ==
  /\ u \in holders
  /\ user[u].refreshToken = HashOf(u)
  /\ Begin(h, [at |-> "storeToken", user |-> u])
  /\ UNCHANGED <<user, events, holders, loggedOut, faults>>

(* generateAuthResponse: the new refresh token is stored and answered.     *)

StoreToken(h) ==
  /\ call[h].at = "storeToken"
  /\ user' = [user EXCEPT ![call[h].user].refreshToken = HashOf(call[h].user)]
  /\ holders' = holders \cup {call[h].user}
  /\ Return(h)
  /\ UNCHANGED <<events, loggedOut, calls, faults>>

(* logout: one UPDATE.                                                     *)

Logout(h, u) ==
  /\ u \in holders
  /\ call[h] = Idle
  /\ calls < MaxCalls
  /\ calls' = calls + 1
  /\ user' = [user EXCEPT ![u].refreshToken = Null]
  /\ loggedOut' = IF On(u) = {} THEN loggedOut \cup {u} ELSE loggedOut \ {u}
  /\ UNCHANGED <<events, holders, call, faults>>

\* A statement is refused, or the process ends: the call does nothing more.
CallFails(h) ==
  /\ call[h] # Idle
  /\ faults < MaxFaults
  /\ faults' = faults + 1
  /\ Return(h)
  /\ UNCHANGED <<user, events, holders, loggedOut, calls>>

-----------------------------------------------------------------------------
Init ==
  /\ user = [u \in Users |-> Null]
  /\ events = <<>>
  /\ holders = {}
  /\ call = [h \in Handlers |-> Idle]
  /\ loggedOut = {}
  /\ calls = 0
  /\ faults = 0

Register(h) ==
  \/ \E email \in Emails : FindForRegister(h, email)
  \/ \E u \in Users : InsertUser(h, u)
  \/ InsertRefused(h)
  \/ RecordRegistered(h)

Next ==
  \E h \in Handlers :
    \/ Register(h)
    \/ \E u \in Users : FindForLogin(h, u) \/ FindForRefresh(h, u) \/ Logout(h, u)
    \/ StoreToken(h)
    \/ CallFails(h)

Spec == Init /\ [][Next]_vars

-----------------------------------------------------------------------------
(* Type invariant.                                                         *)

Calls ==
  {Idle}
  \cup [at: {"insert"}, email: Emails]
  \cup [at: {"recordRegistered", "storeToken"}, user: Users]

TypeOK ==
  /\ user \in [Users -> Row \cup {Null}]
  /\ events \in Seq([user: Users, email: Emails])
  /\ holders \subseteq Users
  /\ call \in [Handlers -> Calls]
  /\ \A h \in Handlers : call[h].at \in {"recordRegistered", "storeToken"}
                           => user[call[h].user] # Null
  /\ \A u \in holders : user[u] # Null
  /\ loggedOut \subseteq holders
  /\ calls \in Nat
  /\ faults \in Nat

Quiet == \A h \in Handlers : call[h] = Idle

\* However registrations with one e-mail overlap and fail, at most one of
\* them is announced, and it is the account the service has; without faults
\* every account of a quiet service is announced.
RegistrationIsAnnounced ==
  /\ \A i, j \in DOMAIN events :
       events[i].email = events[j].email => i = j
  /\ \A i \in DOMAIN events : HasEmail(events[i].user, events[i].email)
  /\ (Quiet /\ faults = 0) =>
       \A u \in Users :
         user[u] # Null => \E i \in DOMAIN events : events[i].user = u

\* The accounts nobody announced, and the calls about to announce one.
Orphans == {u \in Users :
              user[u] # Null /\ \A i \in DOMAIN events : events[i].user # u}
Recording == {h \in Handlers : call[h].at = "recordRegistered"}

\* An account that nobody announced costs a fault of its own: a registration
\* that fails between INSERT and event leaves one, which refuses every later
\* registration of the e-mail, and no race of registrations leaves another.
OrphansAreFaults == Cardinality(Orphans) <= faults + Cardinality(Recording)

\* A logout that meets no call in progress on the account is final: no
\* refresh token is stored, by whatever calls, until a login begins.
LogoutHolds == \A u \in loggedOut : user[u].refreshToken = Null
=============================================================================
