------------------------------ MODULE AuthProofs ------------------------------
(***************************************************************************)
(* Theorems about Auth, for any sets of handlers and e-mail addresses and  *)
(* any number of users and calls.                                          *)
(***************************************************************************)
EXTENDS Auth, FiniteSetTheorems, TLAPS

-----------------------------------------------------------------------------
(* Type correctness.                                                       *)

\* What the fields of a call are, by the place it has reached.
LEMMA CallFields ==
  ASSUME TypeOK, NEW h \in Handlers
  PROVE  /\ call[h].at = "insert" => call[h].email \in Emails
         /\ call[h].at \in {"recordRegistered", "storeToken"}
              => /\ call[h].user \in Users
                 /\ user[call[h].user] \in Row
                 /\ user[call[h].user] # Null
         /\ call[h].at = "recordRegistered"
              => [call[h] EXCEPT !.at = "storeToken"] =
                   [at |-> "storeToken", user |-> call[h].user]
<1> call[h] \in Calls
  BY DEF TypeOK
<1>1. CASE call[h] = Idle
  BY <1>1 DEF Idle
<1>2. CASE call[h] \in [at: {"insert"}, email: Emails]
  BY <1>2
<1>3. CASE call[h] \in [at: {"recordRegistered", "storeToken"}, user: Users]
  <2>1. call[h].user \in Users /\ call[h].at \in {"recordRegistered", "storeToken"}
    BY <1>3
  <2>2. [call[h] EXCEPT !.at = "storeToken"] =
          [at |-> "storeToken", user |-> call[h].user]
    BY <1>3
  <2> QED
    BY <2>1, <2>2 DEF TypeOK
<1> QED
  BY <1>1, <1>2, <1>3 DEF Calls

\* The fields of a row.
LEMMA RowFields ==
  ASSUME TypeOK, NEW u \in Users, user[u] # Null
  PROVE  /\ user[u] \in Row
         /\ user[u].email \in Emails
BY DEF TypeOK, Row

LEMMA BeginEffect ==
  ASSUME TypeOK, NEW h \in Handlers, NEW c \in Calls, Begin(h, c)
  PROVE  /\ calls' \in Nat
         /\ call' \in [Handlers -> Calls]
         /\ call'[h] = c
         /\ \A g \in Handlers : g # h => call'[g] = call[g]
BY DEF TypeOK, Begin

LEMMA ReturnEffect ==
  ASSUME TypeOK, NEW h \in Handlers, Return(h)
  PROVE  /\ call' \in [Handlers -> Calls]
         /\ call'[h].at = "idle"
         /\ \A g \in Handlers : g # h => call'[g] = call[g]
BY DEF TypeOK, Return, Calls, Idle

\* The effect of storing or clearing the token of a user.
LEMMA TokenEffect ==
  ASSUME TypeOK, NEW u \in Users, user[u] # Null, NEW t \in {Null, u},
         user' = [user EXCEPT ![u].refreshToken = t]
  PROVE  /\ user' \in [Users -> Row \cup {Null}]
         /\ \A v \in Users : user'[v] # Null <=> user[v] # Null
         /\ \A v \in Users : user[v] # Null => user'[v].email = user[v].email
         /\ \A v \in Users : v # u => user'[v] = user[v]
         /\ user'[u].refreshToken = t
<1>1. user \in [Users -> Row \cup {Null}]
  BY DEF TypeOK
<1>2. user'[u] = [user[u] EXCEPT !.refreshToken = t]
  BY <1>1
<1>3. \A v \in Users : v # u => user'[v] = user[v]
  BY <1>1
<1>4. user'[u] \in Row /\ user'[u].email = user[u].email
      /\ user'[u].refreshToken = t
  BY <1>2 DEF TypeOK, Row, HashOf
<1> QED
  BY <1>1, <1>3, <1>4, NullAssumption

LEMMA TypeStep == TypeOK /\ [Next]_vars => TypeOK'
<1> SUFFICES ASSUME TypeOK, [Next]_vars PROVE TypeOK'
  OBVIOUS
<1>1. ASSUME NEW h \in Handlers, NEW email \in Emails, FindForRegister(h, email)
      PROVE  TypeOK'
  <2>1. [at |-> "insert", email |-> email] \in Calls
    BY DEF Calls
  <2> QED
    BY <1>1, <2>1, BeginEffect DEF FindForRegister, TypeOK
<1>2. ASSUME NEW h \in Handlers, NEW u \in Users, InsertUser(h, u)
      PROVE  TypeOK'
  <2>1. call[h].email \in Emails
    BY <1>2, CallFields DEF InsertUser
  <2>2. [at |-> "recordRegistered", user |-> u] \in Calls
    BY DEF Calls
  <2>3. [email |-> call[h].email, refreshToken |-> Null] \in Row
    BY <2>1 DEF Row
  <2>4. /\ user' \in [Users -> Row \cup {Null}]
        /\ \A v \in Users : user[v] # Null => user'[v] # Null
        /\ user'[u] # Null
    BY <1>2, <2>3, NullAssumption DEF InsertUser, TypeOK
  <2>5. /\ call' \in [Handlers -> Calls]
        /\ call'[h] = [at |-> "recordRegistered", user |-> u]
        /\ \A g \in Handlers : g # h => call'[g] = call[g]
    BY <1>2, <2>2 DEF InsertUser, TypeOK
  <2>6. \A g \in Handlers : call'[g].at \in {"recordRegistered", "storeToken"}
          => user'[call'[g].user] # Null
    <3> SUFFICES ASSUME NEW g \in Handlers,
                        call'[g].at \in {"recordRegistered", "storeToken"}
                 PROVE  user'[call'[g].user] # Null
      OBVIOUS
    <3>1. CASE g = h
      BY <2>4, <2>5, <3>1
    <3>2. CASE g # h
      <4>1. call'[g] = call[g]
        BY <2>5, <3>2
      <4>2. call[g].user \in Users /\ user[call[g].user] # Null
        BY <4>1, CallFields
      <4> QED
        BY <2>4, <4>1, <4>2
    <3> QED
      BY <3>1, <3>2
  <2> QED
    BY <1>2, <2>4, <2>5, <2>6 DEF InsertUser, TypeOK
<1>3. ASSUME NEW h \in Handlers, InsertRefused(h)
      PROVE  TypeOK'
  BY <1>3, ReturnEffect DEF InsertRefused, TypeOK
<1>4. ASSUME NEW h \in Handlers, RecordRegistered(h)
      PROVE  TypeOK'
  <2>1. /\ call[h].user \in Users
        /\ user[call[h].user] # Null
        /\ call'[h] = [at |-> "storeToken", user |-> call[h].user]
        /\ \A g \in Handlers : g # h => call'[g] = call[g]
    BY <1>4, CallFields DEF RecordRegistered, TypeOK
  <2>2. [at |-> "storeToken", user |-> call[h].user] \in Calls
    BY <2>1 DEF Calls
  <2>3. call' \in [Handlers -> Calls]
    BY <1>4, <2>1, <2>2 DEF RecordRegistered, TypeOK
  <2>4. user[call[h].user].email \in Emails
    BY <2>1, RowFields
  <2>5. events' \in Seq([user: Users, email: Emails])
    BY <1>4, <2>1, <2>4 DEF RecordRegistered, TypeOK
  <2> QED
    BY <1>4, <2>1, <2>3, <2>5 DEF RecordRegistered, TypeOK
<1>5. ASSUME NEW h \in Handlers, NEW u \in Users,
             FindForLogin(h, u) \/ FindForRefresh(h, u)
      PROVE  TypeOK'
  <2>1. [at |-> "storeToken", user |-> u] \in Calls
    BY DEF Calls
  <2>2. user[u] # Null
    BY <1>5 DEF FindForLogin, FindForRefresh, TypeOK
  <2> QED
    BY <1>5, <2>1, <2>2, BeginEffect DEF FindForLogin, FindForRefresh, TypeOK
<1>6. ASSUME NEW h \in Handlers, NEW u \in Users, Logout(h, u)
      PROVE  TypeOK'
  <2>1. user[u] # Null /\ user' = [user EXCEPT ![u].refreshToken = Null]
    BY <1>6 DEF Logout, TypeOK
  <2>2. /\ user' \in [Users -> Row \cup {Null}]
        /\ \A v \in Users : user'[v] # Null <=> user[v] # Null
    BY <2>1, TokenEffect
  <2>3. \A g \in Handlers : call[g].at \in {"recordRegistered", "storeToken"}
          => user'[call[g].user] # Null
    BY <2>2, CallFields
  <2> QED
    BY <1>6, <2>2, <2>3 DEF Logout, TypeOK
<1>7. ASSUME NEW h \in Handlers, StoreToken(h)
      PROVE  TypeOK'
  <2>1. /\ call[h].user \in Users
        /\ user[call[h].user] # Null
        /\ user' = [user EXCEPT ![call[h].user].refreshToken = call[h].user]
    BY <1>7, CallFields DEF StoreToken, HashOf
  <2>2. /\ user' \in [Users -> Row \cup {Null}]
        /\ \A v \in Users : user'[v] # Null <=> user[v] # Null
    BY <2>1, TokenEffect
  <2>3. /\ call' \in [Handlers -> Calls]
        /\ call'[h].at = "idle"
        /\ \A g \in Handlers : g # h => call'[g] = call[g]
    BY <1>7, ReturnEffect DEF StoreToken
  <2>4. \A g \in Handlers : call'[g].at \in {"recordRegistered", "storeToken"}
          => user'[call'[g].user] # Null
    BY <2>2, <2>3, CallFields
  <2> QED
    BY <1>7, <2>1, <2>2, <2>3, <2>4 DEF StoreToken, TypeOK
<1>8. ASSUME NEW h \in Handlers, CallFails(h)
      PROVE  TypeOK'
  BY <1>8, ReturnEffect DEF CallFails, TypeOK
<1>9. CASE UNCHANGED vars
  BY <1>9 DEF vars, TypeOK
<1> QED
  BY <1>1, <1>2, <1>3, <1>4, <1>5, <1>6, <1>7, <1>8, <1>9 DEF Next, Register

\* Type correctness: the table, the outbox and the calls hold what the code
\* puts there, and no call works on an account that is not there.
THEOREM TypeCorrect == Spec => []TypeOK
<1>1. Init => TypeOK
  BY DEF Init, TypeOK, Calls, Idle
<1> QED
  BY <1>1, TypeStep, PTL DEF Spec

-----------------------------------------------------------------------------
(* Logout.                                                                 *)

\* No call that will store a token is on its way for a user logged out.
NobodyIsComing == \A u \in loggedOut : On(u) = {}

LogoutInv == TypeOK /\ NobodyIsComing /\ LogoutHolds

LEMMA LogoutStep == LogoutInv /\ [Next]_vars => LogoutInv'
<1> SUFFICES ASSUME LogoutInv, [Next]_vars PROVE LogoutInv'
  OBVIOUS
<1> USE DEF NobodyIsComing, LogoutHolds, On
<1>0. TypeOK /\ TypeOK'
  BY TypeStep DEF LogoutInv
<1>inv. NobodyIsComing /\ LogoutHolds
  BY DEF LogoutInv
<1>sub. loggedOut \subseteq Users /\ \A u \in loggedOut : user[u] # Null
  BY <1>0 DEF TypeOK
\* Calls that leave accounts and logouts alone, and go on with no other user.
<1>a. ASSUME NEW h \in Handlers, UNCHANGED <<user, loggedOut>>,
             \A g \in Handlers : g # h => call'[g] = call[g],
             call'[h].at \notin {"recordRegistered", "storeToken"}
             \/ call'[h].user \notin loggedOut
      PROVE  LogoutInv'
  <2>1. NobodyIsComing'
    BY <1>inv, <1>a
  <2> QED
    BY <1>0, <1>inv, <1>a, <2>1 DEF LogoutInv
<1>1. ASSUME NEW h \in Handlers, NEW email \in Emails, FindForRegister(h, email)
      PROVE  LogoutInv'
  <2>1. call'[h].at = "insert" /\ \A g \in Handlers : g # h => call'[g] = call[g]
    BY <1>0, <1>1 DEF FindForRegister, Begin, TypeOK
  <2> QED
    BY <1>1, <1>a, <2>1 DEF FindForRegister
<1>2. ASSUME NEW h \in Handlers, NEW u \in Users, InsertUser(h, u)
      PROVE  LogoutInv'
  <2>1. u \notin loggedOut
    BY <1>2, <1>sub DEF InsertUser
  <2>2. /\ call'[h].user = u
        /\ \A g \in Handlers : g # h => call'[g] = call[g]
        /\ \A v \in Users : v # u => user'[v] = user[v]
        /\ loggedOut' = loggedOut
    BY <1>0, <1>2 DEF InsertUser, TypeOK
  <2>3. NobodyIsComing'
    BY <1>inv, <2>1, <2>2
  <2> QED
    BY <1>0, <1>inv, <1>sub, <2>1, <2>2, <2>3 DEF LogoutInv
<1>3. ASSUME NEW h \in Handlers, InsertRefused(h) \/ CallFails(h)
      PROVE  LogoutInv'
  BY <1>0, <1>3, <1>a, ReturnEffect DEF InsertRefused, CallFails
<1>4. ASSUME NEW h \in Handlers, RecordRegistered(h)
      PROVE  LogoutInv'
  <2>1. /\ call[h].at = "recordRegistered"
        /\ call'[h] = [at |-> "storeToken", user |-> call[h].user]
        /\ \A g \in Handlers : g # h => call'[g] = call[g]
    BY <1>0, <1>4, CallFields DEF RecordRegistered, TypeOK
  <2>2. call[h].user \notin loggedOut
    BY <1>inv, <2>1
  <2> QED
    BY <1>4, <1>a, <2>1, <2>2 DEF RecordRegistered
<1>5. ASSUME NEW h \in Handlers, NEW u \in Users, FindForLogin(h, u)
      PROVE  LogoutInv'
  <2>1. /\ call'[h] = [at |-> "storeToken", user |-> u]
        /\ \A g \in Handlers : g # h => call'[g] = call[g]
        /\ loggedOut' = loggedOut \ {u}
        /\ user' = user
    BY <1>0, <1>5 DEF FindForLogin, Begin, TypeOK
  <2>2. NobodyIsComing'
    BY <1>inv, <2>1
  <2> QED
    BY <1>0, <1>inv, <2>1, <2>2 DEF LogoutInv
<1>6. ASSUME NEW h \in Handlers, NEW u \in Users, FindForRefresh(h, u)
      PROVE  LogoutInv'
  <2>1. /\ call'[h] = [at |-> "storeToken", user |-> u]
        /\ \A g \in Handlers : g # h => call'[g] = call[g]
    BY <1>0, <1>6 DEF FindForRefresh, Begin, TypeOK
  <2>2. u \notin loggedOut
    <3>1. user[u].refreshToken # Null
      BY <1>6, NullAssumption DEF FindForRefresh, HashOf, Users
    <3> QED
      BY <1>inv, <3>1
  <2> QED
    BY <1>6, <1>a, <2>1, <2>2 DEF FindForRefresh
<1>7. ASSUME NEW h \in Handlers, NEW u \in Users, Logout(h, u)
      PROVE  LogoutInv'
  <2>1. user[u] # Null /\ user' = [user EXCEPT ![u].refreshToken = Null]
    BY <1>0, <1>7 DEF Logout, TypeOK
  <2>2. /\ \A v \in Users : v # u => user'[v] = user[v]
        /\ user'[u].refreshToken = Null
    BY <1>0, <2>1, TokenEffect
  <2>3. /\ call' = call
        /\ loggedOut' = IF On(u) = {} THEN loggedOut \cup {u}
                                      ELSE loggedOut \ {u}
    BY <1>7 DEF Logout
  <2>4. NobodyIsComing'
    BY <1>inv, <2>3
  <2>5. LogoutHolds'
    BY <1>inv, <1>sub, <2>2, <2>3
  <2> QED
    BY <1>0, <2>4, <2>5 DEF LogoutInv
<1>8. ASSUME NEW h \in Handlers, StoreToken(h)
      PROVE  LogoutInv'
  <2>1. /\ call[h].at = "storeToken"
        /\ call[h].user \in Users
        /\ user[call[h].user] # Null
        /\ user' = [user EXCEPT ![call[h].user].refreshToken = call[h].user]
    BY <1>0, <1>8, CallFields DEF StoreToken, HashOf
  <2>2. \A v \in Users : v # call[h].user => user'[v] = user[v]
    BY <1>0, <2>1, TokenEffect
  <2>3. /\ call'[h].at = "idle"
        /\ \A g \in Handlers : g # h => call'[g] = call[g]
        /\ loggedOut' = loggedOut
    BY <1>0, <1>8, ReturnEffect DEF StoreToken
  <2>4. call[h].user \notin loggedOut
    BY <1>inv, <2>1
  <2>5. NobodyIsComing'
    BY <1>inv, <2>3
  <2> QED
    BY <1>0, <1>inv, <1>sub, <2>2, <2>3, <2>4, <2>5 DEF LogoutInv
<1>9. CASE UNCHANGED vars
  BY <1>0, <1>inv, <1>9 DEF vars, LogoutInv
<1> QED
  BY <1>1, <1>2, <1>3, <1>4, <1>5, <1>6, <1>7, <1>8, <1>9 DEF Next, Register

\* A logout that meets no call of its user is final until a login begins,
\* whatever any number of concurrent calls do.
THEOREM LogoutIsFinal == Spec => []LogoutHolds
<1>1. Init => LogoutInv
  <2>1. Init => TypeOK
    BY DEF Init, TypeOK, Calls, Idle
  <2> QED
    BY <2>1 DEF Init, LogoutInv, NobodyIsComing, LogoutHolds
<1>2. LogoutInv => LogoutHolds
  BY DEF LogoutInv
<1> QED
  BY <1>1, <1>2, LogoutStep, PTL DEF Spec

-----------------------------------------------------------------------------
(* Registration.                                                           *)

EmailsAreUnique ==
  \A u, v \in Users : (user[u] # Null /\ HasEmail(v, user[u].email)) => u = v

EventsNameUsers ==
  \A i \in DOMAIN events :
    events[i].user \in Users /\ HasEmail(events[i].user, events[i].email)

EventsAreUnique ==
  \A i, j \in DOMAIN events : events[i].user = events[j].user => i = j

\* A call that is about to record a registration is the only one for its
\* user, whom no event names yet.
WillRegister(h, u) == call[h].at = "recordRegistered" /\ call[h].user = u

RecordsAreFirst ==
  \A h \in Handlers, u \in Users :
    WillRegister(h, u) =>
      /\ \A i \in DOMAIN events : events[i].user # u
      /\ \A g \in Handlers : WillRegister(g, u) => g = h

IsRegistered(u) == \E i \in DOMAIN events : events[i].user = u

UsersAreAnnounced ==
  faults = 0 =>
    \A u \in Users :
      user[u] # Null => IsRegistered(u) \/ \E h \in Handlers : WillRegister(h, u)

RegistrationInv ==
  /\ TypeOK
  /\ EmailsAreUnique
  /\ EventsNameUsers
  /\ EventsAreUnique
  /\ RecordsAreFirst
  /\ UsersAreAnnounced

\* Steps that keep every account's e-mail, the outbox, and the calls that are
\* about to record a registration.
LEMMA RegistrationKept ==
  ASSUME RegistrationInv, TypeOK', UNCHANGED events, faults' = 0 => faults = 0,
         \A u \in Users : user'[u] # Null <=> user[u] # Null,
         \A u \in Users : user[u] # Null => user'[u].email = user[u].email,
         \A h \in Handlers, u \in Users :
           WillRegister(h, u)' => WillRegister(h, u),
         faults' = 0 => \A h \in Handlers, u \in Users :
           WillRegister(h, u) => WillRegister(h, u)'
  PROVE  RegistrationInv'
<1>1. EmailsAreUnique' /\ EventsNameUsers' /\ EventsAreUnique'
  BY DEF RegistrationInv, EmailsAreUnique, EventsNameUsers, EventsAreUnique,
         HasEmail
<1>2. RecordsAreFirst'
  BY DEF RegistrationInv, RecordsAreFirst
<1>3. UsersAreAnnounced'
  BY DEF RegistrationInv, UsersAreAnnounced, IsRegistered
<1> QED
  BY <1>1, <1>2, <1>3 DEF RegistrationInv

LEMMA RegistrationStep == RegistrationInv /\ [Next]_vars => RegistrationInv'
<1> SUFFICES ASSUME RegistrationInv, [Next]_vars PROVE RegistrationInv'
  OBVIOUS
<1>0. TypeOK /\ TypeOK'
  BY TypeStep DEF RegistrationInv
<1>inv. /\ EmailsAreUnique /\ EventsNameUsers /\ EventsAreUnique
        /\ RecordsAreFirst /\ UsersAreAnnounced
  BY DEF RegistrationInv
\* Calls that leave accounts and outbox alone and record no registration.
<1>a. ASSUME NEW h \in Handlers, UNCHANGED <<user, events>>,
             \A g \in Handlers : g # h => call'[g] = call[g],
             call'[h].at # "recordRegistered", faults' = 0 => faults = 0,
             call[h].at # "recordRegistered" \/ faults' # 0
      PROVE  RegistrationInv'
  <2>1. \A g \in Handlers, u \in Users :
          /\ WillRegister(g, u)' => WillRegister(g, u)
          /\ faults' = 0 => (WillRegister(g, u) => WillRegister(g, u)')
    BY <1>a DEF WillRegister
  <2> QED
    BY <1>0, <1>a, <2>1, RegistrationKept
<1>1. ASSUME NEW h \in Handlers, NEW email \in Emails, FindForRegister(h, email)
      PROVE  RegistrationInv'
  BY <1>0, <1>1, <1>a DEF FindForRegister, Begin, Idle, TypeOK
<1>2. ASSUME NEW h \in Handlers, NEW u \in Users, InsertUser(h, u)
      PROVE  RegistrationInv'
  <2>1. /\ call[h].at = "insert"
        /\ call[h].email \in Emails
        /\ \A v \in Users : ~ HasEmail(v, call[h].email)
        /\ user[u] = Null
        /\ user'[u] = [email |-> call[h].email, refreshToken |-> Null]
        /\ \A v \in Users : v # u => user'[v] = user[v]
        /\ call'[h] = [at |-> "recordRegistered", user |-> u]
        /\ \A g \in Handlers : g # h => call'[g] = call[g]
        /\ UNCHANGED <<events, faults>>
    BY <1>0, <1>2, CallFields DEF InsertUser, TypeOK
  <2>2. user'[u].email = call[h].email
    BY <2>1
  <2>3. EmailsAreUnique'
    BY <1>inv, <2>1, <2>2 DEF EmailsAreUnique, HasEmail
  <2>4. EventsNameUsers'
    BY <1>inv, <2>1 DEF EventsNameUsers, HasEmail
  <2>5. EventsAreUnique'
    BY <1>inv, <2>1 DEF EventsAreUnique
  <2>6. \A i \in DOMAIN events : events[i].user # u
    BY <1>inv, <2>1 DEF EventsNameUsers, HasEmail
  <2>7. \A g \in Handlers, v \in Users :
          WillRegister(g, v)' <=>
            (g = h /\ v = u) \/ (g # h /\ WillRegister(g, v))
    BY <2>1 DEF WillRegister
  <2>8. \A g \in Handlers : ~ WillRegister(g, u)
    BY <1>0, <2>1, CallFields DEF WillRegister
  <2>9. RecordsAreFirst'
    BY <1>inv, <2>1, <2>6, <2>7, <2>8 DEF RecordsAreFirst
  <2>10. UsersAreAnnounced'
    <3> SUFFICES ASSUME faults = 0, NEW v \in Users, user'[v] # Null
                 PROVE  IsRegistered(v)' \/ \E g \in Handlers : WillRegister(g, v)'
      BY <2>1 DEF UsersAreAnnounced
    <3>1. CASE v = u
      BY <2>7, <3>1
    <3>2. CASE v # u
      <4>1. IsRegistered(v) \/ \E g \in Handlers : WillRegister(g, v)
        BY <1>inv, <2>1, <3>2 DEF UsersAreAnnounced
      <4>2. \A g \in Handlers : WillRegister(g, v) => g # h
        BY <2>1 DEF WillRegister
      <4> QED
        BY <2>1, <2>7, <4>1, <4>2 DEF IsRegistered
    <3> QED
      BY <3>1, <3>2
  <2> QED
    BY <1>0, <2>3, <2>4, <2>5, <2>9, <2>10 DEF RegistrationInv
<1>3. ASSUME NEW h \in Handlers, InsertRefused(h)
      PROVE  RegistrationInv'
  BY <1>0, <1>3, <1>a, ReturnEffect DEF InsertRefused
<1>4. ASSUME NEW h \in Handlers, RecordRegistered(h)
      PROVE  RegistrationInv'
  <2> DEFINE u == call[h].user
             event == [user |-> u, email |-> user[u].email]
  <2>1. /\ call[h].at = "recordRegistered"
        /\ u \in Users
        /\ user[u] # Null
        /\ call'[h].at = "storeToken"
        /\ \A g \in Handlers : g # h => call'[g] = call[g]
        /\ events' = Append(events, event)
        /\ UNCHANGED <<user, faults>>
    BY <1>0, <1>4, CallFields DEF RecordRegistered, TypeOK
  <2>2. /\ DOMAIN events' = 1..(Len(events) + 1)
        /\ DOMAIN events = 1..Len(events)
        /\ \A i \in DOMAIN events : events'[i] = events[i]
        /\ events'[Len(events) + 1] = event
        /\ Len(events) \in Nat
    BY <1>0, <2>1 DEF TypeOK
  <2>3. WillRegister(h, u)
    BY <2>1 DEF WillRegister
  <2>4. \A i \in DOMAIN events : events[i].user # u
    BY <1>inv, <2>1, <2>3 DEF RecordsAreFirst
  <2>5. \A i \in DOMAIN events' :
          i \in DOMAIN events \/ (i \notin DOMAIN events /\ i = Len(events) + 1)
    BY <2>2
  <2>6. HasEmail(event.user, event.email) /\ event.user = u
    BY <2>1 DEF HasEmail
  <2>7. EventsNameUsers'
    BY <1>inv, <2>1, <2>2, <2>5, <2>6 DEF EventsNameUsers, HasEmail
  <2>8. EventsAreUnique'
    BY <1>inv, <2>2, <2>4, <2>5, <2>6 DEF EventsAreUnique
  <2>9. \A g \in Handlers, v \in Users :
          WillRegister(g, v)' <=> g # h /\ WillRegister(g, v)
    BY <2>1 DEF WillRegister
  <2>10. \A g \in Handlers : WillRegister(g, u) => g = h
    BY <1>inv, <2>1, <2>3 DEF RecordsAreFirst
  <2>11. RecordsAreFirst'
    <3> SUFFICES ASSUME NEW g \in Handlers, NEW v \in Users, WillRegister(g, v)'
                 PROVE  /\ \A i \in DOMAIN events' : events'[i].user # v
                        /\ \A k \in Handlers : WillRegister(k, v)' => k = g
      BY DEF RecordsAreFirst
    <3>1. v # u /\ WillRegister(g, v)
      BY <2>9, <2>10
    <3> QED
      BY <1>inv, <2>2, <2>5, <2>6, <2>9, <3>1 DEF RecordsAreFirst
  <2>12. UsersAreAnnounced'
    <3> SUFFICES ASSUME faults = 0, NEW v \in Users, user[v] # Null
                 PROVE  IsRegistered(v)' \/ \E g \in Handlers : WillRegister(g, v)'
      BY <2>1 DEF UsersAreAnnounced
    <3>1. CASE IsRegistered(v)
      BY <2>2, <3>1 DEF IsRegistered
    <3>2. CASE v = u
      <4>1. Len(events) + 1 \in DOMAIN events'
        BY <2>2
      <4> QED
        BY <2>2, <2>6, <3>2, <4>1 DEF IsRegistered
    <3>3. CASE v # u /\ \E g \in Handlers : WillRegister(g, v)
      BY <2>9, <3>3 DEF WillRegister
    <3> QED
      BY <1>inv, <3>1, <3>2, <3>3 DEF UsersAreAnnounced
  <2>13. EmailsAreUnique'
    BY <1>inv, <2>1 DEF EmailsAreUnique, HasEmail
  <2> QED
    BY <1>0, <2>7, <2>8, <2>11, <2>12, <2>13 DEF RegistrationInv
<1>5. ASSUME NEW h \in Handlers, NEW u \in Users,
             FindForLogin(h, u) \/ FindForRefresh(h, u)
      PROVE  RegistrationInv'
  <2>1. /\ call[h] = Idle
        /\ call'[h].at = "storeToken"
        /\ \A g \in Handlers : g # h => call'[g] = call[g]
        /\ UNCHANGED <<user, events, faults>>
    BY <1>0, <1>5 DEF FindForLogin, FindForRefresh, Begin, TypeOK
  <2> QED
    BY <1>a, <2>1 DEF Idle
<1>6. ASSUME NEW h \in Handlers, NEW u \in Users, Logout(h, u)
      PROVE  RegistrationInv'
  <2>1. user[u] # Null /\ user' = [user EXCEPT ![u].refreshToken = Null]
    BY <1>0, <1>6 DEF Logout, TypeOK
  <2>2. UNCHANGED <<events, call, faults>>
    BY <1>6 DEF Logout
  <2>3. /\ \A v \in Users : user'[v] # Null <=> user[v] # Null
        /\ \A v \in Users : user[v] # Null => user'[v].email = user[v].email
    BY <1>0, <2>1, TokenEffect
  <2>4. \A g \in Handlers, v \in Users : WillRegister(g, v)' <=> WillRegister(g, v)
    BY <2>2 DEF WillRegister
  <2> QED
    BY <1>0, <2>2, <2>3, <2>4, RegistrationKept
<1>7. ASSUME NEW h \in Handlers, StoreToken(h)
      PROVE  RegistrationInv'
  <2>1. /\ call[h].at = "storeToken"
        /\ call[h].user \in Users
        /\ user[call[h].user] # Null
        /\ user' = [user EXCEPT ![call[h].user].refreshToken = call[h].user]
        /\ UNCHANGED <<events, faults>>
    BY <1>0, <1>7, CallFields DEF StoreToken, HashOf
  <2>2. /\ \A v \in Users : user'[v] # Null <=> user[v] # Null
        /\ \A v \in Users : user[v] # Null => user'[v].email = user[v].email
    BY <1>0, <2>1, TokenEffect
  <2>3. /\ call'[h].at = "idle"
        /\ \A g \in Handlers : g # h => call'[g] = call[g]
    BY <1>0, <1>7, ReturnEffect DEF StoreToken
  <2>4. \A g \in Handlers, v \in Users : WillRegister(g, v)' <=> WillRegister(g, v)
    BY <2>1, <2>3 DEF WillRegister
  <2> QED
    BY <1>0, <2>1, <2>2, <2>4, RegistrationKept
<1>8. ASSUME NEW h \in Handlers, CallFails(h)
      PROVE  RegistrationInv'
  <2>1. faults' # 0
    BY <1>0, <1>8 DEF CallFails, TypeOK
  <2> QED
    BY <1>0, <1>8, <1>a, <2>1, ReturnEffect DEF CallFails
<1>9. CASE UNCHANGED vars
  BY <1>0, <1>inv, <1>9, RegistrationKept DEF vars, WillRegister
<1> QED
  BY <1>1, <1>2, <1>3, <1>4, <1>5, <1>6, <1>7, <1>8, <1>9 DEF Next, Register

LEMMA RegistrationInit == Init => RegistrationInv
<1>1. Init => TypeOK
  BY DEF Init, TypeOK, Calls, Idle
<1> QED
  BY <1>1 DEF Init, RegistrationInv, EmailsAreUnique, EventsNameUsers,
              EventsAreUnique, RecordsAreFirst, UsersAreAnnounced, WillRegister,
              HasEmail, Idle

\* For any number of overlapping registrations, faults included: one
\* announcement for each e-mail at most, of the account the service has; and
\* without faults one for each account of a quiet service.
THEOREM Registration == Spec => []RegistrationIsAnnounced
<1>2. RegistrationInv => RegistrationIsAnnounced
  <2> SUFFICES ASSUME RegistrationInv PROVE RegistrationIsAnnounced
    OBVIOUS
  <2>1. \A i, j \in DOMAIN events : events[i].email = events[j].email => i = j
    BY DEF RegistrationInv, EmailsAreUnique, EventsNameUsers, EventsAreUnique,
           HasEmail
  <2>2. \A i \in DOMAIN events : HasEmail(events[i].user, events[i].email)
    BY DEF RegistrationInv, EventsNameUsers
  <2>3. (Quiet /\ faults = 0) =>
          \A u \in Users :
            user[u] # Null => \E i \in DOMAIN events : events[i].user = u
    BY DEF RegistrationInv, UsersAreAnnounced, IsRegistered, WillRegister, Quiet,
           Idle
  <2> QED
    BY <2>1, <2>2, <2>3 DEF RegistrationIsAnnounced
<1> QED
  BY <1>2, RegistrationInit, RegistrationStep, PTL DEF Spec

-----------------------------------------------------------------------------
(* Accounts nobody announced.                                              *)

\* The calls about to announce an account are finitely many whatever Handlers
\* is: they began one at a time.
OrphansInv ==
  /\ RegistrationInv
  /\ IsFiniteSet(Recording)
  /\ OrphansAreFaults

LEMMA OrphansAreFinite == IsFiniteSet(Orphans)
<1>1. IsFiniteSet(Users)
  BY FS_Interval, BoundsAssumption DEF Users
<1>2. Orphans \in SUBSET Users
  BY DEF Orphans
<1> QED  BY <1>1, <1>2, FS_Subset

\* One element more or less is at most one more or less to count.
LEMMA CountByOne ==
  ASSUME NEW S, IsFiniteSet(S), NEW x
  PROVE  /\ Cardinality(S) \in Nat
         /\ IsFiniteSet(S \cup {x}) /\ Cardinality(S \cup {x}) \in Nat
         /\ Cardinality(S \cup {x}) <= Cardinality(S) + 1
         /\ IsFiniteSet(S \ {x}) /\ Cardinality(S \ {x}) \in Nat
         /\ Cardinality(S) <= Cardinality(S \ {x}) + 1
<1>1. /\ IsFiniteSet(S \cup {x}) /\ IsFiniteSet(S \ {x})
      /\ Cardinality(S \cup {x}) =
           IF x \in S THEN Cardinality(S) ELSE Cardinality(S) + 1
      /\ Cardinality(S \ {x}) =
           IF x \in S THEN Cardinality(S) - 1 ELSE Cardinality(S)
  BY FS_AddElement, FS_RemoveElement
<1>2. /\ Cardinality(S) \in Nat /\ Cardinality(S \cup {x}) \in Nat
      /\ Cardinality(S \ {x}) \in Nat
  BY <1>1, FS_CardinalityType
<1>3. CASE x \in S
  BY <1>1, <1>2, <1>3
<1>4. CASE x \notin S
  BY <1>1, <1>2, <1>4
<1> QED  BY <1>3, <1>4

\* Orphans and recording calls do not come apart, or both change by one.
LEMMA OrphansKept ==
  ASSUME OrphansInv, RegistrationInv', faults' \in Nat,
         \/ /\ Orphans' = Orphans
            /\ Recording' = Recording
            /\ faults' = faults
         \/ /\ Orphans' = Orphans
            /\ \E h : Recording' = Recording \ {h}
            /\ faults' = faults + 1
         \/ /\ \E u, h : /\ Orphans' = Orphans \cup {u}
                        /\ h \notin Recording /\ Recording' = Recording \cup {h}
            /\ faults' = faults
         \/ /\ \E u, h : /\ u \in Orphans /\ Orphans' = Orphans \ {u}
                        /\ h \in Recording /\ Recording' = Recording \ {h}
            /\ faults' = faults
  PROVE  OrphansInv'
<1>1. /\ IsFiniteSet(Orphans) /\ IsFiniteSet(Recording)
      /\ Cardinality(Orphans) \in Nat /\ Cardinality(Recording) \in Nat
      /\ faults \in Nat
      /\ Cardinality(Orphans) <= faults + Cardinality(Recording)
  BY OrphansAreFinite, FS_CardinalityType
     DEF OrphansInv, OrphansAreFaults, RegistrationInv, TypeOK
<1>2. CASE Orphans' = Orphans /\ Recording' = Recording /\ faults' = faults
  BY <1>1, <1>2 DEF OrphansInv, OrphansAreFaults
<1>3. CASE /\ Orphans' = Orphans /\ faults' = faults + 1
           /\ \E h : Recording' = Recording \ {h}
  <2>1. PICK h : Recording' = Recording \ {h}
    BY <1>3
  <2>2. /\ IsFiniteSet(Recording')
        /\ Cardinality(Recording) <= Cardinality(Recording') + 1
        /\ Cardinality(Recording') \in Nat
    BY <1>1, <2>1, CountByOne
  <2> QED  BY <1>1, <1>3, <2>2 DEF OrphansInv, OrphansAreFaults
<1>4. CASE /\ \E u, h : /\ Orphans' = Orphans \cup {u}
                       /\ h \notin Recording /\ Recording' = Recording \cup {h}
           /\ faults' = faults
  <2>1. PICK u, h : /\ Orphans' = Orphans \cup {u}
                    /\ h \notin Recording /\ Recording' = Recording \cup {h}
    BY <1>4
  <2>2. /\ Cardinality(Orphans') <= Cardinality(Orphans) + 1
        /\ Cardinality(Orphans') \in Nat
    BY <1>1, <2>1, CountByOne
  <2>3. /\ IsFiniteSet(Recording')
        /\ Cardinality(Recording') = Cardinality(Recording) + 1
    BY <1>1, <2>1, FS_AddElement
  <2> QED  BY <1>1, <1>4, <2>2, <2>3 DEF OrphansInv, OrphansAreFaults
<1>5. CASE /\ \E u, h : /\ u \in Orphans /\ Orphans' = Orphans \ {u}
                       /\ h \in Recording /\ Recording' = Recording \ {h}
           /\ faults' = faults
  <2>1. PICK u, h : /\ u \in Orphans /\ Orphans' = Orphans \ {u}
                    /\ h \in Recording /\ Recording' = Recording \ {h}
    BY <1>5
  <2>2. Cardinality(Orphans') = Cardinality(Orphans) - 1
    BY <1>1, <2>1, FS_RemoveElement
  <2>3. /\ IsFiniteSet(Recording')
        /\ Cardinality(Recording') = Cardinality(Recording) - 1
    BY <1>1, <2>1, FS_RemoveElement
  <2> QED  BY <1>1, <1>5, <2>2, <2>3 DEF OrphansInv, OrphansAreFaults
<1> QED  BY <1>2, <1>3, <1>4, <1>5

LEMMA OrphansStep == OrphansInv /\ [Next]_vars => OrphansInv'
<1> SUFFICES ASSUME OrphansInv, [Next]_vars PROVE OrphansInv'
  OBVIOUS
<1>0. /\ RegistrationInv /\ RegistrationInv' /\ TypeOK /\ TypeOK'
      /\ faults \in Nat /\ faults' \in Nat
  BY RegistrationStep DEF OrphansInv, RegistrationInv, TypeOK
\* Steps of a call that records no registration, before and after.
<1>a. ASSUME NEW h \in Handlers, UNCHANGED <<events, faults>>,
             \A u \in Users : user'[u] # Null <=> user[u] # Null,
             \A g \in Handlers : g # h => call'[g] = call[g],
             call[h].at # "recordRegistered", call'[h].at # "recordRegistered"
      PROVE  OrphansInv'
  <2>1. Orphans' = Orphans /\ Recording' = Recording
    BY <1>a DEF Orphans, Recording
  <2> QED  BY <1>0, <1>a, <2>1, OrphansKept
<1>1. ASSUME NEW h \in Handlers, NEW email \in Emails, FindForRegister(h, email)
      PROVE  OrphansInv'
  BY <1>0, <1>1, <1>a DEF FindForRegister, Begin, Idle, TypeOK
<1>2. ASSUME NEW h \in Handlers, NEW u \in Users, InsertUser(h, u)
      PROVE  OrphansInv'
  <2>1. /\ call[h].at = "insert" /\ user[u] = Null /\ user'[u] # Null
        /\ \A v \in Users : v # u => user'[v] = user[v]
        /\ call'[h].at = "recordRegistered"
        /\ \A g \in Handlers : g # h => call'[g] = call[g]
        /\ UNCHANGED <<events, faults>>
    <3>1. [email |-> call[h].email, refreshToken |-> Null] \in Row
      BY <1>0, <1>2, CallFields DEF InsertUser, Row
    <3> QED  BY <1>0, <1>2, <3>1, NullAssumption DEF InsertUser, TypeOK
  <2>2. \A i \in DOMAIN events : events[i].user # u
    BY <1>0, <2>1 DEF RegistrationInv, EventsNameUsers, HasEmail
  <2>3. Orphans' = Orphans \cup {u}
    BY <2>1, <2>2 DEF Orphans
  <2>4. h \notin Recording /\ Recording' = Recording \cup {h}
    BY <2>1 DEF Recording
  <2> QED  BY <1>0, <2>1, <2>3, <2>4, OrphansKept
<1>3. ASSUME NEW h \in Handlers, InsertRefused(h)
      PROVE  OrphansInv'
  BY <1>0, <1>3, <1>a, ReturnEffect DEF InsertRefused
<1>4. ASSUME NEW h \in Handlers, RecordRegistered(h)
      PROVE  OrphansInv'
  <2> DEFINE u == call[h].user
             event == [user |-> u, email |-> user[u].email]
  <2>1. /\ call[h].at = "recordRegistered" /\ u \in Users /\ user[u] # Null
        /\ call'[h].at = "storeToken"
        /\ \A g \in Handlers : g # h => call'[g] = call[g]
        /\ events' = Append(events, event)
        /\ UNCHANGED <<user, faults>>
    BY <1>0, <1>4, CallFields DEF RecordRegistered, TypeOK
  <2>2. /\ DOMAIN events' = DOMAIN events \cup {Len(events) + 1}
        /\ \A i \in DOMAIN events : events'[i] = events[i]
        /\ events'[Len(events) + 1] = event
    BY <1>0, <2>1 DEF TypeOK
  <2>3. u \in Orphans
    BY <1>0, <2>1 DEF RegistrationInv, RecordsAreFirst, WillRegister, Orphans
  <2>4. event.user = u
    OBVIOUS
  <2>5. Orphans' = Orphans \ {call[h].user}
    BY <2>1, <2>2, <2>4 DEF Orphans
  <2>6. h \in Recording /\ Recording' = Recording \ {h}
    BY <2>1 DEF Recording
  <2> QED  BY <1>0, <2>1, <2>3, <2>5, <2>6, OrphansKept
<1>5. ASSUME NEW h \in Handlers, NEW u \in Users,
             FindForLogin(h, u) \/ FindForRefresh(h, u)
      PROVE  OrphansInv'
  <2>1. /\ call[h] = Idle /\ call'[h].at = "storeToken"
        /\ \A g \in Handlers : g # h => call'[g] = call[g]
        /\ UNCHANGED <<user, events, faults>>
    BY <1>0, <1>5 DEF FindForLogin, FindForRefresh, Begin, TypeOK
  <2> QED  BY <1>a, <2>1 DEF Idle
<1>6. ASSUME NEW h \in Handlers, NEW u \in Users, Logout(h, u)
      PROVE  OrphansInv'
  <2>1. user[u] # Null /\ user' = [user EXCEPT ![u].refreshToken = Null]
    BY <1>0, <1>6 DEF Logout, TypeOK
  <2>2. \A v \in Users : user'[v] # Null <=> user[v] # Null
    BY <1>0, <2>1, TokenEffect
  <2>3. call[h] = Idle /\ UNCHANGED <<events, call, faults>>
    BY <1>6 DEF Logout
  <2> QED  BY <1>a, <2>2, <2>3 DEF Idle
<1>7. ASSUME NEW h \in Handlers, StoreToken(h)
      PROVE  OrphansInv'
  <2>1. /\ call[h].at = "storeToken" /\ call[h].user \in Users
        /\ user[call[h].user] # Null
        /\ user' = [user EXCEPT ![call[h].user].refreshToken = call[h].user]
        /\ UNCHANGED <<events, faults>>
    BY <1>0, <1>7, CallFields DEF StoreToken, HashOf
  <2>2. \A v \in Users : user'[v] # Null <=> user[v] # Null
    BY <1>0, <2>1, TokenEffect
  <2> QED  BY <1>0, <1>7, <1>a, <2>1, <2>2, ReturnEffect DEF StoreToken
<1>8. ASSUME NEW h \in Handlers, CallFails(h)
      PROVE  OrphansInv'
  <2>1. /\ call'[h].at = "idle" /\ \A g \in Handlers : g # h => call'[g] = call[g]
        /\ UNCHANGED <<user, events>> /\ faults' = faults + 1
    BY <1>0, <1>8, ReturnEffect DEF CallFails
  <2>2. Orphans' = Orphans /\ Recording' = Recording \ {h}
    BY <2>1 DEF Orphans, Recording
  <2> QED  BY <1>0, <2>1, <2>2, OrphansKept
<1>9. CASE UNCHANGED vars
  <2>1. Orphans' = Orphans /\ Recording' = Recording /\ faults' = faults
    BY <1>9 DEF vars, Orphans, Recording
  <2> QED  BY <1>0, <2>1, OrphansKept
<1> QED
  BY <1>1, <1>2, <1>3, <1>4, <1>5, <1>6, <1>7, <1>8, <1>9 DEF Next, Register

\* Accounts that stay unannounced are at most as many as faults and calls about
\* to announce one, however registrations overlap.
THEOREM OrphansCostFaults == Spec => []OrphansAreFaults
<1>1. Init => OrphansInv
  <2> SUFFICES ASSUME Init PROVE OrphansInv
    OBVIOUS
  <2>1. RegistrationInv
    BY RegistrationInit
  <2>2. Orphans = {} /\ Recording = {} /\ faults = 0
    BY DEF Init, Orphans, Recording, Idle
  <2> QED  BY <2>1, <2>2, FS_EmptySet DEF OrphansInv, OrphansAreFaults
<1>2. OrphansInv => OrphansAreFaults
  BY DEF OrphansInv
<1> QED
  BY <1>1, <1>2, OrphansStep, PTL DEF Spec
=============================================================================
