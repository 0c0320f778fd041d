------------------------ MODULE PasskeyCeremonyProofs ------------------------
(***************************************************************************)
(* Proofs about PasskeyCeremony, for every number of users, passkeys,      *)
(* challenges and concurrent requests, and every limit of passkeys.        *)
(***************************************************************************)
EXTENDS PasskeyCeremony, FiniteSetTheorems, TLAPS

-----------------------------------------------------------------------------
(* Types *)

Statements == {"idle", "clean", "store", "consume", "lock", "count", "insert",
               "lookup", "record", "find", "purge", "create"}

\* What a request holds when, at time t, it is about to run statement next.
Fits(q, next, t) ==
    /\ q.at <= t
    /\ next = "idle" => q = NoRequest
    /\ next \in {"clean", "store"} => q.token = None
    /\ next \in {"clean", "store", "consume"} =>
           q.op # "none" /\ (q.op = "register" <=> q.user # None)
    /\ next \notin {"idle", "clean", "store"} => q.token \in Tokens /\ q.cred \in Creds
    /\ next \in {"lock", "count", "insert"} => q.op = "register" /\ q.user \in Users
    /\ next = "lookup" => q.op = "login" /\ q.user = None
    /\ next \in {"record", "find", "purge", "create"} => q.op = "login" /\ q.user \in Users

RequestsWhole ==
    /\ now \in Instants
    /\ pc \in [Requests -> Statements]
    /\ request \in [Requests -> RequestType]
    /\ \A r \in Requests : Fits(request[r], pc[r], now)

\* Only an open challenge is bound to a user, only a passkey that is there is owned.
TablesWhole ==
    /\ users \in SUBSET Users
    /\ challenge \in [Tokens -> Challenges]
    /\ passkey \in [Creds -> Passkeys]
    /\ session \in [Tokens -> Sessions]
    /\ \A h \in Tokens : challenge[h].state # "open" => challenge[h].user = None
    /\ \A c \in Creds : IF There(c) THEN passkey[c].owner \in Users
                        ELSE passkey[c].owner = None /\ passkey[c].count = 0

Typing == RequestsWhole /\ TablesWhole

LEMMA TypingTypeOK == Typing => TypeOK
  BY DEF Typing, RequestsWhole, TablesWhole, TypeOK, Statements

LEMMA NoRequestTyping == NoRequest \in RequestType /\ Fits(NoRequest, "idle", 0)
  BY PasskeyAssumption DEF NoRequest, RequestType, Fits

\* The rows that are written when something goes
LEMMA BlankRows ==
    /\ NoChallenge \in Challenges /\ NoChallenge.user = None
    /\ Spent \in Challenges /\ Spent.state = "spent" /\ Spent.user = None
    /\ NoSession \in Sessions /\ NoSession.user = None
    /\ LET gone == [NoPasskey EXCEPT !.state = "gone"]
       IN  gone \in Passkeys /\ gone.state = "gone" /\ gone.owner = None /\ gone.count = 0
  BY PasskeyAssumption
  DEF NoChallenge, Spent, Challenges, NoSession, Sessions, NoPasskey, Passkeys

LEMMA InitTyping == Init => Typing
  <1> SUFFICES ASSUME Init
               PROVE  Typing
    OBVIOUS
  <1>1. PICK owner \in [Creds -> Users \cup {None}], count \in Counts :
            passkey = [c \in Creds |->
                IF owner[c] = None THEN NoPasskey
                ELSE [state |-> "there", owner |-> owner[c], count |-> count]]
    BY DEF Init
  <1>2. count \in Nat
    BY PasskeyAssumption
  <1>3. /\ passkey \in [Creds -> Passkeys]
        /\ \A c \in Creds : IF There(c) THEN passkey[c].owner \in Users
                            ELSE passkey[c].owner = None /\ passkey[c].count = 0
    BY <1>1, <1>2, PasskeyAssumption DEF Passkeys, NoPasskey, There
  <1>4. 0 \in Instants
    BY PasskeyAssumption DEF Instants
  <1>5. RequestsWhole
    BY <1>4, NoRequestTyping DEF Init, RequestsWhole, Statements
  <1>6. TablesWhole
    BY <1>3, BlankRows DEF Init, TablesWhole
  <1>7. QED
    BY <1>5, <1>6 DEF Typing

\* Request r goes on with q; the others stay as they are.
LEMMA GoTyping ==
    ASSUME RequestsWhole, NEW r \in Requests, NEW to \in Statements, NEW q \in RequestType,
           Go(r, to), request' = [request EXCEPT ![r] = q], now' = now,
           Fits(q, to, now)
    PROVE  RequestsWhole'
  BY DEF RequestsWhole, Go

LEMMA EndTyping ==
    ASSUME RequestsWhole, NEW r \in Requests, End(r), now' = now
    PROVE  RequestsWhole'
  <1>1. NoRequest \in RequestType /\ Fits(NoRequest, "idle", now)
    BY NoRequestTyping, PasskeyAssumption DEF NoRequest, Fits, RequestsWhole, Instants
  <1>2. QED
    BY <1>1, GoTyping DEF End, Statements

\* A request runs its next statement: what it found before is kept.
LEMMA OnTyping ==
    ASSUME RequestsWhole, NEW r \in Requests, NEW to \in Statements,
           Go(r, to), UNCHANGED request, now' = now,
           Fits(request[r], to, now)
    PROVE  RequestsWhole'
  BY DEF RequestsWhole, Go

LEMMA AskTyping ==
    ASSUME Typing, NEW r \in Requests, Ask(r)
    PROVE  Typing'
  <1>1. now \in Nat
    BY PasskeyAssumption DEF Typing, RequestsWhole, Instants
  <1>2. RequestsWhole' /\ UNCHANGED tables
    <2>1. CASE LoginBegin(r)
      <3> DEFINE q == [NoRequest EXCEPT !.op = "login"]
      <3>1. q \in RequestType /\ Fits(q, "clean", now)
        BY <1>1, PasskeyAssumption DEF NoRequest, RequestType, Fits
      <3>2. QED
        BY <2>1, <3>1, GoTyping DEF LoginBegin, Begin, Typing, Statements
    <2>2. ASSUME NEW u \in Users, RegisterBegin(r, u)
          PROVE  RequestsWhole' /\ UNCHANGED tables
      <3> DEFINE q == [NoRequest EXCEPT !.op = "register", !.user = u]
      <3>1. q \in RequestType
        BY PasskeyAssumption, NoRequestTyping DEF RequestType
      <3>2. q.op = "register" /\ q.user = u /\ q.token = None /\ q.at = 0
        BY DEF NoRequest
      <3>3. Fits(q, "clean", now)
        BY <1>1, <3>2, PasskeyAssumption DEF Fits
      <3>4. QED
        BY <2>2, <3>1, <3>3, GoTyping DEF RegisterBegin, Begin, Typing, Statements
    <2>3. ASSUME NEW h \in Tokens, NEW c \in Creds, NEW n \in Counts, LoginFinish(r, h, c, n)
          PROVE  RequestsWhole' /\ UNCHANGED tables
      <3> DEFINE q == [NoRequest EXCEPT !.op = "login", !.token = h, !.cred = c, !.count = n]
      <3>1. q \in RequestType
        BY PasskeyAssumption, NoRequestTyping DEF RequestType
      <3>2. q.op = "login" /\ q.user = None /\ q.token = h /\ q.cred = c /\ q.at = 0
        BY DEF NoRequest
      <3>3. Fits(q, "consume", now)
        BY <1>1, <3>2, PasskeyAssumption DEF Fits
      <3>4. QED
        BY <2>3, <3>1, <3>3, GoTyping DEF LoginFinish, Begin, Typing, Statements
    <2>4. ASSUME NEW h \in Tokens, NEW c \in Creds, NEW n \in Counts, NEW u \in Users,
                 RegisterFinish(r, u, h, c, n)
          PROVE  RequestsWhole' /\ UNCHANGED tables
      <3> DEFINE q == [NoRequest EXCEPT !.op = "register", !.user = u, !.token = h,
                                        !.cred = c, !.count = n]
      <3>1. q \in RequestType
        BY PasskeyAssumption, NoRequestTyping DEF RequestType
      <3>2. q.op = "register" /\ q.user = u /\ q.token = h /\ q.cred = c /\ q.at = 0
        BY DEF NoRequest
      <3>3. Fits(q, "consume", now)
        BY <1>1, <3>2, PasskeyAssumption DEF Fits
      <3>4. QED
        BY <2>4, <3>1, <3>3, GoTyping DEF RegisterFinish, Begin, Typing, Statements
    <2>5. QED
      BY <2>1, <2>2, <2>3, <2>4 DEF Ask
  <1>3. QED
    BY <1>2 DEF Typing, TablesWhole, tables, There

LEMMA ServeTyping ==
    ASSUME Typing, NEW r \in Requests, Serve(r)
    PROVE  Typing'
  <1> DEFINE q == request[r]
  <1>1. /\ now \in Nat /\ now <= MaxTime
        /\ q \in RequestType /\ pc[r] \in Statements /\ Fits(q, pc[r], now)
    BY PasskeyAssumption DEF Typing, RequestsWhole, Instants
  <1>2. Spent \in Challenges /\ Spent.user = None /\ NoSession \in Sessions
    BY BlankRows
  <1> USE DEF Typing
  <1>3. CASE CleanChallenges(r)
    <2>1. [q EXCEPT !.at = now] \in RequestType /\ Fits([q EXCEPT !.at = now], "store", now)
      BY <1>1, <1>3 DEF CleanChallenges, RequestType, Fits
    <2>2. RequestsWhole'
      BY <1>3, <2>1, GoTyping DEF CleanChallenges, Statements, RequestsWhole
    <2>3. TablesWhole'
      BY <1>2, <1>3 DEF CleanChallenges, TablesWhole, There
    <2>4. QED
      BY <2>2, <2>3
  <1>4. CASE StoreChallenge(r)
    <2>1. OpenChallenge(q) \in Challenges /\ OpenChallenge(q).state = "open"
      BY <1>1, <1>4, PasskeyAssumption
      DEF StoreChallenge, OpenChallenge, Challenges, RequestType, Fits
    <2>2. TablesWhole'
      BY <1>4, <2>1 DEF StoreChallenge, TablesWhole, There
    <2>3. QED
      BY <1>4, <2>2, EndTyping DEF StoreChallenge
  <1>5. CASE Consume(r)
    <2>1. q.token \in Tokens
      BY <1>1, <1>5 DEF Consume, Fits
    <2>2. TablesWhole'
      BY <1>2, <1>5, <2>1 DEF Consume, UseUp, TablesWhole, There
    <2>3. CASE End(r)
      BY <1>5, <2>2, <2>3, EndTyping DEF Consume
    <2>4. CASE ~End(r)
      <3>1. /\ Go(r, IF q.op = "register" THEN "lock" ELSE "lookup")
            /\ UNCHANGED request
            /\ Consumable(q.token, q.op) /\ challenge[q.token].user = q.user
        BY <1>5, <2>4 DEF Consume
      <3>2. challenge[q.token] \in Challenges
        BY <2>1 DEF TablesWhole
      <3>3. q.op = "register" => q.user \in Users
        BY <1>1, <1>5 DEF Consume, Fits, RequestType
      <3>4. Fits(q, IF q.op = "register" THEN "lock" ELSE "lookup", now)
        BY <1>1, <1>5, <3>3 DEF Consume, Fits, RequestType
      <3>5. QED
        BY <1>5, <2>2, <3>1, <3>4, OnTyping DEF Consume, Statements
    <2>5. QED
      BY <2>3, <2>4
  <1>6. CASE LockUser(r)
    <2>1. Fits(q, "count", now)
      BY <1>1, <1>6 DEF LockUser, Fits
    <2>2. RequestsWhole'
      BY <1>6, <2>1, EndTyping, OnTyping DEF LockUser, Statements
    <2>3. QED
      BY <1>6, <2>2 DEF LockUser, TablesWhole, tables, There
  <1>7. CASE CountPasskeys(r)
    <2>1. Fits(q, "insert", now)
      BY <1>1, <1>7 DEF CountPasskeys, Fits
    <2>2. RequestsWhole'
      BY <1>7, <2>1, EndTyping, OnTyping DEF CountPasskeys, Statements
    <2>3. QED
      BY <1>7, <2>2 DEF CountPasskeys, TablesWhole, tables, There
  <1>8. CASE CreatePasskey(r)
    <2>1. q.cred \in Creds /\ q.user \in Users /\ q.count \in Nat
      BY <1>1, <1>8 DEF CreatePasskey, Fits, RequestType
    <2>2. [state |-> "there", owner |-> q.user, count |-> q.count] \in Passkeys
      BY <2>1 DEF Passkeys
    <2>3. TablesWhole'
      BY <1>8, <2>1, <2>2 DEF CreatePasskey, TablesWhole, There
    <2>4. QED
      BY <1>8, <2>3, EndTyping DEF CreatePasskey
  <1>9. CASE Lookup(r)
    <2>1. ASSUME NEW u \in Users
          PROVE  /\ [q EXCEPT !.user = u] \in RequestType
                 /\ Fits([q EXCEPT !.user = u], "record", now)
      BY <1>1, <1>9 DEF Lookup, Fits, RequestType
    <2>2. RequestsWhole'
      BY <1>9, <2>1, EndTyping, GoTyping DEF Lookup, Statements, RequestsWhole
    <2>3. QED
      BY <1>9, <2>2 DEF Lookup, TablesWhole, tables, There
  <1>10. CASE RecordUse(r)
    <2>1. q.cred \in Creds /\ q.count \in Nat
      BY <1>1, <1>10 DEF RecordUse, Fits, RequestType
    <2>2. Fits(q, "find", now)
      BY <1>1, <1>10 DEF RecordUse, Fits
    <2>3. RequestsWhole'
      BY <1>10, <2>2, EndTyping, OnTyping DEF RecordUse, Statements
    <2>4. TablesWhole'
      BY <1>10, <2>1 DEF RecordUse, Recordable, TablesWhole, There, Passkeys
    <2>5. QED
      BY <2>3, <2>4
  <1>11. CASE FindUser(r)
    <2>1. Fits(q, "purge", now)
      BY <1>1, <1>11 DEF FindUser, Fits
    <2>2. RequestsWhole'
      BY <1>11, <2>1, EndTyping, OnTyping DEF FindUser, Statements
    <2>3. QED
      BY <1>11, <2>2 DEF FindUser, TablesWhole, tables, There
  <1>12. CASE PurgeSessions(r)
    <2>1. [q EXCEPT !.at = now] \in RequestType /\ Fits([q EXCEPT !.at = now], "create", now)
      BY <1>1, <1>12 DEF PurgeSessions, RequestType, Fits
    <2>2. RequestsWhole'
      BY <1>12, <2>1, GoTyping DEF PurgeSessions, Statements, RequestsWhole
    <2>3. TablesWhole'
      BY <1>2, <1>12 DEF PurgeSessions, TablesWhole, There
    <2>4. QED
      BY <2>2, <2>3
  <1>13. CASE CreateSession(r)
    <2>1. [user |-> q.user, expires |-> q.at + SessionTTL] \in Sessions
      BY <1>1, <1>13, PasskeyAssumption DEF CreateSession, RequestType, Sessions
    <2>2. TablesWhole'
      BY <1>13, <2>1 DEF CreateSession, TablesWhole, There
    <2>3. QED
      BY <1>13, <2>2, EndTyping DEF CreateSession
  <1>14. QED
    BY <1>3, <1>4, <1>5, <1>6, <1>7, <1>8, <1>9, <1>10, <1>11, <1>12, <1>13 DEF Serve

LEMMA NextTyping == Typing /\ [Next]_vars => Typing'
  <1> SUFFICES ASSUME Typing, [Next]_vars
               PROVE  Typing'
    OBVIOUS
  <1>1. ASSUME NEW r \in Requests, Fail(r)
        PROVE  Typing'
    BY <1>1, EndTyping DEF Fail, Typing, TablesWhole, tables, There
  <1>2. ASSUME NEW c \in Creds, Delete(c)
        PROVE  Typing'
    <2> DEFINE gone == [NoPasskey EXCEPT !.state = "gone"]
    <2>1. gone \in Passkeys /\ gone.state = "gone" /\ gone.owner = None /\ gone.count = 0
      BY BlankRows
    <2>2. passkey' = [passkey EXCEPT ![c] = gone]
      BY <1>2 DEF Delete
    <2> HIDE DEF gone
    <2>3. TablesWhole'
      BY <1>2, <2>1, <2>2 DEF Delete, Typing, TablesWhole, There
    <2>4. QED
      BY <1>2, <2>3 DEF Delete, Typing, RequestsWhole
  <1>3. ASSUME NEW h \in Tokens, Logout(h)
        PROVE  Typing'
    BY <1>3, BlankRows DEF Logout, Typing, RequestsWhole, TablesWhole, There
  <1>4. ASSUME NEW u \in Users, RemoveUser(u)
        PROVE  Typing'
    <2> DEFINE gone == [NoPasskey EXCEPT !.state = "gone"]
    <2>1. gone \in Passkeys /\ gone.state = "gone" /\ gone.owner = None /\ gone.count = 0
      BY BlankRows
    <2>2. passkey' = [c \in Creds |-> IF passkey[c].owner = u THEN gone ELSE passkey[c]]
      BY <1>4 DEF RemoveUser
    <2> HIDE DEF gone
    <2>3. TablesWhole'
      BY <1>4, <2>1, <2>2, BlankRows DEF RemoveUser, Typing, TablesWhole, There
    <2>4. QED
      BY <1>4, <2>3 DEF RemoveUser, Typing, RequestsWhole
  <1>5. CASE Tick
    <2>1. now \in Nat /\ now' = now + 1 /\ now' \in Instants
      BY <1>5, PasskeyAssumption DEF Tick, Typing, RequestsWhole, Instants
    <2>2. QED
      BY <1>5, <2>1, PasskeyAssumption
      DEF Tick, tables, Typing, RequestsWhole, TablesWhole, Fits, There, RequestType
  <1>6. CASE UNCHANGED vars
    BY <1>6 DEF vars, tables, Typing, RequestsWhole, TablesWhole, There
  <1>7. QED
    BY <1>1, <1>2, <1>3, <1>4, <1>5, <1>6, AskTyping, ServeTyping DEF Next

\* The types of the state hold in every reachable state.
THEOREM TypesHold == Spec => []TypeOK
  <1>1. Spec => []Typing
    BY InitTyping, NextTyping, PTL DEF Spec
  <1>2. QED
    BY <1>1, TypingTypeOK, PTL

-----------------------------------------------------------------------------
(* The limit of passkeys *)

\* The request has locked its user, and decides whether he may have one more passkey.
Deciding(r) == pc[r] \in {"count", "insert"}

\* One request decides for a user at a time.
DecidesAlone ==
    \A r, s \in Requests :
        Deciding(r) /\ Deciding(s) /\ request[r].user = request[s].user => r = s

\* What was counted still holds when the passkey is inserted.
RoomIsLeft ==
    \A r \in Requests :
        pc[r] = "insert" => Cardinality(OwnedBy(request[r].user)) < MaxPasskeysPerUser

Room == DecidesAlone /\ RoomIsLeft /\ PasskeysWithinLimit

LEMMA OwnedFinite ==
    ASSUME NEW u
    PROVE  IsFiniteSet(OwnedBy(u)) /\ Cardinality(OwnedBy(u)) \in Nat
  <1>1. OwnedBy(u) \in SUBSET Creds
    BY DEF OwnedBy
  <1>2. QED
    BY <1>1, FS_Subset, FS_CardinalityType, PasskeyAssumption

LEMMA InitRoom == Init => Room
  <1> SUFFICES ASSUME Init
               PROVE  Room
    OBVIOUS
  <1>1. PICK owner \in [Creds -> Users \cup {None}], count \in Counts :
            /\ passkey = [c \in Creds |->
                  IF owner[c] = None THEN NoPasskey
                  ELSE [state |-> "there", owner |-> owner[c], count |-> count]]
            /\ \A u \in Users :
                  Cardinality({c \in Creds : owner[c] = u}) <= MaxPasskeysPerUser
    BY DEF Init
  <1>2. ASSUME NEW u \in Users
        PROVE  OwnedBy(u) = {c \in Creds : owner[c] = u}
    BY <1>1, PasskeyAssumption DEF OwnedBy, There, NoPasskey
  <1>3. PasskeysWithinLimit
    BY <1>1, <1>2 DEF PasskeysWithinLimit
  <1>4. QED
    BY <1>3 DEF Init, Room, DecidesAlone, RoomIsLeft, Deciding

\* A step after which nobody has begun to decide and nobody has one more passkey.
LEMMA RoomKept ==
    ASSUME Typing, Room,
           \A s \in Requests : Deciding(s)' =>
               pc'[s] = pc[s] /\ request'[s].user = request[s].user,
           \A u \in Users : OwnedBy(u)' \subseteq OwnedBy(u)
    PROVE  Room'
  <1>1. \A u \in Users : Cardinality(OwnedBy(u))' <= Cardinality(OwnedBy(u))
    BY OwnedFinite, FS_Subset
  <1>2. \A u \in Users : Cardinality(OwnedBy(u)) \in Nat
    BY OwnedFinite
  <1>3. \A u \in Users : Cardinality(OwnedBy(u))' \in Nat
    <2>1. ASSUME NEW u \in Users
          PROVE  Cardinality(OwnedBy(u))' \in Nat
      BY OwnedFinite, FS_Subset, FS_CardinalityType
    <2>2. QED
      BY <2>1
  <1>4. \A s \in Requests : Deciding(s) => request[s].user \in Users
    BY DEF Deciding, Typing, RequestsWhole, Fits
  <1>5. MaxPasskeysPerUser \in Nat
    BY PasskeyAssumption
  <1>6. DecidesAlone'
    BY DEF Room, DecidesAlone, Deciding
  <1>7. RoomIsLeft'
    BY <1>1, <1>2, <1>3, <1>4, <1>5 DEF Room, RoomIsLeft, Deciding
  <1>8. PasskeysWithinLimit'
    BY <1>1, <1>2, <1>3, <1>5 DEF Room, PasskeysWithinLimit
  <1>9. QED
    BY <1>6, <1>7, <1>8 DEF Room

\* Request r has locked its user: nobody else decides for him.
LEMMA LockRoom ==
    ASSUME Typing, Room, NEW r \in Requests, LockUser(r)
    PROVE  Room'
  <1>1. passkey' = passkey
    BY DEF LockUser, tables
  <1>2. \A u \in Users : OwnedBy(u)' = OwnedBy(u)
    BY <1>1 DEF OwnedBy, There
  <1>3. CASE request[r].user \in users
    <2>1. /\ pc' = [pc EXCEPT ![r] = "count"] /\ UNCHANGED request
          /\ UserFree(request[r].user)
      BY <1>3 DEF LockUser, Go
    <2>2. DecidesAlone'
      BY <2>1 DEF Room, DecidesAlone, Deciding, UserFree, Typing, RequestsWhole
    <2>3. RoomIsLeft'
      BY <1>1, <2>1 DEF Room, RoomIsLeft, OwnedBy, There, Typing, RequestsWhole
    <2>4. PasskeysWithinLimit'
      BY <1>2 DEF Room, PasskeysWithinLimit
    <2>5. QED
      BY <2>2, <2>3, <2>4 DEF Room
  <1>4. CASE request[r].user \notin users
    <2>1. \A s \in Requests : Deciding(s)' =>
              pc'[s] = pc[s] /\ request'[s].user = request[s].user
      BY <1>4 DEF LockUser, End, Go, Deciding, Typing, RequestsWhole
    <2>2. QED
      BY <1>2, <2>1, RoomKept
  <1>5. QED
    BY <1>3, <1>4

LEMMA CountRoom ==
    ASSUME Typing, Room, NEW r \in Requests, CountPasskeys(r)
    PROVE  Room'
  <1>1. passkey' = passkey
    BY DEF CountPasskeys, tables
  <1>2. \A u : OwnedBy(u)' = OwnedBy(u)
    BY <1>1 DEF OwnedBy, There
  <1>3. CASE Cardinality(OwnedBy(request[r].user)) < MaxPasskeysPerUser
    <2>1. pc' = [pc EXCEPT ![r] = "insert"] /\ UNCHANGED request /\ pc[r] = "count"
      BY <1>3 DEF CountPasskeys, Go
    <2>2. DecidesAlone'
      BY <2>1 DEF Room, DecidesAlone, Deciding, Typing, RequestsWhole
    <2>3. RoomIsLeft'
      BY <1>2, <1>3, <2>1 DEF Room, RoomIsLeft, Typing, RequestsWhole
    <2>4. PasskeysWithinLimit'
      BY <1>2 DEF Room, PasskeysWithinLimit
    <2>5. QED
      BY <2>2, <2>3, <2>4 DEF Room
  <1>4. CASE ~(Cardinality(OwnedBy(request[r].user)) < MaxPasskeysPerUser)
    <2>1. \A s \in Requests : Deciding(s)' =>
              pc'[s] = pc[s] /\ request'[s].user = request[s].user
      BY <1>4 DEF CountPasskeys, End, Go, Deciding, Typing, RequestsWhole
    <2>2. QED
      BY <1>2, <2>1, RoomKept
  <1>5. QED
    BY <1>3, <1>4

\* The passkey that is inserted is one more for its owner alone, who had room for it.
LEMMA CreateRoom ==
    ASSUME Typing, Room, NEW r \in Requests, CreatePasskey(r)
    PROVE  Room'
  <1>1. PICK u \in Users, c \in Creds : u = request[r].user /\ c = request[r].cred
    BY DEF CreatePasskey, Typing, RequestsWhole, Fits
  <1>2. /\ pc[r] = "insert"
        /\ pc' = [pc EXCEPT ![r] = "idle"] /\ request' = [request EXCEPT ![r] = NoRequest]
    BY DEF CreatePasskey, End, Go
  <1>3. CASE passkey[c].state # "none"
    <2>1. \A v \in Users : OwnedBy(v)' = OwnedBy(v)
      BY <1>1, <1>3 DEF CreatePasskey, OwnedBy, There
    <2>2. \A s \in Requests : Deciding(s)' =>
              pc'[s] = pc[s] /\ request'[s].user = request[s].user
      BY <1>2 DEF Deciding, Typing, RequestsWhole
    <2>3. QED
      BY <2>1, <2>2, RoomKept
  <1>4. CASE passkey[c].state = "none"
    <2>1. passkey' = [passkey EXCEPT ![c] =
                          [state |-> "there", owner |-> u, count |-> request[r].count]]
      BY <1>1, <1>4 DEF CreatePasskey
    <2>2. OwnedBy(u)' = OwnedBy(u) \cup {c} /\ c \notin OwnedBy(u)
      BY <1>4, <2>1 DEF OwnedBy, There, Typing, TablesWhole
    <2>3. \A v \in Users : v # u => OwnedBy(v)' = OwnedBy(v)
      BY <1>4, <2>1 DEF OwnedBy, There, Typing, TablesWhole
    <2>4. Cardinality(OwnedBy(u)') = Cardinality(OwnedBy(u)) + 1
      BY <2>2, OwnedFinite, FS_AddElement
    <2>5. /\ Cardinality(OwnedBy(u)) < MaxPasskeysPerUser
          /\ Cardinality(OwnedBy(u)) \in Nat /\ MaxPasskeysPerUser \in Nat
      BY <1>1, <1>2, OwnedFinite, PasskeyAssumption DEF Room, RoomIsLeft
    <2>6. PasskeysWithinLimit'
      BY <2>3, <2>4, <2>5 DEF Room, PasskeysWithinLimit
    <2>7. DecidesAlone'
      BY <1>2 DEF Room, DecidesAlone, Deciding, Typing, RequestsWhole
    <2>8. ASSUME NEW s \in Requests, pc'[s] = "insert"
          PROVE  Cardinality(OwnedBy(request[s].user))' < MaxPasskeysPerUser
      <3>1. s # r /\ pc[s] = "insert" /\ request'[s] = request[s]
        BY <1>2, <2>8 DEF Typing, RequestsWhole
      <3>2. PICK v \in Users : v = request[s].user
        BY <3>1 DEF Typing, RequestsWhole, Fits
      <3>3. v # u
        BY <1>1, <1>2, <3>1, <3>2 DEF Room, DecidesAlone, Deciding
      <3>4. Cardinality(OwnedBy(v)') < MaxPasskeysPerUser
        BY <2>3, <3>1, <3>2, <3>3 DEF Room, RoomIsLeft
      <3>5. QED
        BY <3>1, <3>2, <3>4
    <2>9. QED
      BY <2>6, <2>7, <2>8 DEF Room, RoomIsLeft
  <1>5. QED
    BY <1>3, <1>4

LEMMA NextRoom == Typing /\ Room /\ [Next]_vars => Room'
  <1> SUFFICES ASSUME Typing, Room, [Next]_vars
               PROVE  Room'
    OBVIOUS
  <1> DEFINE NoneBegins == \A s \in Requests : Deciding(s)' =>
                               pc'[s] = pc[s] /\ request'[s].user = request[s].user
             NoneGains  == \A u \in Users : OwnedBy(u)' \subseteq OwnedBy(u)
  <1>1. passkey' = passkey => NoneGains
    BY DEF OwnedBy, There
  <1>2. ASSUME NEW r \in Requests, NEW to \in Statements \ {"count", "insert"},
               Go(r, to), \A s \in Requests \ {r} : request'[s] = request[s]
        PROVE  NoneBegins
    BY <1>2 DEF Go, Deciding, Typing, RequestsWhole
  <1>3. ASSUME NEW r \in Requests, End(r)
        PROVE  NoneBegins
    BY <1>2, <1>3 DEF End, Statements, Typing, RequestsWhole
  <1>4. ASSUME NEW r \in Requests, Ask(r)
        PROVE  Room'
    <2>1. passkey' = passkey
      BY <1>4 DEF Ask, LoginBegin, RegisterBegin, LoginFinish, RegisterFinish, tables
    <2>2. \E to \in {"clean", "consume"} : \E q : Begin(r, to, q)
      BY <1>4 DEF Ask, LoginBegin, RegisterBegin, LoginFinish, RegisterFinish
    <2>3. NoneBegins
      BY <1>2, <2>2 DEF Begin, Statements, Typing, RequestsWhole
    <2>4. QED
      BY <1>1, <2>1, <2>3, RoomKept
  <1>5. ASSUME NEW r \in Requests, Serve(r)
        PROVE  Room'
    <2>1. CASE LockUser(r)
      BY <2>1, LockRoom
    <2>2. CASE CountPasskeys(r)
      BY <2>2, CountRoom
    <2>3. CASE CreatePasskey(r)
      BY <2>3, CreateRoom
    <2>4. CASE CleanChallenges(r) \/ PurgeSessions(r)
      <3>1. NoneBegins
        BY <1>2, <2>4 DEF CleanChallenges, PurgeSessions, Statements, Typing, RequestsWhole
      <3>2. QED
        BY <1>1, <2>4, <3>1, RoomKept DEF CleanChallenges, PurgeSessions
    <2>5. CASE StoreChallenge(r) \/ CreateSession(r)
      BY <1>1, <1>3, <2>5, RoomKept DEF StoreChallenge, CreateSession
    <2>6. CASE Consume(r)
      <3>1. NoneBegins
        BY <1>2, <1>3, <2>6 DEF Consume, Statements
      <3>2. QED
        BY <1>1, <2>6, <3>1, RoomKept DEF Consume
    <2>7. CASE Lookup(r)
      <3>1. NoneBegins
        BY <1>2, <1>3, <2>7 DEF Lookup, Statements, Typing, RequestsWhole
      <3>2. QED
        BY <1>1, <2>7, <3>1, RoomKept DEF Lookup, tables
    <2>8. CASE FindUser(r)
      <3>1. NoneBegins
        BY <1>2, <1>3, <2>8 DEF FindUser, Statements
      <3>2. QED
        BY <1>1, <2>8, <3>1, RoomKept DEF FindUser, tables
    <2>9. CASE RecordUse(r)
      <3>1. NoneBegins
        BY <1>2, <1>3, <2>9 DEF RecordUse, Statements
      <3>2. NoneGains
        BY <2>9 DEF RecordUse, OwnedBy, There, Typing, TablesWhole, Passkeys
      <3>3. QED
        BY <3>1, <3>2, RoomKept
    <2>10. QED
      BY <1>5, <2>1, <2>2, <2>3, <2>4, <2>5, <2>6, <2>7, <2>8, <2>9 DEF Serve
  <1>6. ASSUME NEW r \in Requests, Fail(r)
        PROVE  Room'
    BY <1>1, <1>3, <1>6, RoomKept DEF Fail, tables
  <1>7. UNCHANGED <<pc, request>> => NoneBegins
    OBVIOUS
  <1>8. ASSUME NEW c \in Creds, Delete(c)
        PROVE  Room'
    <2>1. NoneGains
      BY <1>8 DEF Delete, NoPasskey, OwnedBy, There, Typing, TablesWhole
    <2>2. QED
      BY <1>7, <1>8, <2>1, RoomKept DEF Delete
  <1>9. ASSUME NEW u \in Users, RemoveUser(u)
        PROVE  Room'
    <2>1. NoneGains
      BY <1>9 DEF RemoveUser, NoPasskey, OwnedBy, There, Typing, TablesWhole
    <2>2. QED
      BY <1>7, <1>9, <2>1, RoomKept DEF RemoveUser
  <1>10. CASE Tick \/ UNCHANGED vars \/ \E h \in Tokens : Logout(h)
    BY <1>1, <1>7, <1>10, RoomKept DEF Tick, vars, Logout, tables
  <1>11. QED
    BY <1>4, <1>5, <1>6, <1>8, <1>9, <1>10 DEF Next

\* However many registrations of a user are finished at once, he has no more passkeys
\* than the limit, for every limit (store/passkey.go, Create).
THEOREM LimitHolds == Spec => []PasskeysWithinLimit
  <1>1. Spec => [](Typing /\ Room)
    BY InitTyping, NextTyping, InitRoom, NextRoom, PTL DEF Spec
  <1>2. Room => PasskeysWithinLimit
    BY DEF Room
  <1>3. QED
    BY <1>1, <1>2, PTL

-----------------------------------------------------------------------------
(* The counts of logins that were let in *)

\* The login has found its passkey, and its user.
Met(r) == pc[r] = "record" \/ Passed(r)

\* The passkey of a login was there; as long as it is, it is the same user's, and its
\* count is not below the one that let the login in.
Remembers(r) ==
    LET c == request[r].cred
    IN  /\ passkey[c].state # "none"
        /\ There(c) => /\ passkey[c].owner = request[r].user
                       /\ Passed(r) => request[r].count <= passkey[c].count

PasskeyRemembered == \A r \in Requests : Met(r) => Remembers(r)

CountsOrdered == PasskeyRemembered /\ CountsDiffer

\* A passkey that was there does not change its owner, and its count does not fall.
PasskeysAge ==
    \A c \in Creds : passkey[c].state # "none" =>
        /\ passkey'[c].state # "none"
        /\ passkey'[c].state = "there" =>
               /\ There(c) /\ passkey'[c].owner = passkey[c].owner
               /\ passkey[c].count <= passkey'[c].count

LEMMA NextAges == Typing /\ [Next]_vars => PasskeysAge
  <1> SUFFICES ASSUME Typing, [Next]_vars
               PROVE  PasskeysAge
    OBVIOUS
  <1>1. passkey' = passkey => PasskeysAge
    BY DEF PasskeysAge, There, Typing, TablesWhole, Passkeys
  <1>2. ASSUME NEW r \in Requests, CreatePasskey(r)
        PROVE  PasskeysAge
    BY <1>2 DEF CreatePasskey, PasskeysAge, There, Typing, TablesWhole, Passkeys,
                RequestsWhole, Fits
  <1>3. ASSUME NEW r \in Requests, RecordUse(r)
        PROVE  PasskeysAge
    <2>1. request[r].cred \in Creds /\ request[r].count \in Nat
      BY <1>3 DEF RecordUse, Typing, RequestsWhole, Fits, RequestType
    <2>2. QED
      BY <1>3, <2>1 DEF RecordUse, Recordable, Rises, PasskeysAge, There, Typing,
                        TablesWhole, Passkeys
  <1>4. ASSUME NEW c \in Creds, Delete(c)
        PROVE  PasskeysAge
    <2> DEFINE gone == [NoPasskey EXCEPT !.state = "gone"]
    <2>1. gone.state = "gone" /\ passkey' = [passkey EXCEPT ![c] = gone]
      BY <1>4, BlankRows DEF Delete
    <2> HIDE DEF gone
    <2>2. QED
      BY <2>1 DEF PasskeysAge, There, Typing, TablesWhole, Passkeys
  <1>5. ASSUME NEW u \in Users, RemoveUser(u)
        PROVE  PasskeysAge
    <2> DEFINE gone == [NoPasskey EXCEPT !.state = "gone"]
    <2>1. /\ gone.state = "gone"
          /\ passkey' = [c \in Creds |-> IF passkey[c].owner = u THEN gone ELSE passkey[c]]
      BY <1>5, BlankRows DEF RemoveUser
    <2> HIDE DEF gone
    <2>2. QED
      BY <2>1 DEF PasskeysAge, There, Typing, TablesWhole, Passkeys
  <1>6. ASSUME NEW r \in Requests, Ask(r) \/ Fail(r)
        PROVE  PasskeysAge
    BY <1>1, <1>6 DEF Ask, LoginBegin, RegisterBegin, LoginFinish, RegisterFinish, Fail, tables
  <1>7. ASSUME NEW r \in Requests, Serve(r)
        PROVE  PasskeysAge
    BY <1>1, <1>2, <1>3, <1>7
    DEF Serve, CleanChallenges, StoreChallenge, Consume, LockUser, CountPasskeys, Lookup,
        FindUser, PurgeSessions, CreateSession, tables
  <1>8. CASE Tick \/ UNCHANGED vars \/ \E h \in Tokens : Logout(h)
    BY <1>1, <1>8 DEF Tick, vars, Logout, tables
  <1>9. QED
    BY <1>4, <1>5, <1>6, <1>7, <1>8 DEF Next

\* A step that finds no passkey for a login and lets nobody in.
LEMMA CountsKept ==
    ASSUME Typing, Typing', CountsOrdered, PasskeysAge,
           \A s \in Requests : Met(s)' =>
               /\ Met(s) /\ (Passed(s)' => Passed(s))
               /\ request'[s].user = request[s].user /\ request'[s].cred = request[s].cred
               /\ request'[s].count = request[s].count
    PROVE  CountsOrdered'
  <1>1. ASSUME NEW s \in Requests, Met(s)'
        PROVE  Remembers(s)'
    <2>1. PICK c \in Creds : c = request[s].cred /\ c = request'[s].cred
      BY <1>1 DEF Met, Passed, Typing, RequestsWhole, Fits
    <2>2. /\ passkey[c].count \in Nat /\ passkey'[c].count \in Nat
          /\ request[s].count \in Nat
      BY DEF Typing, TablesWhole, RequestsWhole, Passkeys, RequestType
    <2>3. /\ passkey[c].state # "none"
          /\ There(c) => /\ passkey[c].owner = request[s].user
                         /\ Passed(s) => request[s].count <= passkey[c].count
      BY <1>1, <2>1 DEF CountsOrdered, PasskeyRemembered, Remembers
    <2>4. QED
      BY <1>1, <2>1, <2>2, <2>3 DEF Remembers, PasskeysAge, There
  <1>2. PasskeyRemembered'
    BY <1>1 DEF PasskeyRemembered
  <1>3. CountsDiffer'
    BY DEF CountsOrdered, CountsDiffer, Met
  <1>4. QED
    BY <1>2, <1>3 DEF CountsOrdered

\* Lookup: the owner of the passkey becomes the user of the login.
LEMMA LookupCounts ==
    ASSUME Typing, Typing', CountsOrdered, PasskeysAge, NEW r \in Requests, Lookup(r)
    PROVE  CountsOrdered'
  <1>1. CASE End(r)
    <2>1. \A s \in Requests : Met(s)' => s # r /\ pc'[s] = pc[s] /\ request'[s] = request[s]
      BY <1>1 DEF End, Go, Met, Passed, Typing, RequestsWhole
    <2>2. QED
      BY <2>1, CountsKept DEF Met, Passed
  <1>2. CASE ~End(r)
    <2>1. PICK u \in Users : /\ There(request[r].cred) /\ passkey[request[r].cred].owner = u
                             /\ Go(r, "record") /\ request' = [request EXCEPT ![r].user = u]
      BY <1>2 DEF Lookup
    <2>2. /\ pc' = [pc EXCEPT ![r] = "record"] /\ passkey' = passkey
          /\ request'[r].user = u /\ request'[r].cred = request[r].cred
          /\ \A s \in Requests : s # r => request'[s] = request[s]
      BY <2>1 DEF Lookup, Go, tables, Typing, RequestsWhole, RequestType
    <2>3. PasskeyRemembered'
      BY <2>1, <2>2 DEF CountsOrdered, PasskeyRemembered, Remembers, Met, Passed, There, Typing, RequestsWhole
    <2>4. CountsDiffer'
      BY <2>2 DEF CountsOrdered, CountsDiffer, Passed, Typing, RequestsWhole
    <2>5. QED
      BY <2>3, <2>4 DEF CountsOrdered
  <1>3. QED
    BY <1>1, <1>2

\* RecordUse: the count that lets this login in is above those that let in others.
LEMMA RecordCounts ==
    ASSUME Typing, Typing', CountsOrdered, PasskeysAge, NEW r \in Requests, RecordUse(r)
    PROVE  CountsOrdered'
  <1>1. CASE End(r)
    <2>1. \A s \in Requests : Met(s)' => s # r /\ pc'[s] = pc[s] /\ request'[s] = request[s]
      BY <1>1 DEF End, Go, Met, Passed, Typing, RequestsWhole
    <2>2. QED
      BY <2>1, CountsKept DEF Met, Passed
  <1>2. CASE ~End(r)
    <2>1. PICK c \in Creds, n \in Nat : c = request[r].cred /\ n = request[r].count
      BY DEF RecordUse, Typing, RequestsWhole, Fits, RequestType
    <2>2. /\ There(c) /\ Rises(passkey[c].count, n)
          /\ passkey' = [passkey EXCEPT ![c].count = n]
          /\ pc' = [pc EXCEPT ![r] = "find"] /\ request' = request /\ pc[r] = "record"
      BY <1>2, <2>1 DEF RecordUse, Recordable, Go
    <2>3. ASSUME NEW s \in Requests, Passed(s), request[s].cred = c, request[s].count = n
          PROVE  n = 0
      <3>1. n <= passkey[c].count /\ passkey[c].count \in Nat
        BY <2>2, <2>3
        DEF CountsOrdered, PasskeyRemembered, Remembers, Met, Typing, TablesWhole, Passkeys
      <3>2. QED
        BY <2>2, <3>1 DEF Rises
    <2>4. CountsDiffer'
      BY <2>1, <2>2, <2>3 DEF CountsOrdered, CountsDiffer, Passed, Typing, RequestsWhole
    <2>5. ASSUME NEW s \in Requests, Met(s)'
          PROVE  Remembers(s)'
      <3>1. PICK d \in Creds : d = request[s].cred
        BY <2>2, <2>5 DEF Met, Passed, Typing, RequestsWhole, Fits
      <3>2. Met(s) /\ (s # r => (Passed(s)' => Passed(s)))
        BY <2>2, <2>5 DEF Met, Passed, Typing, RequestsWhole
      <3>3. /\ passkey[d].state # "none"
            /\ There(d) => /\ passkey[d].owner = request[s].user
                           /\ Passed(s) => request[s].count <= passkey[d].count
        BY <3>1, <3>2 DEF CountsOrdered, PasskeyRemembered, Remembers
      <3>4. /\ passkey[d].count \in Nat /\ passkey'[d].count \in Nat
            /\ request[s].count \in Nat
        BY DEF Typing, TablesWhole, RequestsWhole, Passkeys, RequestType
      <3>5. s = r => d = c /\ passkey'[c].count = n /\ request[s].count = n
        BY <2>1, <2>2, <3>1 DEF Typing, TablesWhole, Passkeys
      <3>6. QED
        BY <2>2, <2>5, <3>1, <3>2, <3>3, <3>4, <3>5 DEF Remembers, PasskeysAge, There
    <2>6. QED
      BY <2>4, <2>5 DEF CountsOrdered, PasskeyRemembered, Remembers
  <1>3. QED
    BY <1>1, <1>2

LEMMA NextCounts == Typing /\ Typing' /\ CountsOrdered /\ [Next]_vars => CountsOrdered'
  <1> SUFFICES ASSUME Typing, Typing', CountsOrdered, [Next]_vars
               PROVE  CountsOrdered'
    OBVIOUS
  <1> DEFINE NobodyMet ==
                 \A s \in Requests : Met(s)' =>
                     /\ Met(s) /\ (Passed(s)' => Passed(s))
                     /\ request'[s].user = request[s].user
                     /\ request'[s].cred = request[s].cred
                     /\ request'[s].count = request[s].count
  <1>1. PasskeysAge
    BY NextAges
  <1>2. ASSUME NEW r \in Requests, NEW to \in Statements \ {"record", "find", "purge", "create"},
               Go(r, to), \A s \in Requests \ {r} : request'[s] = request[s]
        PROVE  NobodyMet
    BY <1>2 DEF Go, Met, Passed, Typing, RequestsWhole
  <1>3. ASSUME NEW r \in Requests, End(r)
        PROVE  NobodyMet
    BY <1>2, <1>3 DEF End, Statements, Typing, RequestsWhole
  <1>4. ASSUME NEW r \in Requests, Passed(r), NEW to \in {"purge", "create"}, Go(r, to),
               \/ request' = request
               \/ request' = [request EXCEPT ![r].at = now]
        PROVE  NobodyMet
    BY <1>4 DEF Go, Met, Passed, Typing, RequestsWhole, RequestType
  <1>5. ASSUME NEW r \in Requests, Ask(r)
        PROVE  NobodyMet
    <2>1. \E to \in {"clean", "consume"} : \E q : Begin(r, to, q)
      BY <1>5 DEF Ask, LoginBegin, RegisterBegin, LoginFinish, RegisterFinish
    <2>2. QED
      BY <1>2, <2>1 DEF Begin, Statements, Typing, RequestsWhole
  <1>6. ASSUME NEW r \in Requests, Serve(r), ~Lookup(r), ~RecordUse(r)
        PROVE  NobodyMet
    <2>1. CASE CleanChallenges(r)
      BY <1>2, <2>1 DEF CleanChallenges, Statements, Typing, RequestsWhole
    <2>2. CASE StoreChallenge(r) \/ CreateSession(r) \/ CreatePasskey(r)
      BY <1>3, <2>2 DEF StoreChallenge, CreateSession, CreatePasskey
    <2>3. CASE Consume(r)
      BY <1>2, <1>3, <2>3 DEF Consume, Statements
    <2>4. CASE LockUser(r) \/ CountPasskeys(r)
      BY <1>2, <1>3, <2>4 DEF LockUser, CountPasskeys, Statements
    <2>5. CASE FindUser(r) \/ PurgeSessions(r)
      BY <1>3, <1>4, <2>5 DEF FindUser, PurgeSessions, Passed
    <2>6. QED
      BY <1>6, <2>1, <2>2, <2>3, <2>4, <2>5 DEF Serve
  <1>7. UNCHANGED <<pc, request>> => NobodyMet
    BY DEF Met, Passed
  <1>8. NobodyMet \/ \E r \in Requests : Lookup(r) \/ RecordUse(r)
    BY <1>3, <1>5, <1>6, <1>7 DEF Next, Fail, Delete, Logout, RemoveUser, Tick, vars
  <1>9. QED
    BY <1>1, <1>8, CountsKept, LookupCounts, RecordCounts

LEMMA InitCounts == Init => CountsOrdered
  BY DEF Init, CountsOrdered, PasskeyRemembered, CountsDiffer, Met, Passed

\* Logins with one passkey that are let in at the same time have sent different counts,
\* unless the authenticator does not count (service.go, FinishLogin; store/passkey.go,
\* UpdateUsage).
THEOREM CountsHold == Spec => []CountsDiffer
  <1>1. Typing /\ CountsOrdered /\ [Next]_vars => (Typing /\ CountsOrdered)'
    BY NextTyping, NextCounts
  <1>2. Spec => [](Typing /\ CountsOrdered)
    BY <1>1, InitTyping, InitCounts, PTL DEF Spec
  <1>3. CountsOrdered => CountsDiffer
    BY DEF CountsOrdered
  <1>4. QED
    BY <1>2, <1>3, PTL

-----------------------------------------------------------------------------
(* The ceremonies implement PasskeyLedger *)

\* The request has used up its challenge.
Held(r) == Taken(r) \/ Passed(r)

\* A challenge that is used up stays so, and one ceremony has used it up.
HeldOnce ==
    /\ \A r \in Requests : Held(r) => challenge[request[r].token].state = "spent"
    /\ \A r, s \in Requests :
           Held(r) /\ Held(s) /\ request[r].token = request[s].token => r = s

LEMMA InitHeldOnce == Init => HeldOnce
  BY DEF Init, HeldOnce, Held, Taken, Passed

LEMMA SpentStays ==
    ASSUME Typing, [Next]_vars, NEW h \in Tokens, challenge[h].state = "spent"
    PROVE  challenge'[h].state = "spent"
  <1>1. Spent.state = "spent"
    BY BlankRows
  <1>2. challenge' = challenge => challenge'[h].state = "spent"
    OBVIOUS
  <1>3. ASSUME NEW r \in Requests, Ask(r)
        PROVE  challenge' = challenge
    BY <1>3 DEF Ask, LoginBegin, RegisterBegin, LoginFinish, RegisterFinish, tables
  <1>4. ASSUME NEW r \in Requests, Serve(r)
        PROVE  challenge'[h].state = "spent"
    <2>1. CASE CleanChallenges(r)
      BY <1>1, <2>1 DEF CleanChallenges
    <2>2. CASE StoreChallenge(r)
      BY <2>2 DEF StoreChallenge, Typing, TablesWhole
    <2>3. CASE Consume(r)
      BY <1>1, <2>3 DEF Consume, UseUp, Typing, TablesWhole
    <2>4. CASE challenge' = challenge
      BY <2>4
    <2>5. QED
      BY <1>4, <2>1, <2>2, <2>3, <2>4
      DEF Serve, LockUser, CountPasskeys, CreatePasskey, Lookup, RecordUse, FindUser,
          PurgeSessions, CreateSession, tables
  <1>5. ASSUME NEW u \in Users, RemoveUser(u)
        PROVE  challenge'[h].state = "spent"
    BY <1>1, <1>5 DEF RemoveUser
  <1>6. QED
    BY <1>2, <1>3, <1>4, <1>5 DEF Next, Fail, Delete, Logout, Tick, vars, tables

\* Consume takes a challenge that is open; nothing else takes one.
LEMMA NextTakes ==
    ASSUME Typing, [Next]_vars, NEW s \in Requests, Held(s)'
    PROVE  \/ Held(s) /\ request'[s].token = request[s].token
           \/ /\ Consume(s) /\ request'[s].token = request[s].token
              /\ challenge[request[s].token].state = "open"
              /\ challenge'[request[s].token].state = "spent"
  <1> DEFINE Keeps == Held(s) /\ request'[s].token = request[s].token
  <1>1. pc'[s] = pc[s] /\ request'[s] = request[s] => Keeps
    BY DEF Held, Taken, Passed
  <1>2. ASSUME NEW r \in Requests, r # s, Ask(r) \/ Serve(r) \/ Fail(r)
        PROVE  Keeps
    <2>1. pc'[s] = pc[s]
      BY <1>2 DEF Ask, LoginBegin, RegisterBegin, LoginFinish, RegisterFinish, Begin, Fail,
                  Serve, CleanChallenges, StoreChallenge, Consume, LockUser, CountPasskeys,
                  CreatePasskey, Lookup, RecordUse, FindUser, PurgeSessions, CreateSession,
                  Go, End, Typing, RequestsWhole
    <2>2. request'[s] = request[s]
      BY <1>2 DEF Ask, LoginBegin, RegisterBegin, LoginFinish, RegisterFinish, Begin, Fail,
                  Serve, CleanChallenges, StoreChallenge, Consume, LockUser, CountPasskeys,
                  CreatePasskey, Lookup, RecordUse, FindUser, PurgeSessions, CreateSession,
                  Go, End, Typing, RequestsWhole
    <2>3. QED
      BY <1>1, <2>1, <2>2
  <1>3. ~Ask(s) /\ ~Fail(s)
    BY DEF Ask, LoginBegin, RegisterBegin, LoginFinish, RegisterFinish, Begin, Fail, End,
           Go, Held, Taken, Passed, Typing, RequestsWhole
  <1>4. CASE Serve(s)
    <2>1. ~CleanChallenges(s)
      BY DEF CleanChallenges, Go, Held, Taken, Passed, Typing, RequestsWhole
    <2>2. ~StoreChallenge(s) /\ ~CreatePasskey(s) /\ ~CreateSession(s)
      BY DEF StoreChallenge, CreatePasskey, CreateSession, End, Go, Held, Taken, Passed,
             Typing, RequestsWhole
    <2>3. CASE Consume(s)
      <3>1. /\ Consumable(request[s].token, request[s].op)
            /\ UseUp(request[s].token) /\ UNCHANGED request
        BY <2>3 DEF Consume, End, Go, Held, Taken, Passed, Typing, RequestsWhole
      <3>2. request[s].token \in Tokens
        BY <2>3 DEF Consume, Typing, RequestsWhole, Fits
      <3>3. QED
        BY <2>3, <3>1, <3>2, BlankRows DEF Consumable, UseUp, Typing, TablesWhole
    <2>4. CASE LockUser(s) \/ CountPasskeys(s)
      BY <2>4 DEF LockUser, CountPasskeys, End, Go, Held, Taken, Passed, Typing, RequestsWhole
    <2>5. CASE RecordUse(s) \/ FindUser(s)
      BY <2>5 DEF RecordUse, FindUser, End, Go, Held, Taken, Passed, Typing, RequestsWhole
    <2>6. CASE Lookup(s)
      BY <2>6 DEF Lookup, End, Go, Held, Taken, Passed, Typing, RequestsWhole, RequestType
    <2>7. CASE PurgeSessions(s)
      BY <2>7 DEF PurgeSessions, Go, Held, Taken, Passed, Typing, RequestsWhole, RequestType
    <2>8. QED
      BY <1>4, <2>1, <2>2, <2>3, <2>4, <2>5, <2>6, <2>7 DEF Serve
  <1>5. QED
    BY <1>1, <1>2, <1>3, <1>4 DEF Next, Delete, Logout, RemoveUser, Tick, vars

LEMMA NextHeldOnce == Typing /\ HeldOnce /\ [Next]_vars => HeldOnce'
  <1> SUFFICES ASSUME Typing, HeldOnce, [Next]_vars
               PROVE  HeldOnce'
    OBVIOUS
  <1>1. \A s \in Requests : Held(s) => request[s].token \in Tokens
    BY DEF Held, Taken, Passed, Typing, RequestsWhole, Fits
  <1>2. ASSUME NEW s \in Requests, Held(s)'
        PROVE  challenge'[request'[s].token].state = "spent"
    BY <1>1, <1>2, SpentStays, NextTakes DEF HeldOnce
  <1>3. ASSUME NEW r \in Requests, NEW s \in Requests, Held(r)', Held(s)',
               request'[r].token = request'[s].token
        PROVE  r = s
    <2>1. CASE Consume(r) /\ r # s
      <3>1. ~Consume(s)
        BY <2>1 DEF Consume, Go, End, Typing, RequestsWhole
      <3>2. Held(s) /\ request'[s].token = request[s].token
        BY <1>3, <3>1, NextTakes
      <3>3. Held(r) /\ request'[r].token = request[r].token
        BY <1>3, <3>2, NextTakes DEF HeldOnce
      <3>4. QED
        BY <1>3, <3>2, <3>3 DEF HeldOnce
    <2>2. CASE Consume(s) /\ r # s
      <3>1. ~Consume(r)
        BY <2>2 DEF Consume, Go, End, Typing, RequestsWhole
      <3>2. Held(r) /\ request'[r].token = request[r].token
        BY <1>3, <3>1, NextTakes
      <3>3. Held(s) /\ request'[s].token = request[s].token
        BY <1>3, <3>2, NextTakes DEF HeldOnce
      <3>4. QED
        BY <1>3, <3>2, <3>3 DEF HeldOnce
    <2>3. CASE ~Consume(r) /\ ~Consume(s)
      BY <1>3, <2>3, NextTakes DEF HeldOnce
    <2>4. QED
      BY <2>1, <2>2, <2>3
  <1>4. QED
    BY <1>2, <1>3 DEF HeldOnce

\* How far the ceremony of a challenge has come: by the request that has used it up,
\* and by its row if there is none.
HolderLife(r) ==
    [stage |-> IF Passed(r) THEN "passed" ELSE "taken",
     user  |-> IF Taken(r) /\ request[r].op = "login" THEN None ELSE request[r].user]

RowLife(h) ==
    CASE challenge[h].state = "none" -> [stage |-> "none", user |-> None]
      [] challenge[h].state = "open" -> [stage |-> "open", user |-> challenge[h].user]
      [] OTHER -> [stage |-> "spent", user |-> None]

Holds(r, h) == Held(r) /\ request[r].token = h

LifeKnown ==
    \A h \in Tokens :
        /\ \A r \in Requests : Holds(r, h) => Life(h) = HolderLife(r)
        /\ (\A r \in Requests : ~Holds(r, h)) => Life(h) = RowLife(h)

LEMMA LivesKnown == HeldOnce => LifeKnown
  <1> SUFFICES ASSUME HeldOnce, NEW h \in Tokens
               PROVE  /\ \A r \in Requests : Holds(r, h) => Life(h) = HolderLife(r)
                      /\ (\A r \in Requests : ~Holds(r, h)) => Life(h) = RowLife(h)
    BY DEF LifeKnown
  <1> DEFINE holders == {r \in Requests : request[r].token = h /\ (Taken(r) \/ Passed(r))}
  <1>1. ASSUME NEW r \in Requests, Holds(r, h)
        PROVE  Life(h) = HolderLife(r)
    <2>1. holders = {r}
      BY <1>1 DEF Holds, Held, HeldOnce
    <2>2. (CHOOSE s \in holders : TRUE) = r /\ holders # {}
      BY <2>1
    <2> HIDE DEF holders
    <2>3. QED
      BY <2>2 DEF Life, HolderLife, holders
  <1>2. ASSUME \A r \in Requests : ~Holds(r, h)
        PROVE  Life(h) = RowLife(h)
    BY <1>2 DEF Holds, Held, Life, RowLife
  <1>3. QED
    BY <1>1, <1>2

\* Whether another challenge is held does not touch the ceremony of h.
LEMMA LifeElsewhere ==
    ASSUME LifeKnown, LifeKnown', NEW h \in Tokens, NEW r \in Requests,
           \A s \in Requests \ {r} : pc'[s] = pc[s] /\ request'[s] = request[s],
           ~Holds(r, h), ~Holds(r, h)', RowLife(h)' = RowLife(h)
    PROVE  Life(h)' = Life(h)
  <1>1. \A s \in Requests : s # r =>
            Holds(s, h)' = Holds(s, h) /\ HolderLife(s)' = HolderLife(s)
    BY DEF Holds, Held, Taken, Passed, HolderLife
  <1>2. CASE \E s \in Requests : Holds(s, h)
    BY <1>1, <1>2 DEF LifeKnown
  <1>3. CASE \A s \in Requests : ~Holds(s, h)
    BY <1>1, <1>3 DEF LifeKnown
  <1>4. QED
    BY <1>2, <1>3

\* The request that holds h goes on, and has still to succeed or has done so before.
LEMMA LifeGoesOn ==
    ASSUME LifeKnown, LifeKnown', NEW h \in Tokens, NEW r \in Requests,
           Holds(r, h), Holds(r, h)', HolderLife(r)' = HolderLife(r)
    PROVE  Life(h)' = Life(h)
  BY DEF LifeKnown

\* The variables of PasskeyLedger
Lives    == [h \in Tokens |-> Life(h)]
Owned    == [c \in Creds |-> [owner |-> passkey[c].owner, count |-> passkey[c].count]]
LoggedIn == [h \in Tokens |-> session[h].user]

LEMMA LivesChange ==
    ASSUME NEW h \in Tokens, NEW life, Life(h)' = life,
           \A g \in Tokens : g # h => Life(g)' = Life(g)
    PROVE  Lives' = [Lives EXCEPT ![h] = life]
  BY DEF Lives

Same(r) == \A s \in Requests \ {r} : pc'[s] = pc[s] /\ request'[s] = request[s]

\* Request r goes on, or comes to its challenge, and nothing becomes of a ceremony.
LEMMA LivesSame ==
    ASSUME LifeKnown, LifeKnown', NEW r \in Requests, Same(r), challenge' = challenge,
           \A h \in Tokens : \/ ~Holds(r, h) /\ ~Holds(r, h)'
                             \/ /\ Holds(r, h) /\ Holds(r, h)'
                                /\ HolderLife(r)' = HolderLife(r)
    PROVE  Lives' = Lives
  <1>1. ASSUME NEW h \in Tokens
        PROVE  Life(h)' = Life(h)
    <2>1. RowLife(h)' = RowLife(h)
      BY DEF RowLife
    <2>2. QED
      BY <2>1, LifeElsewhere, LifeGoesOn DEF Same
  <1>2. QED
    BY <1>1 DEF Lives

\* Request r, which has used up h, comes to its end.
LEMMA LivesEnd ==
    ASSUME Typing, HeldOnce, LifeKnown, LifeKnown', NEW r \in Requests, End(r),
           challenge' = challenge, NEW h \in Tokens, Holds(r, h)
    PROVE  /\ Lives' = [Lives EXCEPT ![h] = [stage |-> "spent", user |-> None]]
           /\ Lives[h] = HolderLife(r)
  <1>1. Same(r) /\ \A g \in Tokens : ~Holds(r, g)'
    BY DEF Same, End, Go, Holds, Held, Taken, Passed, Typing, RequestsWhole
  <1>2. \A g \in Tokens : RowLife(g)' = RowLife(g)
    BY DEF RowLife
  <1>3. ASSUME NEW g \in Tokens, g # h
        PROVE  Life(g)' = Life(g)
    <2>1. ~Holds(r, g)
      BY <1>3 DEF Holds
    <2>2. QED
      BY <1>1, <1>2, <2>1, LifeElsewhere DEF Same
  <1>4. Life(h)' = [stage |-> "spent", user |-> None]
    <2>1. \A s \in Requests : ~Holds(s, h)'
      BY <1>1 DEF Same, Holds, Held, Taken, Passed, HeldOnce
    <2>2. Life(h)' = RowLife(h)'
      BY <2>1 DEF LifeKnown
    <2>3. challenge[h].state = "spent"
      BY DEF HeldOnce, Holds
    <2>4. QED
      BY <2>2, <2>3 DEF RowLife
  <1>5. Life(h) = HolderLife(r)
    BY DEF LifeKnown
  <1>6. QED
    BY <1>3, <1>4, <1>5 DEF Lives

LEMMA HolderLives ==
    ASSUME NEW r \in Requests
    PROVE  HolderLife(r).stage \in {"taken", "passed"}
  BY DEF HolderLife

\* The ceremony of r fails.
LEMMA LivesLose ==
    ASSUME Typing, HeldOnce, LifeKnown, LifeKnown', NEW r \in Requests, End(r),
           challenge' = challenge, UNCHANGED <<passkey, session>>
    PROVE  [Ledger!Next]_(Ledger!vars)
  <1>1. UNCHANGED <<Owned, LoggedIn>>
    BY DEF Owned, LoggedIn
  <1>2. CASE Held(r)
    <2>1. PICK h \in Tokens : Holds(r, h)
      BY <1>2 DEF Holds, Held, Taken, Passed, Typing, RequestsWhole, Fits
    <2>2. /\ Lives' = [Lives EXCEPT ![h] = [stage |-> "spent", user |-> None]]
          /\ Lives[h].stage # "none"
      BY <2>1, LivesEnd, HolderLives
    <2>3. Ledger!Lose({h})
      BY <1>1, <2>2 DEF Ledger!Lose, Ledger!At, Lives, Owned, LoggedIn
    <2>4. QED
      BY <2>3 DEF Ledger!Next
  <1>3. CASE ~Held(r)
    <2>1. Same(r) /\ \A h \in Tokens : ~Holds(r, h) /\ ~Holds(r, h)'
      BY <1>3 DEF Same, End, Go, Holds, Held, Taken, Passed, Typing, RequestsWhole
    <2>2. Lives' = Lives
      BY <2>1, LivesSame
    <2>3. QED
      BY <1>1, <2>2 DEF Ledger!vars, Lives, Owned, LoggedIn
  <1>4. QED
    BY <1>2, <1>3

LEMMA AskLedger ==
    ASSUME Typing, LifeKnown, LifeKnown', NEW r \in Requests, Ask(r)
    PROVE  UNCHANGED Ledger!vars
  <1>1. UNCHANGED tables /\ \E to \in {"clean", "consume"} : \E q : Begin(r, to, q)
    BY DEF Ask, LoginBegin, RegisterBegin, LoginFinish, RegisterFinish
  <1>2. Same(r) /\ ~Held(r) /\ ~Held(r)'
    BY <1>1 DEF Begin, Go, Same, Held, Taken, Passed, Typing, RequestsWhole
  <1>3. Lives' = Lives
    BY <1>1, <1>2, LivesSame DEF Holds, tables
  <1>4. QED
    BY <1>1, <1>3 DEF tables, Ledger!vars, Lives

\* The challenges that have lapsed are lost.
LEMMA CleanLedger ==
    ASSUME Typing, HeldOnce, LifeKnown, LifeKnown', NEW r \in Requests, CleanChallenges(r)
    PROVE  [Ledger!Next]_(Ledger!vars)
  <1>1. UNCHANGED <<Owned, LoggedIn>>
    BY DEF CleanChallenges, Owned, LoggedIn
  <1>2. Same(r) /\ ~Held(r) /\ ~Held(r)'
    BY DEF CleanChallenges, Go, Same, Held, Taken, Passed, Typing, RequestsWhole
  <1>3. CASE challenge' = challenge
    <2>1. Lives' = Lives
      BY <1>2, <1>3, LivesSame DEF Holds
    <2>2. QED
      BY <1>1, <2>1 DEF Ledger!vars, Lives, Owned, LoggedIn
  <1>4. CASE challenge' # challenge
    <2> DEFINE lapsed == {h \in Tokens : challenge[h].state = "open"
                                         /\ challenge[h].expires <= now}
    <2>1. challenge' = [h \in Tokens |-> IF h \in lapsed THEN Spent ELSE challenge[h]]
      BY <1>4 DEF CleanChallenges
    <2>2. ASSUME NEW h \in Tokens, h \notin lapsed
          PROVE  Life(h)' = Life(h)
      <3>1. RowLife(h)' = RowLife(h)
        BY <2>1, <2>2 DEF RowLife
      <3>2. QED
        BY <1>2, <3>1, LifeElsewhere DEF Holds, Same
    <2>3. ASSUME NEW h \in lapsed
          PROVE  /\ Life(h)' = [stage |-> "spent", user |-> None]
                 /\ Life(h).stage = "open"
      <3>1. \A s \in Requests : ~Holds(s, h)
        BY DEF HeldOnce, Holds
      <3>2. \A s \in Requests : ~Holds(s, h)'
        BY <1>2, <3>1 DEF Same, Holds, Held, Taken, Passed
      <3>3. Life(h) = RowLife(h) /\ Life(h)' = RowLife(h)'
        BY <3>1, <3>2 DEF LifeKnown
      <3>4. challenge'[h].state = "spent" /\ challenge[h].state = "open"
        BY <2>1, BlankRows
      <3>5. QED
        BY <3>3, <3>4 DEF RowLife
    <2> HIDE DEF lapsed
    <2>4. lapsed \in SUBSET Tokens
      BY DEF lapsed
    <2>5. Ledger!Lose(lapsed)
      BY <1>1, <2>2, <2>3, <2>4 DEF Ledger!Lose, Ledger!At, Lives, Owned, LoggedIn
    <2>6. QED
      BY <2>4, <2>5 DEF Ledger!Next
  <1>5. QED
    BY <1>3, <1>4

LEMMA StoreLedger ==
    ASSUME Typing, HeldOnce, LifeKnown, LifeKnown', NEW r \in Requests, StoreChallenge(r)
    PROVE  [Ledger!Next]_(Ledger!vars)
  <1>1. UNCHANGED <<Owned, LoggedIn>>
    BY DEF StoreChallenge, Owned, LoggedIn
  <1>2. Same(r) /\ ~Held(r) /\ ~Held(r)'
    BY DEF StoreChallenge, End, Go, Same, Held, Taken, Passed, Typing, RequestsWhole
  <1>3. PICK h \in Tokens : /\ challenge[h].state = "none"
                            /\ challenge' = [challenge EXCEPT ![h] = OpenChallenge(request[r])]
    BY DEF StoreChallenge
  <1>4. PICK u \in Users \cup {None} : u = request[r].user
    BY DEF Typing, RequestsWhole, RequestType
  <1>5. /\ Life(h) = [stage |-> "none", user |-> None]
        /\ Life(h)' = [stage |-> "open", user |-> u]
    <2>1. \A s \in Requests : ~Holds(s, h)
      BY <1>3 DEF HeldOnce, Holds
    <2>2. \A s \in Requests : ~Holds(s, h)'
      BY <1>2, <2>1 DEF Same, Holds, Held, Taken, Passed
    <2>3. Life(h) = RowLife(h) /\ Life(h)' = RowLife(h)'
      BY <2>1, <2>2 DEF LifeKnown
    <2>4. challenge'[h].state = "open" /\ challenge'[h].user = u
      BY <1>3, <1>4 DEF OpenChallenge, Typing, TablesWhole
    <2>5. QED
      BY <1>3, <2>3, <2>4 DEF RowLife
  <1>6. ASSUME NEW g \in Tokens, g # h
        PROVE  Life(g)' = Life(g)
    <2>1. RowLife(g)' = RowLife(g)
      BY <1>3, <1>6 DEF RowLife
    <2>2. QED
      BY <1>2, <2>1, LifeElsewhere DEF Holds, Same
  <1>7. Lives[h].stage = "none" /\ Lives' = [Lives EXCEPT ![h] = [stage |-> "open", user |-> u]]
    <2>1. Lives[h].stage = "none"
      BY <1>5 DEF Lives
    <2>2. Lives' = [Lives EXCEPT ![h] = [stage |-> "open", user |-> u]]
      BY <1>5, <1>6, LivesChange
    <2>3. QED
      BY <2>1, <2>2
  <1>8. Ledger!Open(h)
    BY <1>1, <1>7 DEF Ledger!Open, Ledger!At, Lives, Owned, LoggedIn
  <1>9. QED
    BY <1>8 DEF Ledger!Next

\* A challenge is taken for the ceremony, or lost to it.
LEMMA ConsumeLedger ==
    ASSUME Typing, HeldOnce, LifeKnown, LifeKnown', NEW r \in Requests, Consume(r)
    PROVE  [Ledger!Next]_(Ledger!vars)
  <1>1. UNCHANGED <<Owned, LoggedIn>>
    BY DEF Consume, Owned, LoggedIn
  <1>2. PICK h \in Tokens : h = request[r].token
    BY DEF Consume, Typing, RequestsWhole, Fits
  <1>3. Same(r) /\ ~Held(r) /\ pc[r] = "consume"
    BY DEF Consume, End, Go, Same, Held, Taken, Passed, Typing, RequestsWhole
  <1>4. CASE ~Consumable(h, request[r].op)
    BY <1>2, <1>4, LivesLose DEF Consume
  <1>5. CASE Consumable(h, request[r].op)
    <2>1. challenge' = [challenge EXCEPT ![h] = Spent] /\ challenge[h].state = "open"
      BY <1>2, <1>5 DEF Consume, UseUp, Consumable
    <2>2. \A s \in Requests : ~Holds(s, h)
      BY <2>1 DEF HeldOnce, Holds
    <2>3. Life(h) = [stage |-> "open", user |-> challenge[h].user]
      BY <2>1, <2>2 DEF LifeKnown, RowLife
    <2>4. ASSUME NEW g \in Tokens, g # h
          PROVE  Life(g)' = Life(g)
      <3>1. RowLife(g)' = RowLife(g)
        BY <2>1, <2>4 DEF RowLife
      <3>2. ~Holds(r, g) /\ ~Holds(r, g)'
        BY <1>2, <1>3, <2>4
        DEF Consume, End, Go, Holds, Held, Taken, Passed, Typing, RequestsWhole
      <3>3. QED
        BY <1>3, <3>1, <3>2, LifeElsewhere DEF Same
    <2>5. CASE challenge[h].user # request[r].user
      <3>1. End(r)
        BY <1>2, <1>5, <2>5 DEF Consume
      <3>2. \A s \in Requests : ~Holds(s, h)'
        BY <1>3, <2>2, <3>1
        DEF Same, End, Go, Holds, Held, Taken, Passed, Typing, RequestsWhole
      <3>3. Life(h)' = [stage |-> "spent", user |-> None]
        <4>1. challenge'[h].state = "spent"
          BY <2>1, BlankRows DEF Typing, TablesWhole
        <4>2. Life(h)' = RowLife(h)'
          BY <3>2 DEF LifeKnown
        <4>3. QED
          BY <4>1, <4>2 DEF RowLife
      <3>4. Ledger!Lose({h})
        BY <1>1, <2>3, <2>4, <3>3 DEF Ledger!Lose, Ledger!At, Lives, Owned, LoggedIn
      <3>5. QED
        BY <3>4 DEF Ledger!Next
    <2>6. CASE challenge[h].user = request[r].user
      <3>1. /\ pc' = [pc EXCEPT ![r] = IF request[r].op = "register" THEN "lock"
                                                                     ELSE "lookup"]
            /\ request' = request
        BY <1>2, <1>5, <2>6 DEF Consume, Go
      <3>2. Holds(r, h)' /\ ~Passed(r)'
        BY <1>2, <3>1 DEF Holds, Held, Taken, Passed, Typing, RequestsWhole
      <3>3. Life(h)' = HolderLife(r)'
        BY <3>2 DEF LifeKnown
      <3>4. request[r].op = "login" => request[r].user = None
        BY <1>3 DEF Typing, RequestsWhole, Fits
      <3>5. Life(h)' = [stage |-> "taken", user |-> challenge[h].user]
        BY <2>6, <3>1, <3>2, <3>3, <3>4 DEF HolderLife, Taken, Passed
      <3>6. /\ Lives[h].stage = "open"
            /\ Lives' = [Lives EXCEPT ![h] = [stage |-> "taken", user |-> Lives[h].user]]
        <4>1. PICK u : u = challenge[h].user
          OBVIOUS
        <4>2. Lives[h].stage = "open" /\ Lives[h].user = u
          BY <2>3, <4>1 DEF Lives
        <4>3. Lives' = [Lives EXCEPT ![h] = [stage |-> "taken", user |-> u]]
          BY <2>4, <3>5, <4>1, LivesChange
        <4>4. QED
          BY <4>2, <4>3
      <3>7. Ledger!Take(h)
        BY <1>1, <3>6 DEF Ledger!Take, Ledger!At, Lives, Owned, LoggedIn
      <3>8. QED
        BY <3>7 DEF Ledger!Next
    <2>7. QED
      BY <2>5, <2>6
  <1>6. QED
    BY <1>4, <1>5

\* A request that holds its challenge finds what it needs to go on, or ends.
LEMMA GoOnLedger ==
    ASSUME Typing, HeldOnce, LifeKnown, LifeKnown', NEW r \in Requests,
           LockUser(r) \/ CountPasskeys(r) \/ Lookup(r) \/ FindUser(r)
    PROVE  [Ledger!Next]_(Ledger!vars)
  <1>1. UNCHANGED tables
    BY DEF LockUser, CountPasskeys, Lookup, FindUser
  <1>2. CASE End(r)
    BY <1>1, <1>2, LivesLose DEF tables
  <1>3. CASE ~End(r)
    <2>1. Same(r)
      BY <1>3 DEF LockUser, CountPasskeys, Lookup, FindUser, Go, Same, Typing, RequestsWhole
    <2>2. request'[r].token = request[r].token /\ request'[r].op = request[r].op
      BY <1>3 DEF LockUser, CountPasskeys, Lookup, FindUser, Typing, RequestsWhole, RequestType
    <2>3. Held(r) /\ Held(r)' /\ (Passed(r)' <=> Passed(r))
      BY <1>3
      DEF LockUser, CountPasskeys, Lookup, FindUser, Go, Held, Taken, Passed, Typing,
          RequestsWhole
    <2>4. \/ request[r].op = "login" /\ ~Passed(r)
          \/ request'[r].user = request[r].user
      BY <1>3
      DEF LockUser, CountPasskeys, Lookup, FindUser, Passed, Typing, RequestsWhole, Fits
    <2>5. HolderLife(r)' = HolderLife(r)
      BY <2>2, <2>3, <2>4 DEF HolderLife, Held, Taken, Passed
    <2>6. Lives' = Lives
      BY <1>1, <2>1, <2>2, <2>3, <2>5, LivesSame DEF Holds, tables
    <2>7. QED
      BY <1>1, <2>6 DEF tables, Ledger!vars, Lives
  <1>4. QED
    BY <1>2, <1>3

LEMMA CreatePasskeyLedger ==
    ASSUME Typing, HeldOnce, LifeKnown, LifeKnown', NEW r \in Requests, CreatePasskey(r)
    PROVE  [Ledger!Next]_(Ledger!vars)
  <1>1. PICK u \in Users, c \in Creds, h \in Tokens :
            u = request[r].user /\ c = request[r].cred /\ h = request[r].token
    BY DEF CreatePasskey, Typing, RequestsWhole, Fits
  <1>2. CASE passkey[c].state # "none"
    BY <1>1, <1>2, LivesLose DEF CreatePasskey
  <1>3. CASE passkey[c].state = "none"
    <2>1. /\ passkey' = [passkey EXCEPT ![c] =
                  [state |-> "there", owner |-> u, count |-> request[r].count]]
          /\ End(r) /\ UNCHANGED <<challenge, session>> /\ Holds(r, h)
      BY <1>1, <1>3 DEF CreatePasskey, Holds, Held, Taken
    <2>2. HolderLife(r) = [stage |-> "taken", user |-> u]
      BY <1>1 DEF CreatePasskey, HolderLife, Taken, Passed, Typing, RequestsWhole, Fits
    <2>3. /\ Lives' = [Lives EXCEPT ![h] = [stage |-> "spent", user |-> None]]
          /\ Lives[h] = [stage |-> "taken", user |-> u]
      BY <2>1, <2>2, LivesEnd
    <2>4. /\ Owned[c].owner = None
          /\ Owned'[c].owner = u
          /\ Owned' = [Owned EXCEPT ![c] = Owned'[c]]
      BY <1>3, <2>1 DEF Owned, There, Typing, TablesWhole
    <2>5. u # None
      BY PasskeyAssumption
    <2>6. LoggedIn' = LoggedIn
      BY <2>1 DEF LoggedIn
    <2>7. Ledger!Register(h, c)
      BY <2>3, <2>4, <2>5, <2>6 DEF Ledger!Register, Ledger!At, Lives, Owned, LoggedIn
    <2>8. QED
      BY <2>7 DEF Ledger!Next
  <1>4. QED
    BY <1>2, <1>3

\* The count of the passkey rises, and the login is that of its owner.
LEMMA RecordLedger ==
    ASSUME Typing, CountsOrdered, HeldOnce, LifeKnown, LifeKnown', NEW r \in Requests,
           RecordUse(r)
    PROVE  [Ledger!Next]_(Ledger!vars)
  <1>1. PICK u \in Users, c \in Creds, n \in Nat, h \in Tokens :
            u = request[r].user /\ c = request[r].cred /\ n = request[r].count
            /\ h = request[r].token
    BY DEF RecordUse, Typing, RequestsWhole, Fits, RequestType
  <1>2. CASE ~Recordable(c, n)
    BY <1>1, <1>2, LivesLose DEF RecordUse
  <1>3. CASE Recordable(c, n)
    <2>1. /\ passkey' = [passkey EXCEPT ![c].count = n]
          /\ pc' = [pc EXCEPT ![r] = "find"] /\ pc[r] = "record"
          /\ UNCHANGED <<request, challenge, session>>
      BY <1>1, <1>3 DEF RecordUse, Go
    <2>2. passkey[c].owner = u
      BY <1>1, <1>3, <2>1
      DEF CountsOrdered, PasskeyRemembered, Remembers, Met, Recordable
    <2>3. Same(r) /\ Holds(r, h) /\ Holds(r, h)'
      BY <1>1, <2>1 DEF Same, Holds, Held, Taken, Passed, Typing, RequestsWhole
    <2>4. /\ HolderLife(r) = [stage |-> "taken", user |-> None]
          /\ HolderLife(r)' = [stage |-> "passed", user |-> u]
      <3>1. pc'[r] = "find" /\ request[r].op = "login" /\ request'[r].user = u
        BY <1>1, <2>1 DEF Typing, RequestsWhole, Fits
      <3>2. QED
        BY <2>1, <3>1 DEF HolderLife, Taken, Passed
    <2>5. /\ Life(h) = [stage |-> "taken", user |-> None]
          /\ Life(h)' = [stage |-> "passed", user |-> u]
      BY <2>3, <2>4 DEF LifeKnown
    <2>6. ASSUME NEW g \in Tokens, g # h
          PROVE  Life(g)' = Life(g)
      <3>1. RowLife(g)' = RowLife(g)
        BY <2>1 DEF RowLife
      <3>2. ~Holds(r, g) /\ ~Holds(r, g)'
        BY <2>3, <2>6 DEF Holds
      <3>3. QED
        BY <2>3, <3>1, <3>2, LifeElsewhere DEF Same
    <2>7. /\ Lives[h] = [stage |-> "taken", user |-> None]
          /\ Lives' = [Lives EXCEPT ![h] = [stage |-> "passed", user |-> u]]
      BY <2>5, <2>6, LivesChange DEF Lives
    <2>8. /\ Owned[c].owner = u /\ Owned[c].count = passkey[c].count
          /\ Owned'[c].count = n
          /\ Owned' = [Owned EXCEPT ![c].count = n]
      BY <2>1, <2>2 DEF Owned, Typing, TablesWhole, Passkeys
    <2>9. u # None /\ LoggedIn' = LoggedIn
      BY <2>1, PasskeyAssumption DEF LoggedIn
    <2>10. Owned[c].count < n \/ (Owned[c].count = 0 /\ n = 0)
      BY <1>3, <2>8 DEF Recordable, Rises
    <2>11. Ledger!Pass(h, c)
      BY <2>7, <2>8, <2>9, <2>10 DEF Ledger!Pass, Ledger!At, Lives, Owned, LoggedIn
    <2>12. QED
      BY <2>11 DEF Ledger!Next
  <1>4. QED
    BY <1>2, <1>3

LEMMA PurgeLedger ==
    ASSUME Typing, LifeKnown, LifeKnown', NEW r \in Requests, PurgeSessions(r)
    PROVE  [Ledger!Next]_(Ledger!vars)
  <1>1. Owned' = Owned
    BY DEF PurgeSessions, Owned
  <1>2. /\ Same(r) /\ Held(r) /\ Held(r)' /\ Passed(r) /\ Passed(r)'
        /\ request'[r].token = request[r].token /\ request'[r].user = request[r].user
    BY DEF PurgeSessions, Go, Same, Held, Passed, Typing, RequestsWhole, RequestType
  <1>3. HolderLife(r)' = HolderLife(r)
    BY <1>2 DEF HolderLife, Taken, Passed
  <1>4. Lives' = Lives
    BY <1>2, <1>3, LivesSame DEF Holds, PurgeSessions
  <1>5. CASE session' = session
    BY <1>1, <1>4, <1>5 DEF Ledger!vars, Lives, Owned, LoggedIn
  <1>6. CASE session' # session
    <2>1. PICK lapsed \in SUBSET Tokens :
              session' = [h \in Tokens |-> IF h \in lapsed THEN NoSession ELSE session[h]]
      <3>1. LET H == {h \in Tokens : session[h].expires <= now}
            IN  session' = [h \in Tokens |-> IF h \in H THEN NoSession ELSE session[h]]
        BY <1>6 DEF PurgeSessions
      <3>2. QED
        BY <3>1
    <2>2. LoggedIn' = [h \in Tokens |-> IF h \in lapsed THEN None ELSE LoggedIn[h]]
      BY <2>1, BlankRows DEF LoggedIn
    <2>3. Ledger!DropSessions(lapsed)
      BY <1>1, <1>4, <2>2 DEF Ledger!DropSessions, Lives, Owned, LoggedIn
    <2>4. QED
      BY <2>3 DEF Ledger!Next
  <1>7. QED
    BY <1>5, <1>6

\* The session is that of the user who has passed.
LEMMA CreateSessionLedger ==
    ASSUME Typing, HeldOnce, LifeKnown, LifeKnown', NEW r \in Requests, CreateSession(r)
    PROVE  [Ledger!Next]_(Ledger!vars)
  <1>1. PICK u \in Users, h \in Tokens : u = request[r].user /\ h = request[r].token
    BY DEF CreateSession, Typing, RequestsWhole, Fits
  <1>2. /\ session' = [session EXCEPT ![h] =
                           [user |-> u, expires |-> request[r].at + SessionTTL]]
        /\ End(r) /\ UNCHANGED <<challenge, passkey>>
    BY <1>1 DEF CreateSession
  <1>3. Holds(r, h) /\ HolderLife(r) = [stage |-> "passed", user |-> u]
    <2>1. Passed(r)
      BY DEF CreateSession, Passed
    <2>2. QED
      BY <1>1, <2>1 DEF Holds, Held, HolderLife, Taken, Passed
  <1>4. /\ Lives' = [Lives EXCEPT ![h] = [stage |-> "spent", user |-> None]]
        /\ Lives[h].stage = "passed" /\ Lives[h].user = u
    BY <1>2, <1>3, LivesEnd
  <1>5. LoggedIn' = [LoggedIn EXCEPT ![h] = u]
    BY <1>2 DEF LoggedIn, Typing, TablesWhole
  <1>6. Owned' = Owned
    BY <1>2 DEF Owned
  <1>7. Ledger!Enter(h)
    BY <1>4, <1>5, <1>6 DEF Ledger!Enter, Ledger!At, Lives, Owned, LoggedIn
  <1>8. QED
    BY <1>7 DEF Ledger!Next

\* When no request moves and no challenge is lost, no ceremony comes further.
LEMMA LivesIdle ==
    ASSUME UNCHANGED <<pc, request, challenge>>
    PROVE  Lives' = Lives
  BY DEF Lives, Life, Taken, Passed

LEMMA DeleteLedger ==
    ASSUME Typing, NEW c \in Creds, Delete(c)
    PROVE  [Ledger!Next]_(Ledger!vars)
  <1> DEFINE gone == [NoPasskey EXCEPT !.state = "gone"]
  <1>1. /\ gone.owner = None /\ gone.count = 0
        /\ passkey' = [passkey EXCEPT ![c] = gone]
    BY BlankRows DEF Delete
  <1> HIDE DEF gone
  <1>2. Owned' = [Owned EXCEPT ![c] = [owner |-> None, count |-> 0]]
    BY <1>1 DEF Owned, Typing, TablesWhole
  <1>3. Lives' = Lives /\ LoggedIn' = LoggedIn
    BY LivesIdle DEF Delete, LoggedIn
  <1>4. Ledger!DropPasskey(c)
    BY <1>2, <1>3 DEF Ledger!DropPasskey, Ledger!NoPasskey, Lives, Owned, LoggedIn
  <1>5. QED
    BY <1>4 DEF Ledger!Next

LEMMA LogoutLedger ==
    ASSUME Typing, NEW h \in Tokens, Logout(h)
    PROVE  [Ledger!Next]_(Ledger!vars)
  <1>1. LoggedIn' = [g \in Tokens |-> IF g \in {h} THEN None ELSE LoggedIn[g]]
    BY BlankRows DEF Logout, LoggedIn, Typing, TablesWhole
  <1>2. Lives' = Lives /\ Owned' = Owned
    BY LivesIdle DEF Logout, Owned
  <1>3. Ledger!DropSessions({h})
    BY <1>1, <1>2 DEF Ledger!DropSessions, Lives, Owned, LoggedIn
  <1>4. QED
    BY <1>3 DEF Ledger!Next

LEMMA RemoveUserLedger ==
    ASSUME Typing, HeldOnce, LifeKnown, LifeKnown', NEW u \in Users, RemoveUser(u)
    PROVE  [Ledger!Next]_(Ledger!vars)
  <1> DEFINE gone == [NoPasskey EXCEPT !.state = "gone"]
  <1>1. /\ gone.owner = None /\ gone.count = 0
        /\ passkey' = [c \in Creds |-> IF passkey[c].owner = u THEN gone ELSE passkey[c]]
    BY BlankRows DEF RemoveUser
  <1> HIDE DEF gone
  <1>2. Owned' = [c \in Creds |-> IF Owned[c].owner = u THEN [owner |-> None, count |-> 0]
                                                        ELSE Owned[c]]
    BY <1>1 DEF Owned
  <1>3. LoggedIn' = [h \in Tokens |-> IF LoggedIn[h] = u THEN None ELSE LoggedIn[h]]
    BY BlankRows DEF RemoveUser, LoggedIn
  <1>4. ASSUME NEW h \in Tokens
        PROVE  Life(h)' = IF Life(h).user = u /\ Life(h).stage = "open"
                          THEN [stage |-> "spent", user |-> None] ELSE Life(h)
    <2>1. \A r \in Requests : Holds(r, h)' = Holds(r, h) /\ HolderLife(r)' = HolderLife(r)
      BY DEF RemoveUser, Holds, Held, Taken, Passed, HolderLife
    <2>2. CASE \E r \in Requests : Holds(r, h)
      <3>1. PICK r \in Requests : Holds(r, h)
        BY <2>2
      <3>2. Life(h) = HolderLife(r) /\ Life(h)' = HolderLife(r)
        BY <2>1, <3>1 DEF LifeKnown
      <3>3. QED
        BY <3>2, HolderLives
    <2>3. CASE \A r \in Requests : ~Holds(r, h)
      <3>1. Life(h) = RowLife(h) /\ Life(h)' = RowLife(h)'
        BY <2>1, <2>3 DEF LifeKnown
      <3>2. challenge'[h] = IF challenge[h].user = u THEN Spent ELSE challenge[h]
        BY DEF RemoveUser
      <3>3. /\ challenge[h].state # "open" => challenge[h].user = None
            /\ u # None /\ Spent.state = "spent"
        BY BlankRows, PasskeyAssumption DEF Typing, TablesWhole
      <3>4. QED
        BY <3>1, <3>2, <3>3 DEF RowLife
    <2>4. QED
      BY <2>2, <2>3
  <1>5. Lives' = [h \in Tokens |-> IF Lives[h].user = u /\ Lives[h].stage = "open"
                                   THEN [stage |-> "spent", user |-> None] ELSE Lives[h]]
    BY <1>4 DEF Lives
  <1>6. Ledger!DropUser(u)
    BY <1>2, <1>3, <1>5
    DEF Ledger!DropUser, Ledger!At, Ledger!NoPasskey, Lives, Owned, LoggedIn
  <1>7. QED
    BY <1>6 DEF Ledger!Next

LEMMA InitLedger == Init => Ledger!Init
  <1> SUFFICES ASSUME Init
               PROVE  Ledger!Init
    OBVIOUS
  <1>1. Typing /\ HeldOnce /\ LifeKnown
    BY InitTyping, InitHeldOnce, LivesKnown
  <1>2. ASSUME NEW h \in Tokens
        PROVE  Life(h) = [stage |-> "none", user |-> None]
    BY <1>1 DEF Init, LifeKnown, Holds, Held, Taken, Passed, RowLife, NoChallenge
  <1>3. Lives = [h \in Tokens |-> [stage |-> "none", user |-> None]]
    BY <1>2 DEF Lives
  <1>4. Owned \in [Creds -> [owner : Users \cup {None}, count : Nat]]
    BY <1>1 DEF Owned, Typing, TablesWhole, Passkeys
  <1>5. LoggedIn = [h \in Tokens |-> None]
    BY BlankRows DEF Init, LoggedIn
  <1>6. QED
    BY <1>3, <1>4, <1>5 DEF Ledger!Init, Ledger!At, Lives, Owned, LoggedIn

LEMMA NextLedger ==
    Typing /\ CountsOrdered /\ HeldOnce /\ HeldOnce' /\ [Next]_vars
        => [Ledger!Next]_(Ledger!vars)
  <1>1. HeldOnce' => LifeKnown'
    BY LivesKnown, PTL
  <1> SUFFICES ASSUME Typing, CountsOrdered, HeldOnce, HeldOnce', [Next]_vars
               PROVE  [Ledger!Next]_(Ledger!vars)
    OBVIOUS
  <1>2. LifeKnown /\ LifeKnown'
    BY <1>1, LivesKnown
  <1>3. ASSUME NEW r \in Requests, Ask(r)
        PROVE  [Ledger!Next]_(Ledger!vars)
    BY <1>2, <1>3, AskLedger
  <1>4. ASSUME NEW r \in Requests, Serve(r)
        PROVE  [Ledger!Next]_(Ledger!vars)
    BY <1>2, <1>4, CleanLedger, StoreLedger, ConsumeLedger, GoOnLedger, CreatePasskeyLedger,
       RecordLedger, PurgeLedger, CreateSessionLedger DEF Serve
  <1>5. ASSUME NEW r \in Requests, Fail(r)
        PROVE  [Ledger!Next]_(Ledger!vars)
    BY <1>2, <1>5, LivesLose DEF Fail, tables
  <1>6. CASE Tick \/ UNCHANGED vars
    <2>1. UNCHANGED <<pc, request, tables>>
      BY <1>6 DEF Tick, vars
    <2>2. Lives' = Lives /\ Owned' = Owned /\ LoggedIn' = LoggedIn
      BY <2>1, LivesIdle DEF tables, Owned, LoggedIn
    <2>3. QED
      BY <2>2 DEF Ledger!vars, Lives, Owned, LoggedIn
  <1>7. QED
    BY <1>2, <1>3, <1>4, <1>5, <1>6, DeleteLedger, LogoutLedger, RemoveUserLedger DEF Next

\* The ceremonies, whose steps are many, keep to PasskeyLedger, however many requests
\* are served at once: each success has a challenge of its own that was open, of the
\* right purpose and user, and a session is the owner's of the passkey that was used
\* for it (service.go, FinishRegistration and FinishLogin).
THEOREM LedgerImplemented == Spec => ImplementsLedger
  <1> DEFINE Inv == Typing /\ CountsOrdered /\ HeldOnce
  <1>1. Init => Inv
    BY InitTyping, InitCounts, InitHeldOnce
  <1>2. Inv /\ [Next]_vars => Inv'
    BY NextTyping, NextCounts, NextHeldOnce
  <1>3. Inv /\ Inv' /\ [Next]_vars => [Ledger!Next]_(Ledger!vars)
    BY NextLedger
  <1>4. QED
    BY <1>1, <1>2, <1>3, InitLedger, PTL DEF Spec, ImplementsLedger, Ledger!Spec

-----------------------------------------------------------------------------
(* What that means for a challenge *)

\* The ceremony of challenge h comes to its end: a passkey is registered, or a session
\* is started.
Succeeds(h) ==
    \E r \in Requests : /\ request[r].token = h
                        /\ \/ CreatePasskey(r) /\ passkey[request[r].cred].state = "none"
                           \/ CreateSession(r)

\* Who succeeds has used the challenge up, and lets go of it.
LEMMA SuccessEnds ==
    ASSUME Typing, HeldOnce, NEW h \in Tokens, Succeeds(h)
    PROVE  /\ \E r \in Requests : Holds(r, h)
           /\ challenge'[h].state = "spent"
           /\ \A s \in Requests : ~Holds(s, h)'
  <1>1. PICK r \in Requests : request[r].token = h /\ (CreatePasskey(r) \/ CreateSession(r))
    BY DEF Succeeds
  <1>2. Holds(r, h) /\ End(r) /\ challenge' = challenge
    BY <1>1 DEF CreatePasskey, CreateSession, Holds, Held, Taken, Passed
  <1>3. challenge'[h].state = "spent"
    BY <1>2 DEF HeldOnce, Holds
  <1>4. ASSUME NEW s \in Requests
        PROVE  ~Holds(s, h)'
    <2>1. CASE s = r
      BY <1>2, <2>1 DEF End, Go, Holds, Held, Taken, Passed, Typing, RequestsWhole
    <2>2. CASE s # r
      <3>1. pc'[s] = pc[s] /\ request'[s] = request[s]
        BY <1>2, <2>2 DEF End, Go, Typing, RequestsWhole
      <3>2. ~Holds(s, h)
        BY <1>2, <2>2 DEF Holds, HeldOnce
      <3>3. QED
        BY <3>1, <3>2 DEF Holds, Held, Taken, Passed
    <2>3. QED
      BY <2>1, <2>2
  <1>5. QED
    BY <1>2, <1>3, <1>4

\* Nobody takes a challenge that is spent.
LEMMA SpentUnheld ==
    ASSUME Typing, [Next]_vars, NEW h \in Tokens, challenge[h].state = "spent",
           \A s \in Requests : ~Holds(s, h)
    PROVE  challenge'[h].state = "spent" /\ \A s \in Requests : ~Holds(s, h)'
  <1>1. ASSUME NEW s \in Requests, Holds(s, h)'
        PROVE  FALSE
    <2>1. Held(s)' /\ request'[s].token = h
      BY <1>1 DEF Holds
    <2>2. CASE Held(s) /\ request'[s].token = request[s].token
      BY <2>1, <2>2 DEF Holds
    <2>3. CASE /\ request'[s].token = request[s].token
               /\ challenge[request[s].token].state = "open"
      BY <2>1, <2>3
    <2>4. QED
      BY <2>1, <2>2, <2>3, NextTakes
  <1>2. QED
    BY <1>1, SpentStays

\* The successes of challenge h
CountsSuccess(h, n) == n' = n + (IF Succeeds(h) THEN 1 ELSE 0)

\* A challenge leads to one passkey or to one session at most, from the beginning on and
\* for ever: however many requests send it at the same time or again, and whichever
\* statements fail in between (service.go; passkeys.sql, ConsumeWebAuthnChallenge).  n is
\* a history variable that counts the successes of h.
THEOREM ChallengeSucceedsOnce ==
    ASSUME NEW h \in Tokens, NEW VARIABLE n
    PROVE  Spec /\ n = 0 /\ [][CountsSuccess(h, n)]_<<vars, n>> => [](n <= 1)
  <1> DEFINE Over == challenge[h].state = "spent" /\ \A r \in Requests : ~Holds(r, h)
             Once == n = 0 \/ (n = 1 /\ Over)
  <1>1. Typing /\ HeldOnce /\ Once /\ [Next]_vars /\ [CountsSuccess(h, n)]_<<vars, n>> => Once'
    <2> SUFFICES ASSUME Typing, HeldOnce, Once, [Next]_vars, [CountsSuccess(h, n)]_<<vars, n>>
                 PROVE  Once'
      OBVIOUS
    <2>1. CASE Succeeds(h)
      <3>1. n = 0
        BY <2>1, SuccessEnds
      <3>2. n' = 0 \/ n' = 1
        BY <3>1 DEF CountsSuccess
      <3>3. QED
        BY <2>1, <3>2, SuccessEnds
    <2>2. CASE ~Succeeds(h)
      <3>1. Once => n \in Nat
        OBVIOUS
      <3>2. n' = n
        BY <2>2, <3>1 DEF CountsSuccess
      <3>3. QED
        BY <3>2, SpentUnheld
    <2>3. QED
      BY <2>1, <2>2
  <1>2. n = 0 => Once
    OBVIOUS
  <1>3. Once => n <= 1
    OBVIOUS
  <1>4. Typing /\ HeldOnce /\ [Next]_vars => (Typing /\ HeldOnce)'
    BY NextTyping, NextHeldOnce
  <1> HIDE DEF Once
  <1>5. QED
    BY <1>1, <1>2, <1>3, <1>4, InitTyping, InitHeldOnce, PTL DEF Spec
=============================================================================
