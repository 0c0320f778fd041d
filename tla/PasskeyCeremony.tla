--------------------------- MODULE PasskeyCeremony ---------------------------
(***************************************************************************)
(* The ceremonies that register a passkey and log in with one: challenges, *)
(* passkeys and sessions in PostgreSQL, and the requests that work on them *)
(* at the same time (server/internal/passkey, store/passkey.go, and the    *)
(* sessions of server/internal/auth and store/auth.go).                    *)
(*                                                                         *)
(* Each action is one statement, with what is decided from its result.     *)
(* The verification of signatures is a library: its refusal, like the      *)
(* failure of a statement, is Fail.  Left out: names, the bytes of handles *)
(* (a user's handle is set once, so it is the user), and the windows of    *)
(* failures of an address, which are those of LoginFlow.                   *)
(***************************************************************************)
EXTENDS Naturals, FiniteSets

CONSTANTS
    Users,
    Creds,        \* credential ids: an authenticator makes a new one for each passkey
    Tokens,       \* challenge tokens: random, no two alike
    Requests,     \* requests that are served at the same time
    Counts,       \* sign counts an authenticator may send
    MaxPasskeysPerUser,
    ChallengeTTL,
    SessionTTL,
    None,         \* nobody, nothing
    MaxTime       \* bound of the clock, for model checking

ASSUME PasskeyAssumption ==
    /\ IsFiniteSet(Creds)
    /\ Counts \subseteq Nat
    /\ MaxPasskeysPerUser \in Nat \ {0}
    /\ ChallengeTTL \in Nat \ {0} /\ SessionTTL \in Nat \ {0}
    /\ MaxTime \in Nat
    /\ None \notin Users \cup Creds \cup Tokens

VARIABLES
    now,
    users,      \* the rows of "user"
    challenge,  \* challenge[h]: row of auth_webauthn_challenge; "spent" when used_at is
                \* set or the row is deleted, which is the same to all who look
    passkey,    \* passkey[c]: row of auth_passkey
    session,    \* session[h]: row of auth_session that the ceremony of h has started
    pc,         \* pc[r]: the statement that r runs next
    request     \* request[r]: what r was sent, and what it has found

tables == <<users, challenge, passkey, session>>
vars   == <<now, tables, pc, request>>

Instants == 0..MaxTime

NoChallenge == [state |-> "none", purpose |-> "login", user |-> None, expires |-> 0]
Spent       == [NoChallenge EXCEPT !.state = "spent"]
NoPasskey   == [state |-> "none", owner |-> None, count |-> 0]
NoSession   == [user |-> None, expires |-> 0]
NoRequest   == [op |-> "none", user |-> None, token |-> None, cred |-> None,
                count |-> 0, at |-> 0]

\* With the check of the table: a registration is bound to its user, a login to nobody.
Challenges ==
    {row \in [state : {"none", "open", "spent"}, purpose : {"register", "login"},
              user : Users \cup {None}, expires : 0..(MaxTime + ChallengeTTL)] :
        row.state = "open" => (row.purpose = "register" <=> row.user # None)}
Passkeys   == [state : {"none", "there", "gone"}, owner : Users \cup {None}, count : Nat]
Sessions   == [user : Users \cup {None}, expires : Nat]
RequestType == [op : {"none", "register", "login"}, user : Users \cup {None},
                token : Tokens \cup {None}, cred : Creds \cup {None},
                count : Nat, at : Nat]

TypeOK ==
    /\ now \in Instants
    /\ users \in SUBSET Users
    /\ challenge \in [Tokens -> Challenges]
    /\ passkey \in [Creds -> Passkeys]
    /\ session \in [Tokens -> Sessions]
    /\ pc \in [Requests -> {"idle", "clean", "store", "consume", "lock", "count", "insert",
                            "lookup", "record", "find", "purge", "create"}]
    /\ request \in [Requests -> RequestType]

There(c)    == passkey[c].state = "there"
OwnedBy(u)  == {c \in Creds : There(c) /\ passkey[c].owner = u}

\* The tables may hold passkeys of earlier days.
Init ==
    /\ now = 0
    /\ users = Users
    /\ challenge = [h \in Tokens |-> NoChallenge]
    /\ \E owner \in [Creds -> Users \cup {None}], count \in Counts :
           /\ passkey = [c \in Creds |->
                  IF owner[c] = None THEN NoPasskey
                  ELSE [state |-> "there", owner |-> owner[c], count |-> count]]
           /\ \A u \in Users : Cardinality({c \in Creds : owner[c] = u}) <= MaxPasskeysPerUser
    /\ session = [h \in Tokens |-> NoSession]
    /\ pc = [r \in Requests |-> "idle"]
    /\ request = [r \in Requests |-> NoRequest]

-----------------------------------------------------------------------------

Go(r, to) == pc' = [pc EXCEPT ![r] = to]

End(r) ==
    /\ Go(r, "idle")
    /\ request' = [request EXCEPT ![r] = NoRequest]

Begin(r, to, q) ==
    /\ pc[r] = "idle"
    /\ Go(r, to)
    /\ request' = [request EXCEPT ![r] = q]

\* A statement fails, the library refuses, or the client is gone; a transaction is
\* rolled back, and what was committed before stays.
Fail(r) ==
    /\ pc[r] # "idle"
    /\ End(r)
    /\ UNCHANGED <<now, tables>>

\* Mutant: the user is read without FOR UPDATE.
UserAlwaysFree(u) == TRUE

\* LockUserForPasskey holds the row of the user to the end of the transaction; rows
\* that refer to the user wait for it, too.
UserFree(u) == \A r \in Requests : ~(pc[r] \in {"count", "insert"} /\ request[r].user = u)

-----------------------------------------------------------------------------
(* Challenges *)

\* BeginRegistration: it stops early, without a lock, at the limit of passkeys.
RegisterBegin(r, u) ==
    /\ u \in users
    /\ Cardinality(OwnedBy(u)) < MaxPasskeysPerUser
    /\ Begin(r, "clean", [NoRequest EXCEPT !.op = "register", !.user = u])
    /\ UNCHANGED <<now, tables>>

\* BeginLogin, unless the limiter refuses it (CheckIP, AllowBegin)
LoginBegin(r) ==
    /\ Begin(r, "clean", [NoRequest EXCEPT !.op = "login"])
    /\ UNCHANGED <<now, tables>>

\* DeleteExpired of challenges; that it fails is only logged.
CleanChallenges(r) ==
    /\ pc[r] = "clean"
    /\ Go(r, "store")
    /\ request' = [request EXCEPT ![r].at = now]
    /\ \/ challenge' = [h \in Tokens |->
              IF challenge[h].state = "open" /\ challenge[h].expires <= now
              THEN Spent ELSE challenge[h]]
       \/ UNCHANGED challenge
    /\ UNCHANGED <<now, users, passkey, session>>

\* Mutant: the challenge of a registration is not bound to its user.
UnboundChallenge(q) ==
    [state |-> "open", purpose |-> q.op, user |-> None, expires |-> q.at + ChallengeTTL]

OpenChallenge(q) ==
    [state |-> "open", purpose |-> q.op, user |-> q.user, expires |-> q.at + ChallengeTTL]

\* CreateWebAuthnChallenge; the row of a registration refers to its user.
StoreChallenge(r) ==
    LET q == request[r]
    IN  /\ pc[r] = "store"
        /\ q.user # None => q.user \in users /\ UserFree(q.user)
        /\ \E h \in Tokens :
               /\ challenge[h].state = "none"
               /\ challenge' = [challenge EXCEPT ![h] = OpenChallenge(q)]
        /\ End(r)
        /\ UNCHANGED <<now, users, passkey, session>>

\* ConsumeWebAuthnChallenge finds a challenge that is unused, of the purpose, in time.
Consumable(h, purpose) ==
    /\ challenge[h].state = "open"
    /\ challenge[h].purpose = purpose
    /\ challenge[h].expires > now

\* Mutant: a challenge is used up only when the ceremony has come to its end.
UseUpLater(h) == UNCHANGED challenge

UseUp(h) == challenge' = [challenge EXCEPT ![h] = Spent]

\* A challenge is used up whatever comes next; one that somebody else began is of no use.
Consume(r) ==
    LET q == request[r]
    IN  /\ pc[r] = "consume"
        /\ IF Consumable(q.token, q.op)
           THEN /\ UseUp(q.token)
                /\ IF challenge[q.token].user # q.user THEN End(r)
                   ELSE /\ Go(r, IF q.op = "register" THEN "lock" ELSE "lookup")
                        /\ UNCHANGED request
           ELSE End(r) /\ UNCHANGED challenge
        /\ UNCHANGED <<now, users, passkey, session>>

-----------------------------------------------------------------------------
(* FinishRegistration, and Create of store/passkey.go *)

RegisterFinish(r, u, h, c, n) ==
    /\ u \in users
    /\ passkey[c].state # "gone"
    /\ Begin(r, "consume", [NoRequest EXCEPT !.op = "register", !.user = u, !.token = h,
                                             !.cred = c, !.count = n])
    /\ UNCHANGED <<now, tables>>

LockUser(r) ==
    LET u == request[r].user
    IN  /\ pc[r] = "lock"
        /\ IF u \in users
           THEN UserFree(u) /\ Go(r, "count") /\ UNCHANGED request
           ELSE End(r)
        /\ UNCHANGED <<now, tables>>

CountPasskeys(r) ==
    /\ pc[r] = "count"
    /\ IF Cardinality(OwnedBy(request[r].user)) < MaxPasskeysPerUser
       THEN Go(r, "insert") /\ UNCHANGED request
       ELSE End(r)
    /\ UNCHANGED <<now, tables>>

\* CreatePasskey and the commit; credential_id is unique.
CreatePasskey(r) ==
    LET q == request[r]
    IN  /\ pc[r] = "insert"
        /\ passkey' = IF passkey[q.cred].state = "none"
                      THEN [passkey EXCEPT ![q.cred] =
                               [state |-> "there", owner |-> q.user, count |-> q.count]]
                      ELSE passkey
        /\ End(r)
        /\ UNCHANGED <<now, users, challenge, session>>

-----------------------------------------------------------------------------
(* FinishLogin, and StartSession of auth/service.go.  request[r].user is None until  *)
(* the passkey is found, and then its owner.                                         *)

LoginFinish(r, h, c, n) ==
    /\ Begin(r, "consume", [NoRequest EXCEPT !.op = "login", !.token = h, !.cred = c,
                                             !.count = n])
    /\ UNCHANGED <<now, tables>>

\* A count rises, or is 0 for ever.
Rises(stored, received) == stored < received \/ (stored = 0 /\ received = 0)

\* FindByCredentialID and UserIDByHandle, the handle being the one of u; then the
\* signature and the count are looked at.
Lookup(r) ==
    LET q == request[r]
    IN  /\ pc[r] = "lookup"
        /\ \E u \in Users :
               IF There(q.cred) /\ passkey[q.cred].owner = u
                  /\ Rises(passkey[q.cred].count, q.count)
               THEN Go(r, "record") /\ request' = [request EXCEPT ![r].user = u]
               ELSE End(r)
        /\ UNCHANGED <<now, tables>>

\* Mutant: the count that was looked at before is trusted.
RecordableAnyway(c, n) == There(c)

\* UpdatePasskeyUsage compares once more, on the row as it is now.
Recordable(c, n) == There(c) /\ Rises(passkey[c].count, n)

RecordUse(r) ==
    LET q == request[r]
    IN  /\ pc[r] = "record"
        /\ IF Recordable(q.cred, q.count)
           THEN /\ passkey' = [passkey EXCEPT ![q.cred].count = q.count]
                /\ Go(r, "find") /\ UNCHANGED request
           ELSE End(r) /\ UNCHANGED passkey
        /\ UNCHANGED <<now, users, challenge, session>>

\* FindByID: a user may have gone since.
FindUser(r) ==
    /\ pc[r] = "find"
    /\ IF request[r].user \in users
       THEN Go(r, "purge") /\ UNCHANGED request
       ELSE End(r)
    /\ UNCHANGED <<now, tables>>

\* startSession: DeleteExpired of sessions; that it fails is only logged.
PurgeSessions(r) ==
    /\ pc[r] = "purge"
    /\ Go(r, "create")
    /\ request' = [request EXCEPT ![r].at = now]
    /\ \/ session' = [h \in Tokens |-> IF session[h].expires <= now THEN NoSession
                                       ELSE session[h]]
       \/ UNCHANGED session
    /\ UNCHANGED <<now, users, challenge, passkey>>

\* CreateSession; the row refers to its user.
CreateSession(r) ==
    LET u == request[r].user
    IN  /\ pc[r] = "create"
        /\ u \in users /\ UserFree(u)
        /\ session' = [session EXCEPT ![request[r].token] =
                           [user |-> u, expires |-> request[r].at + SessionTTL]]
        /\ End(r)
        /\ UNCHANGED <<now, users, challenge, passkey>>

-----------------------------------------------------------------------------
(* Single statements *)

Delete(c) ==
    /\ There(c)
    /\ passkey' = [passkey EXCEPT ![c] = [NoPasskey EXCEPT !.state = "gone"]]
    /\ UNCHANGED <<now, users, challenge, session, pc, request>>

Logout(h) ==
    /\ session[h] # NoSession
    /\ session' = [session EXCEPT ![h] = NoSession]
    /\ UNCHANGED <<now, users, challenge, passkey, pc, request>>

\* A user is removed by hand; all rows that refer to him go (ON DELETE CASCADE).
RemoveUser(u) ==
    /\ u \in users /\ UserFree(u)
    /\ users' = users \ {u}
    /\ challenge' = [h \in Tokens |-> IF challenge[h].user = u
                                      THEN Spent ELSE challenge[h]]
    /\ passkey' = [c \in Creds |-> IF passkey[c].owner = u
                                   THEN [NoPasskey EXCEPT !.state = "gone"] ELSE passkey[c]]
    /\ session' = [h \in Tokens |-> IF session[h].user = u THEN NoSession ELSE session[h]]
    /\ UNCHANGED <<now, pc, request>>

Tick ==
    /\ now < MaxTime
    /\ now' = now + 1
    /\ UNCHANGED <<tables, pc, request>>

\* A client sends only tokens that it was given.
Ask(r) ==
    \/ LoginBegin(r)
    \/ \E u \in Users : RegisterBegin(r, u)
    \/ \E h \in Tokens, c \in Creds, n \in Counts :
           /\ challenge[h].state # "none"
           /\ LoginFinish(r, h, c, n) \/ \E u \in Users : RegisterFinish(r, u, h, c, n)

Serve(r) ==
    \/ CleanChallenges(r) \/ StoreChallenge(r) \/ Consume(r)
    \/ LockUser(r) \/ CountPasskeys(r) \/ CreatePasskey(r)
    \/ Lookup(r) \/ RecordUse(r) \/ FindUser(r) \/ PurgeSessions(r) \/ CreateSession(r)

Next ==
    \/ \E r \in Requests : Ask(r) \/ Serve(r) \/ Fail(r)
    \/ \E c \in Creds : Delete(c)
    \/ \E h \in Tokens : Logout(h)
    \/ \E u \in Users : RemoveUser(u)
    \/ Tick

Spec == Init /\ [][Next]_vars

-----------------------------------------------------------------------------
(* Properties *)

\* However many registrations of a user are finished at once, he has no more passkeys
\* than the limit (store/passkey.go, Create).
PasskeysWithinLimit ==
    \A u \in Users : Cardinality(OwnedBy(u)) <= MaxPasskeysPerUser

\* The login has been let in, and waits for its session.
Passed(r) == pc[r] \in {"find", "purge", "create"}

\* Logins with one passkey that are let in at the same time have sent different counts,
\* unless the authenticator does not count (service.go, FinishLogin).
CountsDiffer ==
    \A r, s \in Requests :
        /\ r # s /\ Passed(r) /\ Passed(s)
        /\ request[r].cred = request[s].cred /\ request[r].count = request[s].count
        => request[r].count = 0

\* The challenge is used up, and the ceremony is not decided.
Taken(r) == pc[r] \in {"lock", "count", "insert", "lookup", "record"}

Life(h) ==
    LET holders == {r \in Requests : request[r].token = h /\ (Taken(r) \/ Passed(r))}
        holder  == CHOOSE r \in holders : TRUE
    IN  IF holders # {}
        THEN [stage |-> IF Passed(holder) THEN "passed" ELSE "taken",
              user  |-> IF Taken(holder) /\ request[holder].op = "login"
                        THEN None ELSE request[holder].user]
        ELSE CASE challenge[h].state = "none" -> [stage |-> "none", user |-> None]
               [] challenge[h].state = "open" -> [stage |-> "open", user |-> challenge[h].user]
               [] OTHER -> [stage |-> "spent", user |-> None]

Ledger == INSTANCE PasskeyLedger
              WITH life <- [h \in Tokens |-> Life(h)],
                   passkeys <- [c \in Creds |-> [owner |-> passkey[c].owner,
                                                 count |-> passkey[c].count]],
                   sessions <- [h \in Tokens |-> session[h].user]

\* The ceremonies, whose steps are many, keep to PasskeyLedger: each success has a
\* challenge of its own that was open, of the right purpose and user, and a session
\* is the owner's of the passkey that was used for it (service.go, FinishRegistration
\* and FinishLogin).
ImplementsLedger == Ledger!Spec

=============================================================================
