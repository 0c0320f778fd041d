---------------------------- MODULE PasskeyLedger ----------------------------
(***************************************************************************)
(* What the ceremonies of passkeys promise, without statements and         *)
(* requests.  A challenge is good for one registration or for one login,   *)
(* and for neither once a step has failed; a login raises the count of a   *)
(* passkey that is there, and one session is started for it, of its owner. *)
(* (db/migrations/00007_auth_passkey.sql, internal/passkey/ports.go)       *)
(***************************************************************************)
EXTENDS Naturals

CONSTANTS Users, Creds, Tokens, None

VARIABLES
    life,      \* life[h].stage: how far the ceremony of challenge h has come;
               \* life[h].user: who registers, or has logged in
    passkeys,  \* passkeys[c]: owner and count of passkey c
    sessions   \* sessions[h]: the user of the session that h's ceremony has started

vars == <<life, passkeys, sessions>>

NoPasskey == [owner |-> None, count |-> 0]
At(stage, user) == [stage |-> stage, user |-> user]

Init ==
    /\ life = [h \in Tokens |-> At("none", None)]
    /\ passkeys \in [Creds -> [owner : Users \cup {None}, count : Nat]]
    /\ sessions = [h \in Tokens |-> None]

Open(h) ==
    /\ life[h].stage = "none"
    /\ \E u \in Users \cup {None} : life' = [life EXCEPT ![h] = At("open", u)]
    /\ UNCHANGED <<passkeys, sessions>>

Take(h) ==
    /\ life[h].stage = "open"
    /\ life' = [life EXCEPT ![h] = At("taken", life[h].user)]
    /\ UNCHANGED <<passkeys, sessions>>

\* Ceremonies that fail, or lapse
Lose(H) ==
    /\ \A h \in H : life[h].stage # "none"
    /\ life' = [h \in Tokens |-> IF h \in H THEN At("spent", None) ELSE life[h]]
    /\ UNCHANGED <<passkeys, sessions>>

\* A challenge that is bound to a user registers a passkey for him.
Register(h, c) ==
    /\ life[h].stage = "taken" /\ life[h].user # None
    /\ passkeys[c].owner = None
    /\ passkeys'[c].owner = life[h].user
    /\ passkeys' = [passkeys EXCEPT ![c] = passkeys'[c]]
    /\ life' = [life EXCEPT ![h] = At("spent", None)]
    /\ UNCHANGED sessions

\* One that is not bound lets the owner of a passkey in, whose count must rise unless
\* it is not counted at all.
Pass(h, c) ==
    LET n == passkeys'[c].count
    IN  /\ life[h] = At("taken", None)
        /\ passkeys[c].owner # None
        /\ passkeys[c].count < n \/ (passkeys[c].count = 0 /\ n = 0)
        /\ passkeys' = [passkeys EXCEPT ![c].count = n]
        /\ life' = [life EXCEPT ![h] = At("passed", passkeys[c].owner)]
        /\ UNCHANGED sessions

Enter(h) ==
    /\ life[h].stage = "passed"
    /\ sessions' = [sessions EXCEPT ![h] = life[h].user]
    /\ life' = [life EXCEPT ![h] = At("spent", None)]
    /\ UNCHANGED passkeys

DropPasskey(c) ==
    /\ passkeys' = [passkeys EXCEPT ![c] = NoPasskey]
    /\ UNCHANGED <<life, sessions>>

DropSessions(H) ==
    /\ sessions' = [h \in Tokens |-> IF h \in H THEN None ELSE sessions[h]]
    /\ UNCHANGED <<life, passkeys>>

\* With a user goes all that is his.
DropUser(u) ==
    /\ life' = [h \in Tokens |-> IF life[h].user = u /\ life[h].stage = "open"
                                 THEN At("spent", None) ELSE life[h]]
    /\ passkeys' = [c \in Creds |-> IF passkeys[c].owner = u THEN NoPasskey ELSE passkeys[c]]
    /\ sessions' = [h \in Tokens |-> IF sessions[h] = u THEN None ELSE sessions[h]]

Next ==
    \/ \E h \in Tokens : \/ Open(h) \/ Take(h) \/ Enter(h)
                         \/ \E c \in Creds : Register(h, c) \/ Pass(h, c)
    \/ \E H \in SUBSET Tokens : Lose(H) \/ DropSessions(H)
    \/ \E c \in Creds : DropPasskey(c)
    \/ \E u \in Users : DropUser(u)

Spec == Init /\ [][Next]_vars
=============================================================================
