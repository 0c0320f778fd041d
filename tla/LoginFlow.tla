------------------------------ MODULE LoginFlow ------------------------------
(***************************************************************************)
(* Logins with a password or a passkey, and the limiter that counts the    *)
(* failures per account and per IP address                                 *)
(* (server/internal/auth/limiter.go, service.go; passkey/service.go).      *)
(*                                                                         *)
(* A login checks the limiter, compares, and tells the limiter: three      *)
(* steps, each under the mutex of the limiter, with the steps of other     *)
(* logins between them.  The counts are kept in memory.                    *)
(*                                                                         *)
(* An account is what accountKey makes of a user name, whether a user has  *)
(* the name or not.                                                        *)
(***************************************************************************)
EXTENDS Naturals, FiniteSetsExt

CONSTANTS
    Accounts,           \* account keys
    IPs,                \* addresses of clients
    Logins,             \* the logins that the server handles at the same time
    NoAccount,          \* the account of a login with a passkey
    AccountMaxFailures, \* accountMaxFailures
    IPMaxFailures,      \* ipMaxFailures
    Window,             \* limiterWindow, in ticks
    LockoutBase,        \* lockoutBase, in ticks
    LockoutMax,         \* lockoutMax, in ticks
    LevelMax,           \* the level at which Failure stops to count levels
    MaxTime             \* bound of the clock, for model checking

ASSUME LimiterAssumption ==
    /\ IsFiniteSet(Logins)
    /\ NoAccount \notin Accounts
    /\ AccountMaxFailures \in Nat \ {0}
    /\ IPMaxFailures \in Nat \ {0}
    /\ Window \in Nat \ {0}
    /\ LockoutBase \in Nat \ {0}
    /\ LockoutMax \in Nat \ {0}
    /\ LevelMax \in Nat
    /\ MaxTime \in Nat

\* The shift of Failure stays in the range of a duration: it loses no bit, so that a
\* higher level never gives a shorter lockout.
ASSUME ShiftAssumption ==
    /\ \A level \in 0..LevelMax : LockoutBase * 2 ^ level \in Nat
    /\ \A low, high \in 0..LevelMax :
          low <= high => LockoutBase * 2 ^ low <= LockoutBase * 2 ^ high

VARIABLES
    now,      \* the clock
    accounts, \* LoginLimiter.accounts
    ips,      \* LoginLimiter.ips
    pc,       \* pc[l]: "idle", or "compare" between the check and the answer
    account,  \* account[l]: the account l is for; NoAccount with a passkey
    ip,       \* ip[l]: the address l comes from
    promise   \* history: what the last RetryAfter has promised

limiter == <<accounts, ips>>
login   == <<pc, account, ip>>
vars    == <<now, limiter, login, promise>>

\* A key that is not in the map.  An entry in the map has counted a failure.
NoEntry == [failures |-> 0, windowStart |-> 0, lockUntil |-> 0, level |-> 0]

Promise == [account : Accounts \cup {NoAccount}, ip : IPs, from : Nat]

TypeOK ==
    /\ now \in Nat
    /\ accounts \in [Accounts -> [failures : Nat, windowStart : Nat, lockUntil : Nat,
                                  level : 0..LevelMax]]
    /\ ips \in [IPs -> [failures : Nat, windowStart : Nat, lockUntil : {0}, level : {0}]]
    /\ pc \in [Logins -> {"idle", "compare"}]
    /\ account \in [Logins -> Accounts \cup {NoAccount}]
    /\ ip \in [Logins -> IPs]
    /\ promise \in SUBSET Promise

Init ==
    /\ now = 1
    /\ accounts = [a \in Accounts |-> NoEntry]
    /\ ips = [i \in IPs |-> NoEntry]
    /\ pc = [l \in Logins |-> "idle"]
    /\ account = [l \in Logins |-> NoAccount]
    /\ ip \in [Logins -> IPs]
    /\ promise = {}

-----------------------------------------------------------------------------
(* limiter.go *)

\* The window of an entry and its lock are over.
Over(e) == now >= e.windowStart + Window /\ now >= e.lockUntil

\* entryFor
EntryFor(e) ==
    IF e.failures = 0 \/ Over(e) THEN [NoEntry EXCEPT !.windowStart = now] ELSE e

\* sweep, when the maps hold limiterSweepAt entries
Sweep(map) == [k \in DOMAIN map |-> IF Over(map[k]) THEN NoEntry ELSE map[k]]

\* Mutant: the wrong constant limits the lockout.
LockoutFallsBack(level) ==
    LET lock == LockoutBase * 2 ^ level
    IN  IF lock > LockoutMax THEN LockoutBase ELSE lock

Lockout(level) ==
    LET lock == LockoutBase * 2 ^ level
    IN  IF lock > LockoutMax THEN LockoutMax ELSE lock

AccountWait(a) ==
    IF a # NoAccount /\ now < accounts[a].lockUntil
    THEN accounts[a].lockUntil - now ELSE 0

\* Mutant: the lock of an address is not looked at.
IPWaitNever(i) == 0

IPWait(i) ==
    IF ips[i].failures >= IPMaxFailures /\ now < ips[i].windowStart + Window
    THEN ips[i].windowStart + Window - now ELSE 0

\* Mutant: the shorter wait is told.
WaitShorter(a, i) ==
    IF AccountWait(a) = 0 \/ IPWait(i) = 0 THEN Max({AccountWait(a), IPWait(i)})
    ELSE Min({AccountWait(a), IPWait(i)})

\* Check, and CheckIP when there is no account
Wait(a, i) == Max({AccountWait(a), IPWait(i)})

\* Mutant: the levels are counted without end.
AccountFailureUncapped(e) ==
    IF e.failures + 1 < AccountMaxFailures
    THEN [e EXCEPT !.failures = @ + 1, !.windowStart = now]
    ELSE [failures    |-> e.failures + 1,
          lockUntil   |-> now + Lockout(e.level),
          windowStart |-> now + Lockout(e.level),
          level       |-> e.level + 1]

\* The entry e of an account counts a failure.
AccountFailure(e) ==
    IF e.failures + 1 < AccountMaxFailures
    THEN [e EXCEPT !.failures = @ + 1, !.windowStart = now]
    ELSE [failures    |-> e.failures + 1,
          lockUntil   |-> now + Lockout(e.level),
          windowStart |-> now + Lockout(e.level),
          level       |-> IF e.level < LevelMax THEN e.level + 1 ELSE e.level]

\* The entry e of an address does.
IPFailure(e) == [e EXCEPT !.failures = @ + 1]

\* Failure, and FailureIP when there is no account
Failure(a, i) ==
    \E swept \in BOOLEAN :
        LET as == IF swept THEN Sweep(accounts) ELSE accounts
            is == IF swept THEN Sweep(ips) ELSE ips
        IN  /\ accounts' = [k \in Accounts |->
                               IF k = a THEN AccountFailure(EntryFor(as[k])) ELSE as[k]]
            /\ ips' = [is EXCEPT ![i] = IPFailure(EntryFor(@))]

\* Mutant: a success forgives the failures of the address, too.
SuccessForgivesIP(a, i) ==
    /\ accounts' = [k \in Accounts |-> IF k = a THEN NoEntry ELSE accounts[k]]
    /\ ips' = [ips EXCEPT ![i] = NoEntry]

\* Success; a login with a passkey does not call it.
Success(a, i) ==
    /\ accounts' = [k \in Accounts |-> IF k = a THEN NoEntry ELSE accounts[k]]
    /\ UNCHANGED ips

-----------------------------------------------------------------------------
(* Service.Login, and passkey.Service.FinishLogin with no account *)

Idle(l) ==
    /\ pc' = [pc EXCEPT ![l] = "idle"]
    /\ account' = [account EXCEPT ![l] = NoAccount]
    /\ UNCHANGED ip

CheckPasses(l, a, i) ==
    /\ pc[l] = "idle"
    /\ Wait(a, i) = 0
    /\ pc' = [pc EXCEPT ![l] = "compare"]
    /\ account' = [account EXCEPT ![l] = a]
    /\ ip' = [ip EXCEPT ![l] = i]
    /\ UNCHANGED <<now, limiter, promise>>

\* TooManyAttemptsError
TooMany(l, a, i) ==
    /\ pc[l] = "idle"
    /\ Wait(a, i) > 0
    /\ promise' = {[account |-> a, ip |-> i, from |-> now + Wait(a, i)]}
    /\ UNCHANGED <<now, limiter, login>>

\* A failure counts for its account and its address: what the logins of these were
\* promised is off.
Touched(a, i) ==
    promise' = {p \in promise : p.ip # i /\ (a = NoAccount \/ p.account # a)}

\* ErrInvalidCredentials, rejectLogin
Wrong(l) ==
    /\ pc[l] = "compare"
    /\ Failure(account[l], ip[l])
    /\ Touched(account[l], ip[l])
    /\ Idle(l)
    /\ UNCHANGED now

Right(l) ==
    /\ pc[l] = "compare"
    /\ Success(account[l], ip[l])
    /\ Idle(l)
    /\ UNCHANGED <<now, promise>>

\* The database fails: nothing is counted.
LookupFails(l) ==
    /\ pc[l] = "compare"
    /\ Idle(l)
    /\ UNCHANGED <<now, limiter, promise>>

\* The process restarts with empty maps.
Restart ==
    /\ accounts' = [a \in Accounts |-> NoEntry]
    /\ ips' = [i \in IPs |-> NoEntry]
    /\ pc' = [l \in Logins |-> "idle"]
    /\ account' = [l \in Logins |-> NoAccount]
    /\ UNCHANGED <<now, ip, promise>>

Tick ==
    /\ now < MaxTime
    /\ now' = now + 1
    /\ UNCHANGED <<limiter, login, promise>>

Next ==
    \/ \E l \in Logins :
          \/ \E a \in Accounts \cup {NoAccount}, i \in IPs :
                CheckPasses(l, a, i) \/ TooMany(l, a, i)
          \/ Wrong(l) \/ Right(l) \/ LookupFails(l)
    \/ Restart
    \/ Tick

Spec == Init /\ [][Next]_vars

-----------------------------------------------------------------------------
(* Properties *)

\* While an account is locked, a failure that was on its way when the lock began
\* never makes the lock end earlier; only a success or a restart removes it
\* (limiter.go, Failure: the lock is as long as the level says).
LockNeverShortened ==
    [][\A a \in Accounts :
          now < accounts[a].lockUntil /\ accounts'[a].failures > 0 =>
              accounts'[a].lockUntil >= accounts[a].lockUntil]_vars

\* The failures of an address stay for its whole window, whatever logins succeed from
\* there (limiter.go, the comment before Success); only a restart forgets them.
IPFailuresStay ==
    [][\A i \in IPs :
          ips'[i].failures < ips[i].failures =>
              now >= ips[i].windowStart + Window \/ Restart]_vars

\* The check and the count are separate steps, so that logins from one address can
\* pass the check together; but one window never counts more failures than the
\* limit and what was under way when the limit was reached (service.go, Login).
IPOvershootBounded ==
    \A i \in IPs :
        now < ips[i].windowStart + Window =>
            ips[i].failures < IPMaxFailures + Cardinality(Logins)

\* Who comes back when RetryAfter is over is let in, unless the account or the address
\* has failed again since (limiter.go, Check).
RetryAfterKept ==
    \A p \in promise : now >= p.from => Wait(p.account, p.ip) = 0
=============================================================================
