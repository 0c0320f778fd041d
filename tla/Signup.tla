------------------------------- MODULE Signup -------------------------------
(***************************************************************************)
(* Signups, from the limits of an address to the commit of the account     *)
(* (server/internal/app/limits.go, auth/service.go, store/auth.go).        *)
(*                                                                         *)
(* The limiters are called one after the other, each under a mutex of its  *)
(* own, with the work of the signup between the question whether failures  *)
(* are left and the charge for one.  In the transaction the row of the     *)
(* user is the only one that others may wait for.  Left out: the limit of  *)
(* all calls, which is another Allow, and the size of a body.              *)
(***************************************************************************)
EXTENDS Naturals, FiniteSets

CONSTANTS
    Addresses,     \* ipKey
    Names,         \* user names
    KnownTags,     \* the rows of tag
    TagSets,       \* favourite tags that are sent, without duplicates (normalizeTags)
    Invalid,       \* an input that is refused before the database is asked
    Requests,
    FailBurst, FailEvery,  \* signupFail
    IPBurst, IPEvery,      \* signupIP
    SweepEvery, CrowdedSweepEvery, MaxKeys,
    None,          \* nothing
    StartTime,     \* later than any SweepEvery: the zero time is long ago
    MaxTime        \* bound of the clock, for model checking

VARIABLES
    now,
    fail,      \* the limiter signupFail
    attempt,   \* the limiter signupIP
    users,     \* rows of "user" with the rows of recommend and auth_session
    pc,        \* pc[r]: what r does next
    request    \* request[r]: what r was sent

vars == <<now, fail, attempt, users, pc, request>>

Fail == INSTANCE TokenBucket WITH Burst <- FailBurst, Every <- FailEvery
IP   == INSTANCE TokenBucket WITH Burst <- IPBurst, Every <- IPEvery

ASSUME SignupAssumption ==
    /\ IsFiniteSet(Requests)
    /\ Fail!BucketAssumption /\ IP!BucketAssumption
    /\ MaxTime \in Nat /\ StartTime \in 0..MaxTime /\ SweepEvery <= StartTime
    \* normalizeTags refuses a list without a tag.
    /\ {} \notin TagSets
    /\ None \notin Names \cup Addresses

NoRequest == [address |-> None, name |-> None, tags |-> {}]

RequestType == [address : Addresses \cup {None}, name : Names \cup {None},
                tags : TagSets \cup {Invalid, {}}]

Limiter(bucket) ==
    [buckets : UNION {[keys -> bucket] : keys \in SUBSET Addresses}, lastSweep : Nat]

Users == [name : Names, tags : (SUBSET KnownTags) \ {{}}, session : Requests]

TypeOK ==
    /\ now \in Nat
    /\ fail \in Limiter([tokens : 0..Fail!Full, last : 0..MaxTime])
    /\ attempt \in Limiter([tokens : 0..IP!Full, last : 0..MaxTime])
    /\ Cardinality(DOMAIN fail.buckets) <= MaxKeys
    /\ Cardinality(DOMAIN attempt.buckets) <= MaxKeys
    /\ users \in SUBSET Users
    /\ pc \in [Requests -> {"idle", "wait", "allow", "tags", "user", "commit", "take"}]
    /\ request \in [Requests -> RequestType]

Init ==
    /\ now = StartTime
    /\ fail = Fail!Empty
    /\ attempt = IP!Empty
    /\ users = {}
    /\ pc = [r \in Requests |-> "idle"]
    /\ request = [r \in Requests |-> NoRequest]

-----------------------------------------------------------------------------

Go(r, to) == pc' = [pc EXCEPT ![r] = to]

End(r) ==
    /\ Go(r, "idle")
    /\ request' = [request EXCEPT ![r] = NoRequest]

Arrive(r, a, n, tags) ==
    /\ pc[r] = "idle"
    /\ Go(r, "wait")
    /\ request' = [request EXCEPT ![r] = [address |-> a, name |-> n, tags |-> tags]]
    /\ UNCHANGED <<now, fail, attempt, users>>

\* Mutant: the limit of failures is not asked before a signup.
NeverWaits(r) == FALSE

MustWait(r) == Fail!Waits(fail, request[r].address, now)

\* signupFail.Wait: without failures left, no attempt is used.
WaitFailures(r) ==
    /\ pc[r] = "wait"
    /\ fail' = Fail!AfterWait(fail, request[r].address, now)
    /\ IF MustWait(r) THEN End(r) ELSE Go(r, "allow") /\ UNCHANGED request
    /\ UNCHANGED <<now, attempt, users>>

\* signupIP.Allow, and the checks of Signup that need no database
AllowAttempt(r) ==
    LET a == request[r].address
    IN  /\ pc[r] = "allow"
        /\ \E l \in IP!Touched(attempt, a, now) :
               IF IP!Allows(l, a)
               THEN /\ attempt' = IP!Charged(l, a, now)
                    /\ Go(r, IF request[r].tags = Invalid THEN "take" ELSE "tags")
                    /\ UNCHANGED request
               ELSE attempt' = l /\ End(r)
        /\ UNCHANGED <<now, fail, users>>

\* FindTagByNormalizedName: a tag that is not known is refused before anything is made.
FindTags(r) ==
    /\ pc[r] = "tags"
    /\ Go(r, IF request[r].tags \subseteq KnownTags THEN "user" ELSE "take")
    /\ UNCHANGED <<now, fail, attempt, users, request>>

Taken(n) == \E u \in users : u.name = n

\* Mutant: user_name is looked for, but is not unique.
NobodyInserts(r) == TRUE

\* The INSERT waits for a row with the same name that is not committed yet.
NobodyElseInserts(r) ==
    \A s \in Requests \ {r} : ~(pc[s] = "commit" /\ request[s].name = request[r].name)

\* CreateUser
CreateUser(r) ==
    /\ pc[r] = "user"
    /\ NobodyElseInserts(r)
    /\ Go(r, IF Taken(request[r].name) THEN "take" ELSE "commit")
    /\ UNCHANGED <<now, fail, attempt, users, request>>

\* CreateInitialRecommendation for each tag, CreateSession and Commit: rows that nobody
\* else can touch.
Commit(r) ==
    /\ pc[r] = "commit"
    /\ users' = users \cup {[name |-> request[r].name, tags |-> request[r].tags,
                             session |-> r]}
    /\ End(r)
    /\ UNCHANGED <<now, fail, attempt>>

\* A statement fails: 500, which is not charged.
Break(r) ==
    /\ pc[r] \in {"tags", "user", "commit"}
    /\ End(r)
    /\ UNCHANGED <<now, fail, attempt, users>>

\* signupFail.Take, after 409 and 422
TakeFailure(r) ==
    LET a == request[r].address
    IN  /\ pc[r] = "take"
        /\ \E l \in Fail!Touched(fail, a, now) : fail' = Fail!Charged(l, a, now)
        /\ End(r)
        /\ UNCHANGED <<now, attempt, users>>

Tick ==
    /\ now < MaxTime
    /\ now' = now + 1
    /\ UNCHANGED <<fail, attempt, users, pc, request>>

Ask(r) ==
    \E a \in Addresses, n \in Names, tags \in TagSets \cup {Invalid} :
        Arrive(r, a, n, tags)

Serve(r) ==
    \/ WaitFailures(r) \/ AllowAttempt(r) \/ FindTags(r)
    \/ CreateUser(r) \/ Commit(r) \/ TakeFailure(r)

Next ==
    \/ \E r \in Requests : Ask(r) \/ Serve(r) \/ Break(r)
    \/ Tick

Spec == Init /\ [][Next]_vars

-----------------------------------------------------------------------------
(* Properties *)

\* Signups of an address that have passed the question whether failures are left
UnderWay(a) ==
    {r \in Requests : pc[r] \notin {"idle", "wait"} /\ request[r].address = a}

\* Signups ask for failures before their work and are charged after it, so that more
\* of them can fail than the limit allows.  Yet when nothing is left, one at least has
\* been charged that has not got in again, so the ones to come are fewer than what
\* the server serves at once (app/limits.go, requestLimits).
OvershootBounded ==
    \A a \in Addresses :
        Fail!Waits(fail, a, now) => Cardinality(UnderWay(a)) < Cardinality(Requests)

\* Of several signups for one name that are served at once, one succeeds at most
\* (store/auth.go, CreateWithInterestsAndSession).
OneAccountPerName ==
    \A u, v \in users : u.name = v.name => u = v

FailLedger == INSTANCE QuotaLedger
                  WITH Keys <- Addresses, Burst <- FailBurst, Every <- FailEvery,
                       level <- [a \in Addresses |-> Fail!Level(fail, a, now)],
                       crowded <- Fail!Crowded(fail)
IPLedger   == INSTANCE QuotaLedger
                  WITH Keys <- Addresses, Burst <- IPBurst, Every <- IPEvery,
                       level <- [a \in Addresses |-> IP!Level(attempt, a, now)],
                       crowded <- IP!Crowded(attempt)

\* Sweeps, refills in arrears and the order of the calls are not to be seen: an
\* address is treated as if its buckets had always been there (ratelimit.go), until
\* the table is full.
ImplementsQuota == FailLedger!Spec /\ IPLedger!Spec

=============================================================================
