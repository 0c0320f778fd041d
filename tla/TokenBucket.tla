----------------------------- MODULE TokenBucket -----------------------------
(***************************************************************************)
(* A limiter of calls per key (server/internal/platform/ratelimit).        *)
(*                                                                         *)
(* A limiter is a record of the buckets it knows and of the time of its    *)
(* last sweep.  Tokens are counted in units of time: a call costs Every of *)
(* them and each unit of time brings one back, so that what the code does  *)
(* in floating point with an epsilon is exact here.                        *)
(***************************************************************************)
EXTENDS Integers, FiniteSets

CONSTANTS
    Burst,
    Every,
    SweepEvery,
    CrowdedSweepEvery, \* the second between the sweeps of a table that is full
    MaxKeys

\* What whoever makes a limiter assumes of it
BucketAssumption ==
    /\ Burst \in Nat \ {0} /\ Every \in Nat \ {0} /\ MaxKeys \in Nat \ {0}
    /\ SweepEvery \in Nat \ {0} /\ CrowdedSweepEvery \in Nat \ {0}

Full == Burst * Every

\* New: the first sweep does not wait.
Empty == [buckets |-> <<>>, lastSweep |-> 0]

Knows(l, k) == k \in DOMAIN l.buckets

Least(a, b) == IF a <= b THEN a ELSE b

\* refill
Refilled(b, now) == Least(Full, b.tokens + (now - b.last))

Keep(l, keys) == [l EXCEPT !.buckets = [k \in keys |-> l.buckets[k]]]

\* Mutant: a bucket that holds one call is thought to be unused.
IsFullEnough(b, now) == b.tokens + (now - b.last) >= Every

IsFull(b, now) == b.tokens + (now - b.last) >= Full

Swept(l, now) ==
    [Keep(l, {k \in DOMAIN l.buckets : ~IsFull(l.buckets[k], now)}) EXCEPT !.lastSweep = now]

Sweep(l, now, every) == IF now - l.lastSweep < every THEN l ELSE Swept(l, now)

Crowded(l) == Cardinality(DOMAIN l.buckets) >= MaxKeys

Put(l, k, tokens, now) ==
    [l EXCEPT !.buckets =
        [j \in DOMAIN l.buckets \cup {k} |->
            IF j = k THEN [tokens |-> tokens, last |-> now] ELSE l.buckets[j]]]

\* Room for another key: a sweep ahead of its time and, when that does not help, any
\* bucket thrown away.
Room(l, now) ==
    LET swept == IF Crowded(l) THEN Sweep(l, now, CrowdedSweepEvery) ELSE l
    IN  IF Crowded(swept)
        THEN {Keep(swept, DOMAIN swept.buckets \ {k}) : k \in DOMAIN swept.buckets}
        ELSE {swept}

\* touch: what the limiter may be after key k has been looked for, with its bucket
Touched(l, k, now) ==
    LET swept == Sweep(l, now, SweepEvery)
    IN  IF Knows(swept, k)
        THEN {Put(swept, k, Refilled(swept.buckets[k], now), now)}
        ELSE {Put(room, k, Full, now) : room \in Room(swept, now)}

Tokens(l, k) == l.buckets[k].tokens

\* Mutant: a charge may leave less than nothing.
ChargedBelow(l, k, now) == Put(l, k, Tokens(l, k) - Every, now)

Charged(l, k, now) ==
    Put(l, k, IF Tokens(l, k) > Every THEN Tokens(l, k) - Every ELSE 0, now)

\* Allow: refused calls are not counted.
Allows(l, k) == Tokens(l, k) >= Every

\* What Wait would find without changing anything
Level(l, k, now) == IF Knows(l, k) THEN Refilled(l.buckets[k], now) ELSE Full

\* Wait: the time until a call may be made; it makes no bucket.
AfterWait(l, k, now) ==
    LET swept == Sweep(l, now, SweepEvery)
    IN  IF Knows(swept, k)
        THEN Put(swept, k, Refilled(swept.buckets[k], now), now)
        ELSE swept

Waits(l, k, now) == Level(l, k, now) < Every

=============================================================================
