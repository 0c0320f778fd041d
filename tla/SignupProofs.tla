---------------------------- MODULE SignupProofs ----------------------------
(***************************************************************************)
(* Proofs about Signup, for every number of addresses, names and requests  *)
(* at once, and every limit.                                               *)
(***************************************************************************)
EXTENDS Signup, FiniteSetTheorems, TLAPS

-----------------------------------------------------------------------------
(* TokenBucket, for any burst and any time between calls *)

B(burst, every) == INSTANCE TokenBucket WITH Burst <- burst, Every <- every

Bucket(burst, every, i) == [tokens : 0..B(burst, every)!Full, last : 0..i]

\* A limiter at time i
Sound(burst, every, l, i) ==
    /\ l \in Limiter(Bucket(burst, every, i))
    /\ IsFiniteSet(DOMAIN l.buckets)
    /\ Cardinality(DOMAIN l.buckets) <= MaxKeys

Limits(burst, every) ==
    /\ burst \in Nat \ {0} /\ every \in Nat \ {0}
    /\ MaxKeys \in Nat \ {0}

LEMMA FullRange ==
    ASSUME NEW burst, NEW every, Limits(burst, every)
    PROVE  /\ B(burst, every)!Full \in Nat /\ B(burst, every)!Full >= every
           /\ burst \in Nat \ {0} /\ every \in Nat \ {0} /\ MaxKeys \in Nat \ {0}
  <1>1. burst * every \in Nat
    BY DEF Limits
  <1>2. burst * every >= every
    BY DEF Limits
  <1>3. QED
    BY <1>1, <1>2 DEF B!Full, Limits

LEMMA CardinalityIn == ASSUME NEW burst, NEW every, NEW S
                       PROVE  B(burst, every)!Cardinality(S) = Cardinality(S)
  BY DEF B!Cardinality, Cardinality

LEMMA CrowdedIs ==
    ASSUME NEW burst, NEW every, NEW l
    PROVE  B(burst, every)!Crowded(l) <=> Cardinality(DOMAIN l.buckets) >= MaxKeys
  BY CardinalityIn DEF B!Crowded

LEMMA LimiterParts ==
    ASSUME NEW bucket, NEW l
    PROVE  l \in Limiter(bucket) <=>
               /\ l \in [buckets : {l.buckets}, lastSweep : Nat]
               /\ l.buckets \in [DOMAIN l.buckets -> bucket]
               /\ DOMAIN l.buckets \subseteq Addresses
  BY DEF Limiter

LEMMA BucketParts ==
    ASSUME NEW burst, NEW every, NEW i, NEW l, Sound(burst, every, l, i),
           NEW k \in DOMAIN l.buckets
    PROVE  /\ l.buckets[k].tokens \in 0..B(burst, every)!Full
           /\ l.buckets[k].last \in 0..i
  <1>1. l.buckets \in [DOMAIN l.buckets -> Bucket(burst, every, i)]
    BY LimiterParts DEF Sound
  <1>2. l.buckets[k] \in Bucket(burst, every, i)
    BY <1>1
  <1>3. QED
    BY <1>2 DEF Bucket

LEMMA LevelRange ==
    ASSUME NEW burst, NEW every, Limits(burst, every), NEW i \in Nat, NEW l, NEW k,
           Sound(burst, every, l, i)
    PROVE  B(burst, every)!Level(l, k, i) \in 0..B(burst, every)!Full
  <1>1. B(burst, every)!Full \in Nat
    BY FullRange
  <1>2. CASE k \in DOMAIN l.buckets
    <2>1. /\ l.buckets[k].tokens \in 0..B(burst, every)!Full
          /\ l.buckets[k].last \in 0..i
      BY <1>2, BucketParts
    <2>2. QED
      BY <1>1, <1>2, <2>1 DEF B!Level, B!Knows, B!Refilled, B!Least
  <1>3. CASE k \notin DOMAIN l.buckets
    BY <1>1, <1>3 DEF B!Level, B!Knows
  <1>4. QED
    BY <1>2, <1>3

\* Some buckets are thrown away, or none.
LEMMA KeepSound ==
    ASSUME NEW burst, NEW every, Limits(burst, every), NEW i \in Nat, NEW l,
           Sound(burst, every, l, i), NEW keys \in SUBSET DOMAIN l.buckets, NEW sweep \in Nat,
           NEW m, m \in [buckets : {[k \in keys |-> l.buckets[k]]}, lastSweep : {sweep}]
    PROVE  /\ Sound(burst, every, m, i) /\ DOMAIN m.buckets = keys
           /\ \A k \in keys :
                 B(burst, every)!Level(m, k, i) = B(burst, every)!Level(l, k, i)
           /\ \A k : k \notin keys =>
                 B(burst, every)!Level(m, k, i) = B(burst, every)!Full
           /\ Cardinality(keys) <= Cardinality(DOMAIN l.buckets) /\ IsFiniteSet(keys)
  <1>1. m.buckets = [k \in keys |-> l.buckets[k]] /\ m.lastSweep = sweep
    OBVIOUS
  <1>2. /\ l.buckets \in [DOMAIN l.buckets -> Bucket(burst, every, i)]
        /\ DOMAIN l.buckets \subseteq Addresses
    BY LimiterParts DEF Sound
  <1>3. m \in Limiter(Bucket(burst, every, i))
    BY <1>1, <1>2, LimiterParts
  <1>4. IsFiniteSet(keys) /\ Cardinality(keys) <= Cardinality(DOMAIN l.buckets)
    BY FS_Subset DEF Sound
  <1>5. Cardinality(keys) \in Nat /\ Cardinality(DOMAIN l.buckets) \in Nat /\ MaxKeys \in Nat
    BY <1>4, FS_CardinalityType, FullRange DEF Sound
  <1>6. Sound(burst, every, m, i)
    BY <1>1, <1>3, <1>4, <1>5 DEF Sound
  <1>7. QED
    BY <1>1, <1>4, <1>6 DEF B!Level, B!Knows

LEMMA SweepSound ==
    ASSUME NEW burst, NEW every, Limits(burst, every), NEW i \in Nat, NEW l,
           Sound(burst, every, l, i), NEW wait
    PROVE  LET m == B(burst, every)!Sweep(l, i, wait)
           IN  /\ Sound(burst, every, m, i) /\ DOMAIN m.buckets \subseteq DOMAIN l.buckets
               /\ \A k : B(burst, every)!Level(m, k, i) = B(burst, every)!Level(l, k, i)
               /\ Cardinality(DOMAIN m.buckets) <= Cardinality(DOMAIN l.buckets)
  <1> DEFINE m == B(burst, every)!Sweep(l, i, wait)
             keys == {k \in DOMAIN l.buckets : ~B(burst, every)!IsFull(l.buckets[k], i)}
  <1>1. CASE i - l.lastSweep < wait
    <2>1. Cardinality(DOMAIN l.buckets) \in Nat
      BY FS_CardinalityType DEF Sound
    <2>2. QED
      BY <1>1, <2>1 DEF B!Sweep
  <1>2. CASE ~(i - l.lastSweep < wait)
    <2>1. m = B(burst, every)!Swept(l, i)
      BY <1>2 DEF B!Sweep
    <2>2. l \in [buckets : {l.buckets}, lastSweep : Nat]
      BY LimiterParts DEF Sound
    <2>3. B(burst, every)!Keep(l, keys)
          \in [buckets : {[k \in keys |-> l.buckets[k]]}, lastSweep : Nat]
      BY <2>2 DEF B!Keep
    <2>4. m \in [buckets : {[k \in keys |-> l.buckets[k]]}, lastSweep : {i}]
      BY <2>1, <2>3 DEF B!Swept
    <2>5. /\ Sound(burst, every, m, i) /\ DOMAIN m.buckets = keys
          /\ \A k \in keys : B(burst, every)!Level(m, k, i) = B(burst, every)!Level(l, k, i)
          /\ \A k : k \notin keys => B(burst, every)!Level(m, k, i) = B(burst, every)!Full
          /\ Cardinality(keys) <= Cardinality(DOMAIN l.buckets)
      BY <2>4, KeepSound
    <2>6. ASSUME NEW k, k \notin keys
          PROVE  B(burst, every)!Level(l, k, i) = B(burst, every)!Full
      <3>1. CASE k \notin DOMAIN l.buckets
        BY <3>1 DEF B!Level, B!Knows
      <3>2. CASE k \in DOMAIN l.buckets
        <4>1. /\ l.buckets[k].tokens \in 0..B(burst, every)!Full
              /\ l.buckets[k].last \in 0..i
          BY <3>2, BucketParts
        <4>2. B(burst, every)!IsFull(l.buckets[k], i)
          BY <2>6, <3>2
        <4>3. QED
          BY <3>2, <4>1, <4>2, FullRange
          DEF B!Level, B!Knows, B!IsFull, B!Refilled, B!Least
      <3>3. QED
        BY <3>1, <3>2
    <2>7. QED
      BY <2>5, <2>6
  <1>3. QED
    BY <1>1, <1>2

LEMMA RoomSound ==
    ASSUME NEW burst, NEW every, Limits(burst, every), NEW i \in Nat, NEW l,
           Sound(burst, every, l, i), NEW m \in B(burst, every)!Room(l, i)
    PROVE  /\ Sound(burst, every, m, i) /\ DOMAIN m.buckets \subseteq DOMAIN l.buckets
           /\ Cardinality(DOMAIN m.buckets) < MaxKeys
           /\ \/ \A j : B(burst, every)!Level(m, j, i) = B(burst, every)!Level(l, j, i)
              \/ /\ B(burst, every)!Crowded(l)
                 /\ \E f \in DOMAIN l.buckets :
                       /\ f \notin DOMAIN m.buckets
                       /\ B(burst, every)!Level(m, f, i) = B(burst, every)!Full
                       /\ \A j : j # f => B(burst, every)!Level(m, j, i)
                                          = B(burst, every)!Level(l, j, i)
  <1> DEFINE swept == IF B(burst, every)!Crowded(l)
                      THEN B(burst, every)!Sweep(l, i, CrowdedSweepEvery) ELSE l
  <1>1. /\ Sound(burst, every, swept, i) /\ DOMAIN swept.buckets \subseteq DOMAIN l.buckets
        /\ \A k : B(burst, every)!Level(swept, k, i) = B(burst, every)!Level(l, k, i)
        /\ Cardinality(DOMAIN swept.buckets) <= Cardinality(DOMAIN l.buckets)
    <2>1. CASE B(burst, every)!Crowded(l)
      BY <2>1, SweepSound
    <2>2. CASE ~B(burst, every)!Crowded(l)
      BY <2>2, FS_CardinalityType DEF Sound
    <2>3. QED
      BY <2>1, <2>2
  <1>2. m \in IF B(burst, every)!Crowded(swept)
              THEN {B(burst, every)!Keep(swept, DOMAIN swept.buckets \ {k}) :
                        k \in DOMAIN swept.buckets}
              ELSE {swept}
    BY DEF B!Room
  <1> HIDE DEF swept
  <1>3. /\ IsFiniteSet(DOMAIN swept.buckets) /\ Cardinality(DOMAIN swept.buckets) \in Nat
        /\ Cardinality(DOMAIN swept.buckets) <= MaxKeys /\ MaxKeys \in Nat
    BY <1>1, FS_CardinalityType, FullRange DEF Sound
  <1>4. CASE ~B(burst, every)!Crowded(swept)
    <2>1. m = swept
      BY <1>2, <1>4
    <2>2. Cardinality(DOMAIN swept.buckets) < MaxKeys
      BY <1>3, <1>4, CrowdedIs
    <2>3. QED
      BY <1>1, <2>1, <2>2
  <1>5. CASE B(burst, every)!Crowded(swept)
    <2>1. PICK f \in DOMAIN swept.buckets :
              m = B(burst, every)!Keep(swept, DOMAIN swept.buckets \ {f})
      BY <1>2, <1>5
    <2> DEFINE keys == DOMAIN swept.buckets \ {f}
    <2>2. swept \in [buckets : {swept.buckets}, lastSweep : Nat]
      BY <1>1, LimiterParts DEF Sound
    <2>3. PICK sweep \in Nat : sweep = swept.lastSweep
      BY <2>2
    <2>4. m \in [buckets : {[k \in keys |-> swept.buckets[k]]}, lastSweep : {sweep}]
      BY <2>1, <2>2, <2>3 DEF B!Keep
    <2>5. /\ Sound(burst, every, m, i) /\ DOMAIN m.buckets = keys
          /\ \A k \in keys :
                B(burst, every)!Level(m, k, i) = B(burst, every)!Level(swept, k, i)
          /\ \A k : k \notin keys => B(burst, every)!Level(m, k, i) = B(burst, every)!Full
      BY <1>1, <2>4, KeepSound
    <2>6. \A k : k \notin DOMAIN swept.buckets =>
              B(burst, every)!Level(swept, k, i) = B(burst, every)!Full
      BY DEF B!Level, B!Knows
    <2>7. Cardinality(DOMAIN m.buckets) = Cardinality(DOMAIN swept.buckets) - 1
      BY <1>3, <2>5, FS_RemoveElement
    <2>8. Cardinality(DOMAIN l.buckets) \in Nat /\ Cardinality(DOMAIN l.buckets) >= MaxKeys
      BY <1>1, <1>3, <1>5, CrowdedIs, FS_CardinalityType DEF Sound
    <2>9. B(burst, every)!Crowded(l)
      BY <2>8, CrowdedIs
    <2>10. \A j : j # f => B(burst, every)!Level(m, j, i) = B(burst, every)!Level(l, j, i)
      BY <1>1, <2>5, <2>6
    <2>11. /\ f \in DOMAIN l.buckets /\ f \notin DOMAIN m.buckets
           /\ B(burst, every)!Level(m, f, i) = B(burst, every)!Full
      BY <1>1, <2>5
    <2>12. DOMAIN m.buckets \subseteq DOMAIN l.buckets
      BY <1>1, <2>5
    <2>13. Cardinality(DOMAIN m.buckets) < MaxKeys
      BY <1>3, <2>7
    <2>14. QED
      BY <2>5, <2>9, <2>10, <2>11, <2>12, <2>13
  <1>6. QED
    BY <1>4, <1>5

LEMMA PutSound ==
    ASSUME NEW burst, NEW every, Limits(burst, every), NEW i \in Nat, NEW l,
           Sound(burst, every, l, i), NEW k \in Addresses,
           NEW tokens \in 0..B(burst, every)!Full,
           k \in DOMAIN l.buckets \/ Cardinality(DOMAIN l.buckets) < MaxKeys
    PROVE  LET m == B(burst, every)!Put(l, k, tokens, i)
           IN  /\ Sound(burst, every, m, i) /\ DOMAIN m.buckets = DOMAIN l.buckets \cup {k}
               /\ B(burst, every)!Tokens(m, k) = tokens
               /\ B(burst, every)!Level(m, k, i) = tokens
               /\ \A j : j # k => B(burst, every)!Level(m, j, i)
                                  = B(burst, every)!Level(l, j, i)
  <1> DEFINE m     == B(burst, every)!Put(l, k, tokens, i)
             known == DOMAIN l.buckets \cup {k}
             new   == [tokens |-> tokens, last |-> i]
             all   == [j \in known |-> IF j = k THEN new ELSE l.buckets[j]]
  <1>1. /\ l \in [buckets : {l.buckets}, lastSweep : Nat]
        /\ l.buckets \in [DOMAIN l.buckets -> Bucket(burst, every, i)]
        /\ DOMAIN l.buckets \subseteq Addresses
    BY LimiterParts DEF Sound
  <1>2. m \in [buckets : {all}, lastSweep : Nat]
    BY <1>1 DEF B!Put
  <1>3. m.buckets = all /\ DOMAIN all = known
    BY <1>2
  <1>4. new \in Bucket(burst, every, i)
    BY DEF Bucket
  <1>5. all \in [known -> Bucket(burst, every, i)]
    BY <1>1, <1>4
  <1>6. m \in Limiter(Bucket(burst, every, i))
    BY <1>1, <1>2, <1>3, <1>5, LimiterParts
  <1>7. IsFiniteSet(known) /\ Cardinality(known) <= MaxKeys
    <2>1. IsFiniteSet(DOMAIN l.buckets) /\ Cardinality(DOMAIN l.buckets) \in Nat
          /\ Cardinality(DOMAIN l.buckets) <= MaxKeys /\ MaxKeys \in Nat
      BY FS_CardinalityType, FullRange DEF Sound
    <2>2. CASE k \in DOMAIN l.buckets
      <3>1. known = DOMAIN l.buckets
        BY <2>2
      <3>2. QED
        BY <2>1, <3>1
    <2>3. CASE k \notin DOMAIN l.buckets
      <3>1. IsFiniteSet(known) /\ Cardinality(known) = Cardinality(DOMAIN l.buckets) + 1
        BY <2>1, <2>3, FS_AddElement
      <3>2. QED
        BY <2>1, <2>3, <3>1
    <2>4. QED
      BY <2>2, <2>3
  <1>8. Sound(burst, every, m, i)
    BY <1>3, <1>6, <1>7 DEF Sound
  <1>9. m.buckets[k].tokens = tokens /\ m.buckets[k].last = i /\ k \in DOMAIN m.buckets
    BY <1>3
  <1>10. B(burst, every)!Tokens(m, k) = tokens
    BY <1>9 DEF B!Tokens
  <1>11. B(burst, every)!Level(m, k, i) = tokens
    BY <1>9, FullRange DEF B!Level, B!Knows, B!Refilled, B!Least
  <1>12. ASSUME NEW j, j # k
         PROVE  B(burst, every)!Level(m, j, i) = B(burst, every)!Level(l, j, i)
    <2>1. (j \in DOMAIN m.buckets <=> j \in DOMAIN l.buckets)
          /\ (j \in DOMAIN l.buckets => m.buckets[j] = l.buckets[j])
      BY <1>3, <1>12
    <2>2. QED
      BY <2>1 DEF B!Level, B!Knows
  <1>13. QED
    BY <1>3, <1>8, <1>10, <1>11, <1>12

\* A key is looked for: what its bucket holds is what was left, and another key is
\* forgotten only when the table is full and the key that is looked for is new.
LEMMA TouchSound ==
    ASSUME NEW burst, NEW every, Limits(burst, every), NEW i \in Nat, NEW l,
           Sound(burst, every, l, i), NEW k \in Addresses,
           NEW m \in B(burst, every)!Touched(l, k, i)
    PROVE  /\ Sound(burst, every, m, i) /\ k \in DOMAIN m.buckets
           /\ B(burst, every)!Tokens(m, k) = B(burst, every)!Level(l, k, i)
           /\ B(burst, every)!Level(m, k, i) = B(burst, every)!Level(l, k, i)
           /\ \/ \A j : B(burst, every)!Level(m, j, i) = B(burst, every)!Level(l, j, i)
              \/ /\ B(burst, every)!Crowded(l)
                 /\ B(burst, every)!Level(l, k, i) = B(burst, every)!Full
                 /\ \E f \in Addresses \ {k} :
                       /\ B(burst, every)!Level(m, f, i) = B(burst, every)!Full
                       /\ \A j : j # f => B(burst, every)!Level(m, j, i)
                                          = B(burst, every)!Level(l, j, i)
  <1> DEFINE swept == B(burst, every)!Sweep(l, i, SweepEvery)
             Full  == B(burst, every)!Full
  <1>1. /\ Sound(burst, every, swept, i) /\ DOMAIN swept.buckets \subseteq DOMAIN l.buckets
        /\ \A j : B(burst, every)!Level(swept, j, i) = B(burst, every)!Level(l, j, i)
        /\ Cardinality(DOMAIN swept.buckets) <= Cardinality(DOMAIN l.buckets)
    BY SweepSound
  <1>2. m \in IF k \in DOMAIN swept.buckets
              THEN {B(burst, every)!Put(swept, k,
                        B(burst, every)!Refilled(swept.buckets[k], i), i)}
              ELSE {B(burst, every)!Put(room, k, Full, i) :
                        room \in B(burst, every)!Room(swept, i)}
    BY DEF B!Touched, B!Knows
  <1> HIDE DEF swept
  <1>3. Full \in 0..Full
    BY FullRange
  <1>4. CASE k \in DOMAIN swept.buckets
    <2> DEFINE tokens == B(burst, every)!Refilled(swept.buckets[k], i)
    <2>1. tokens = B(burst, every)!Level(swept, k, i)
      BY <1>4 DEF B!Level, B!Knows
    <2>2. tokens \in 0..Full
      BY <1>1, <2>1, LevelRange
    <2>3. m = B(burst, every)!Put(swept, k, tokens, i)
      BY <1>2, <1>4
    <2> HIDE DEF tokens, Full
    <2>4. /\ Sound(burst, every, m, i) /\ DOMAIN m.buckets = DOMAIN swept.buckets \cup {k}
          /\ B(burst, every)!Tokens(m, k) = tokens
          /\ B(burst, every)!Level(m, k, i) = tokens
          /\ \A j : j # k => B(burst, every)!Level(m, j, i)
                             = B(burst, every)!Level(swept, j, i)
      BY <1>1, <1>4, <2>2, <2>3, PutSound DEF Full
    <2>5. QED
      BY <1>1, <2>1, <2>4
  <1>5. CASE k \notin DOMAIN swept.buckets
    <2>1. PICK room \in B(burst, every)!Room(swept, i) :
              m = B(burst, every)!Put(room, k, Full, i)
      BY <1>2, <1>5
    <2>2. /\ Sound(burst, every, room, i)
          /\ DOMAIN room.buckets \subseteq DOMAIN swept.buckets
          /\ Cardinality(DOMAIN room.buckets) < MaxKeys
          /\ \/ \A j : B(burst, every)!Level(room, j, i) = B(burst, every)!Level(swept, j, i)
             \/ /\ B(burst, every)!Crowded(swept)
                /\ \E f \in DOMAIN swept.buckets :
                      /\ f \notin DOMAIN room.buckets
                      /\ B(burst, every)!Level(room, f, i) = Full
                      /\ \A j : j # f => B(burst, every)!Level(room, j, i)
                                         = B(burst, every)!Level(swept, j, i)
      BY <1>1, RoomSound
    <2>3. /\ Sound(burst, every, m, i) /\ DOMAIN m.buckets = DOMAIN room.buckets \cup {k}
          /\ B(burst, every)!Tokens(m, k) = Full /\ B(burst, every)!Level(m, k, i) = Full
          /\ \A j : j # k => B(burst, every)!Level(m, j, i) = B(burst, every)!Level(room, j, i)
      BY <1>3, <2>1, <2>2, PutSound
    <2>4. B(burst, every)!Level(swept, k, i) = Full
      BY <1>5 DEF B!Level, B!Knows
    <2>5. B(burst, every)!Level(l, k, i) = Full
      BY <1>1, <2>4
    <2>6. CASE \A j : B(burst, every)!Level(room, j, i) = B(burst, every)!Level(swept, j, i)
      <3>1. \A j : B(burst, every)!Level(m, j, i) = B(burst, every)!Level(l, j, i)
        BY <1>1, <2>3, <2>5, <2>6
      <3>2. QED
        BY <2>3, <2>5, <3>1
    <2>7. ASSUME B(burst, every)!Crowded(swept),
                 NEW f \in DOMAIN swept.buckets, f \notin DOMAIN room.buckets,
                 B(burst, every)!Level(room, f, i) = Full,
                 \A j : j # f => B(burst, every)!Level(room, j, i)
                                 = B(burst, every)!Level(swept, j, i)
          PROVE  /\ B(burst, every)!Crowded(l)
                 /\ \E g \in Addresses \ {k} :
                       /\ B(burst, every)!Level(m, g, i) = Full
                       /\ \A j : j # g => B(burst, every)!Level(m, j, i)
                                          = B(burst, every)!Level(l, j, i)
      <3>1. f \in Addresses \ {k}
        BY <1>1, <1>5, <2>7, LimiterParts DEF Sound
      <3>2. Cardinality(DOMAIN l.buckets) \in Nat /\ Cardinality(DOMAIN swept.buckets) \in Nat
        BY <1>1, FS_CardinalityType DEF Sound
      <3>3. B(burst, every)!Crowded(l)
        BY <1>1, <2>7, <3>2, CrowdedIs, FullRange
      <3>4. B(burst, every)!Level(m, f, i) = Full
        BY <2>3, <2>7, <3>1
      <3>5. \A j : j # f => B(burst, every)!Level(m, j, i) = B(burst, every)!Level(l, j, i)
        BY <1>1, <2>3, <2>5, <2>7
      <3>6. QED
        BY <3>1, <3>3, <3>4, <3>5
    <2>8. QED
      BY <2>2, <2>3, <2>5, <2>6, <2>7
  <1>6. QED
    BY <1>4, <1>5

\* A call is charged to a key that has been looked for.
LEMMA ChargeSound ==
    ASSUME NEW burst, NEW every, Limits(burst, every), NEW i \in Nat, NEW l,
           Sound(burst, every, l, i), NEW k \in Addresses, k \in DOMAIN l.buckets,
           NEW left, left = B(burst, every)!Tokens(l, k)
    PROVE  LET m == B(burst, every)!Charged(l, k, i)
           IN  /\ Sound(burst, every, m, i)
               /\ B(burst, every)!Level(m, k, i) = IF left > every THEN left - every ELSE 0
               /\ \A j : j # k => B(burst, every)!Level(m, j, i)
                                  = B(burst, every)!Level(l, j, i)
  <1> DEFINE tokens == IF left > every THEN left - every ELSE 0
  <1>1. left \in 0..B(burst, every)!Full
    BY BucketParts DEF B!Tokens
  <1>2. tokens \in 0..B(burst, every)!Full
    BY <1>1, FullRange
  <1>3. B(burst, every)!Charged(l, k, i) = B(burst, every)!Put(l, k, tokens, i)
    BY DEF B!Charged
  <1> HIDE DEF tokens
  <1>4. QED
    BY <1>2, <1>3, PutSound DEF tokens

LEMMA WaitSound ==
    ASSUME NEW burst, NEW every, Limits(burst, every), NEW i \in Nat, NEW l,
           Sound(burst, every, l, i), NEW k \in Addresses
    PROVE  LET m == B(burst, every)!AfterWait(l, k, i)
           IN  /\ Sound(burst, every, m, i)
               /\ \A j : B(burst, every)!Level(m, j, i) = B(burst, every)!Level(l, j, i)
  <1> DEFINE swept  == B(burst, every)!Sweep(l, i, SweepEvery)
             tokens == B(burst, every)!Refilled(swept.buckets[k], i)
             m      == B(burst, every)!AfterWait(l, k, i)
  <1>1. /\ Sound(burst, every, swept, i)
        /\ \A j : B(burst, every)!Level(swept, j, i) = B(burst, every)!Level(l, j, i)
    BY SweepSound
  <1>2. m = IF k \in DOMAIN swept.buckets THEN B(burst, every)!Put(swept, k, tokens, i)
            ELSE swept
    BY DEF B!AfterWait, B!Knows
  <1>3. k \in DOMAIN swept.buckets => tokens = B(burst, every)!Level(swept, k, i)
    BY DEF B!Level, B!Knows
  <1> HIDE DEF swept, tokens, m
  <1>4. CASE k \in DOMAIN swept.buckets
    <2>1. tokens \in 0..B(burst, every)!Full
      BY <1>1, <1>3, <1>4, LevelRange
    <2>2. /\ Sound(burst, every, m, i) /\ B(burst, every)!Level(m, k, i) = tokens
          /\ \A j : j # k => B(burst, every)!Level(m, j, i)
                             = B(burst, every)!Level(swept, j, i)
      BY <1>1, <1>2, <1>4, <2>1, PutSound
    <2>3. QED
      BY <1>1, <1>3, <1>4, <2>2 DEF m
  <1>5. CASE k \notin DOMAIN swept.buckets
    BY <1>1, <1>2, <1>5 DEF m
  <1>6. QED
    BY <1>4, <1>5

\* Time passes.
LEMMA LaterSound ==
    ASSUME NEW burst, NEW every, Limits(burst, every), NEW i \in Nat, NEW l,
           Sound(burst, every, l, i)
    PROVE  /\ Sound(burst, every, l, i + 1)
           /\ \A j : B(burst, every)!Level(l, j, i + 1)
                     = IF B(burst, every)!Level(l, j, i) < B(burst, every)!Full
                       THEN B(burst, every)!Level(l, j, i) + 1 ELSE B(burst, every)!Full
  <1>1. /\ l \in [buckets : {l.buckets}, lastSweep : Nat]
        /\ l.buckets \in [DOMAIN l.buckets -> Bucket(burst, every, i)]
        /\ DOMAIN l.buckets \subseteq Addresses
    BY LimiterParts DEF Sound
  <1>2. Bucket(burst, every, i) \subseteq Bucket(burst, every, i + 1)
    BY DEF Bucket
  <1>3. l.buckets \in [DOMAIN l.buckets -> Bucket(burst, every, i + 1)]
    BY <1>1, <1>2
  <1>4. l \in Limiter(Bucket(burst, every, i + 1))
    BY <1>1, <1>3, LimiterParts
  <1>5. Sound(burst, every, l, i + 1)
    BY <1>4 DEF Sound
  <1>6. ASSUME NEW j
        PROVE  B(burst, every)!Level(l, j, i + 1)
               = IF B(burst, every)!Level(l, j, i) < B(burst, every)!Full
                 THEN B(burst, every)!Level(l, j, i) + 1 ELSE B(burst, every)!Full
    <2>1. CASE j \in DOMAIN l.buckets
      <3>1. /\ l.buckets[j].tokens \in 0..B(burst, every)!Full
            /\ l.buckets[j].last \in 0..i
        BY <2>1, BucketParts
      <3>2. QED
        BY <2>1, <3>1, FullRange DEF B!Level, B!Knows, B!Refilled, B!Least
    <2>2. CASE j \notin DOMAIN l.buckets
      BY <2>2, FullRange DEF B!Level, B!Knows
    <2>3. QED
      BY <2>1, <2>2
  <1>7. QED
    BY <1>5, <1>6

\* A call is charged to key k, after it has been looked for.
Charges(burst, every, l, k, i, m) ==
    \A j \in Addresses : B(burst, every)!Level(m, j, i) =
        IF j # k THEN B(burst, every)!Level(l, j, i)
        ELSE IF B(burst, every)!Level(l, k, i) > every
             THEN B(burst, every)!Level(l, k, i) - every ELSE 0

\* For a new key another one is forgotten, and the call is charged.
Forgets(burst, every, l, k, i, m) ==
    /\ B(burst, every)!Crowded(l)
    /\ B(burst, every)!Level(l, k, i) = B(burst, every)!Full
    /\ \E f \in Addresses \ {k} :
        \A j \in Addresses : B(burst, every)!Level(m, j, i) =
            IF j = k THEN B(burst, every)!Full - every
            ELSE IF j = f THEN B(burst, every)!Full ELSE B(burst, every)!Level(l, j, i)

LEMMA TakeSound ==
    ASSUME NEW burst, NEW every, Limits(burst, every), NEW i \in Nat, NEW l,
           Sound(burst, every, l, i), NEW k \in Addresses,
           NEW t \in B(burst, every)!Touched(l, k, i),
           NEW m, m = B(burst, every)!Charged(t, k, i)
    PROVE  /\ Sound(burst, every, m, i)
           /\ Charges(burst, every, l, k, i, m) \/ Forgets(burst, every, l, k, i, m)
  <1> DEFINE Full  == B(burst, every)!Full
             level == B(burst, every)!Level(l, k, i)
  <1>1. /\ Sound(burst, every, t, i) /\ k \in DOMAIN t.buckets
        /\ B(burst, every)!Tokens(t, k) = level
        /\ \/ \A j : B(burst, every)!Level(t, j, i) = B(burst, every)!Level(l, j, i)
           \/ /\ B(burst, every)!Crowded(l)
              /\ level = Full
              /\ \E f \in Addresses \ {k} :
                    /\ B(burst, every)!Level(t, f, i) = Full
                    /\ \A j : j # f => B(burst, every)!Level(t, j, i)
                                       = B(burst, every)!Level(l, j, i)
    BY TouchSound
  <1>2. /\ Sound(burst, every, m, i)
        /\ B(burst, every)!Level(m, k, i) = IF level > every THEN level - every ELSE 0
        /\ \A j : j # k => B(burst, every)!Level(m, j, i) = B(burst, every)!Level(t, j, i)
    BY <1>1, ChargeSound
  <1>3. CASE \A j : B(burst, every)!Level(t, j, i) = B(burst, every)!Level(l, j, i)
    BY <1>2, <1>3 DEF Charges
  <1>4. CASE /\ B(burst, every)!Crowded(l)
             /\ level = Full
             /\ \E f \in Addresses \ {k} :
                   /\ B(burst, every)!Level(t, f, i) = Full
                   /\ \A j : j # f => B(burst, every)!Level(t, j, i)
                                      = B(burst, every)!Level(l, j, i)
    <2>1. PICK f \in Addresses \ {k} :
              /\ B(burst, every)!Level(t, f, i) = Full
              /\ \A j : j # f => B(burst, every)!Level(t, j, i)
                                 = B(burst, every)!Level(l, j, i)
      BY <1>4
    <2>2. B(burst, every)!Level(m, k, i) = Full - every
      BY <1>2, <1>4, FullRange
    <2>3. \A j \in Addresses : B(burst, every)!Level(m, j, i) =
              IF j = k THEN Full - every
              ELSE IF j = f THEN Full ELSE B(burst, every)!Level(l, j, i)
      BY <1>2, <2>1, <2>2
    <2>4. QED
      BY <1>2, <1>4, <2>1, <2>3 DEF Forgets
  <1>5. QED
    BY <1>1, <1>2, <1>3, <1>4

LEMMA EmptySound ==
    ASSUME NEW burst, NEW every, Limits(burst, every), NEW i \in Nat
    PROVE  /\ Sound(burst, every, B(burst, every)!Empty, i)
           /\ \A j : B(burst, every)!Level(B(burst, every)!Empty, j, i)
                     = B(burst, every)!Full
           /\ ~B(burst, every)!Crowded(B(burst, every)!Empty)
  <1> DEFINE l == B(burst, every)!Empty
  <1>1. DOMAIN l.buckets = {} /\ l \in [buckets : {l.buckets}, lastSweep : Nat]
    BY DEF B!Empty
  <1>2. l.buckets \in [DOMAIN l.buckets -> Bucket(burst, every, i)]
    BY DEF B!Empty
  <1>3. IsFiniteSet(DOMAIN l.buckets) /\ Cardinality(DOMAIN l.buckets) = 0
    BY <1>1, FS_EmptySet
  <1>4. Sound(burst, every, l, i)
    BY <1>1, <1>2, <1>3, LimiterParts, FullRange DEF Sound
  <1>5. ~B(burst, every)!Crowded(l)
    BY <1>3, CrowdedIs, FullRange
  <1>6. \A j : B(burst, every)!Level(l, j, i) = B(burst, every)!Full
    BY <1>1 DEF B!Level, B!Knows
  <1>7. QED
    BY <1>4, <1>5, <1>6

-----------------------------------------------------------------------------
(* The limiters of signups *)

LEMMA FailIs ==
    ASSUME NEW l, NEW k, NEW i, NEW wait, NEW tokens
    PROVE  /\ Fail!Full = B(FailBurst, FailEvery)!Full
           /\ Fail!Empty = B(FailBurst, FailEvery)!Empty
           /\ Fail!Crowded(l) <=> B(FailBurst, FailEvery)!Crowded(l)
           /\ Fail!Level(l, k, i) = B(FailBurst, FailEvery)!Level(l, k, i)
           /\ Fail!Sweep(l, i, wait) = B(FailBurst, FailEvery)!Sweep(l, i, wait)
           /\ Fail!Put(l, k, tokens, i) = B(FailBurst, FailEvery)!Put(l, k, tokens, i)
           /\ Fail!Charged(l, k, i) = B(FailBurst, FailEvery)!Charged(l, k, i)
  BY DEF Fail!Cardinality, B!Cardinality, Fail!Crowded, B!Crowded, Fail!Sweep, B!Sweep,
         Fail!Swept, B!Swept, Fail!Keep, B!Keep, Fail!IsFull, B!IsFull, Fail!Full, B!Full,
         Fail!Level, B!Level, Fail!Knows, B!Knows, Fail!Refilled, B!Refilled, Fail!Least,
         B!Least, Fail!Put, B!Put, Fail!Charged, B!Charged, Fail!Tokens, B!Tokens,
         Fail!Empty, B!Empty

LEMMA FailRoomIs ==
    ASSUME NEW l, NEW i
    PROVE  Fail!Room(l, i) = B(FailBurst, FailEvery)!Room(l, i)
  <1> DEFINE swept == IF Fail!Crowded(l) THEN Fail!Sweep(l, i, CrowdedSweepEvery) ELSE l
             room  == IF Fail!Crowded(swept)
                      THEN {Fail!Keep(swept, DOMAIN swept.buckets \ {k}) :
                                k \in DOMAIN swept.buckets}
                      ELSE {swept}
  <1>1. swept = IF B(FailBurst, FailEvery)!Crowded(l)
                THEN B(FailBurst, FailEvery)!Sweep(l, i, CrowdedSweepEvery) ELSE l
    BY FailIs
  <1>2. Fail!Room(l, i) = room
    BY DEF Fail!Room
  <1>3. CASE Fail!Crowded(swept)
    <2>1. B(FailBurst, FailEvery)!Room(l, i)
          = {B(FailBurst, FailEvery)!Keep(swept, DOMAIN swept.buckets \ {k}) :
                k \in DOMAIN swept.buckets}
      BY <1>1, <1>3, FailIs DEF B!Room
    <2>2. QED
      BY <1>2, <1>3, <2>1 DEF Fail!Keep, B!Keep
  <1>4. CASE ~Fail!Crowded(swept)
    <2>1. B(FailBurst, FailEvery)!Room(l, i) = {swept}
      BY <1>1, <1>4, FailIs DEF B!Room
    <2>2. QED
      BY <1>2, <1>4, <2>1
  <1>5. QED
    BY <1>3, <1>4

LEMMA FailTouchIs ==
    ASSUME NEW l, NEW k, NEW i
    PROVE  /\ Fail!Touched(l, k, i) = B(FailBurst, FailEvery)!Touched(l, k, i)
           /\ Fail!AfterWait(l, k, i) = B(FailBurst, FailEvery)!AfterWait(l, k, i)
  <1> DEFINE swept == Fail!Sweep(l, i, SweepEvery)
  <1>1. swept = B(FailBurst, FailEvery)!Sweep(l, i, SweepEvery)
    BY FailIs
  <1>2. Fail!Full = B(FailBurst, FailEvery)!Full
    BY FailIs
  <1>3. Fail!Refilled(swept.buckets[k], i)
        = B(FailBurst, FailEvery)!Refilled(swept.buckets[k], i)
    BY <1>2 DEF Fail!Refilled, B!Refilled, Fail!Least, B!Least
  <1>4. \A m, tokens :
            Fail!Put(m, k, tokens, i) = B(FailBurst, FailEvery)!Put(m, k, tokens, i)
    BY FailIs
  <1>5. Fail!Room(swept, i) = B(FailBurst, FailEvery)!Room(swept, i)
    BY FailRoomIs
  <1> HIDE DEF swept
  <1>6. Fail!Touched(l, k, i) = B(FailBurst, FailEvery)!Touched(l, k, i)
    BY <1>1, <1>2, <1>3, <1>4, <1>5 DEF Fail!Touched, B!Touched, Fail!Knows, B!Knows, swept
  <1>7. Fail!AfterWait(l, k, i) = B(FailBurst, FailEvery)!AfterWait(l, k, i)
    BY <1>1, <1>3, <1>4 DEF Fail!AfterWait, B!AfterWait, Fail!Knows, B!Knows, swept
  <1>8. QED
    BY <1>6, <1>7

LEMMA IPIs ==
    ASSUME NEW l, NEW k, NEW i, NEW wait, NEW tokens
    PROVE  /\ IP!Full = B(IPBurst, IPEvery)!Full
           /\ IP!Empty = B(IPBurst, IPEvery)!Empty
           /\ IP!Crowded(l) <=> B(IPBurst, IPEvery)!Crowded(l)
           /\ IP!Level(l, k, i) = B(IPBurst, IPEvery)!Level(l, k, i)
           /\ IP!Sweep(l, i, wait) = B(IPBurst, IPEvery)!Sweep(l, i, wait)
           /\ IP!Put(l, k, tokens, i) = B(IPBurst, IPEvery)!Put(l, k, tokens, i)
           /\ IP!Charged(l, k, i) = B(IPBurst, IPEvery)!Charged(l, k, i)
  BY DEF IP!Cardinality, B!Cardinality, IP!Crowded, B!Crowded, IP!Sweep, B!Sweep,
         IP!Swept, B!Swept, IP!Keep, B!Keep, IP!IsFull, B!IsFull, IP!Full, B!Full,
         IP!Level, B!Level, IP!Knows, B!Knows, IP!Refilled, B!Refilled, IP!Least,
         B!Least, IP!Put, B!Put, IP!Charged, B!Charged, IP!Tokens, B!Tokens,
         IP!Empty, B!Empty

LEMMA IPRoomIs ==
    ASSUME NEW l, NEW i
    PROVE  IP!Room(l, i) = B(IPBurst, IPEvery)!Room(l, i)
  <1> DEFINE swept == IF IP!Crowded(l) THEN IP!Sweep(l, i, CrowdedSweepEvery) ELSE l
             room  == IF IP!Crowded(swept)
                      THEN {IP!Keep(swept, DOMAIN swept.buckets \ {k}) :
                                k \in DOMAIN swept.buckets}
                      ELSE {swept}
  <1>1. swept = IF B(IPBurst, IPEvery)!Crowded(l)
                THEN B(IPBurst, IPEvery)!Sweep(l, i, CrowdedSweepEvery) ELSE l
    BY IPIs
  <1>2. IP!Room(l, i) = room
    BY DEF IP!Room
  <1>3. CASE IP!Crowded(swept)
    <2>1. B(IPBurst, IPEvery)!Room(l, i)
          = {B(IPBurst, IPEvery)!Keep(swept, DOMAIN swept.buckets \ {k}) :
                k \in DOMAIN swept.buckets}
      BY <1>1, <1>3, IPIs DEF B!Room
    <2>2. QED
      BY <1>2, <1>3, <2>1 DEF IP!Keep, B!Keep
  <1>4. CASE ~IP!Crowded(swept)
    <2>1. B(IPBurst, IPEvery)!Room(l, i) = {swept}
      BY <1>1, <1>4, IPIs DEF B!Room
    <2>2. QED
      BY <1>2, <1>4, <2>1
  <1>5. QED
    BY <1>3, <1>4

LEMMA IPTouchIs ==
    ASSUME NEW l, NEW k, NEW i
    PROVE  /\ IP!Touched(l, k, i) = B(IPBurst, IPEvery)!Touched(l, k, i)
           /\ IP!AfterWait(l, k, i) = B(IPBurst, IPEvery)!AfterWait(l, k, i)
  <1> DEFINE swept == IP!Sweep(l, i, SweepEvery)
  <1>1. swept = B(IPBurst, IPEvery)!Sweep(l, i, SweepEvery)
    BY IPIs
  <1>2. IP!Full = B(IPBurst, IPEvery)!Full
    BY IPIs
  <1>3. IP!Refilled(swept.buckets[k], i)
        = B(IPBurst, IPEvery)!Refilled(swept.buckets[k], i)
    BY <1>2 DEF IP!Refilled, B!Refilled, IP!Least, B!Least
  <1>4. \A m, tokens :
            IP!Put(m, k, tokens, i) = B(IPBurst, IPEvery)!Put(m, k, tokens, i)
    BY IPIs
  <1>5. IP!Room(swept, i) = B(IPBurst, IPEvery)!Room(swept, i)
    BY IPRoomIs
  <1> HIDE DEF swept
  <1>6. IP!Touched(l, k, i) = B(IPBurst, IPEvery)!Touched(l, k, i)
    BY <1>1, <1>2, <1>3, <1>4, <1>5 DEF IP!Touched, B!Touched, IP!Knows, B!Knows, swept
  <1>7. IP!AfterWait(l, k, i) = B(IPBurst, IPEvery)!AfterWait(l, k, i)
    BY <1>1, <1>3, <1>4 DEF IP!AfterWait, B!AfterWait, IP!Knows, B!Knows, swept
  <1>8. QED
    BY <1>6, <1>7

-----------------------------------------------------------------------------
(* Types *)

Steps == {"idle", "wait", "allow", "tags", "user", "commit", "take"}

\* What request q is known to be when it is at step
Fits(q, step) ==
    /\ step # "idle" => q.address \in Addresses /\ q.name \in Names
    /\ step \in {"wait", "allow"} => q.tags \in TagSets \cup {Invalid}
    /\ step = "tags" => q.tags \in TagSets
    /\ step \in {"user", "commit"} => q.tags \in (SUBSET KnownTags) \ {{}}

RequestsWhole ==
    /\ pc \in [Requests -> Steps]
    /\ request \in [Requests -> RequestType]
    /\ users \in SUBSET Users
    /\ \A r \in Requests : Fits(request[r], pc[r])

LimitersSound ==
    /\ now \in Nat /\ now <= MaxTime
    /\ Sound(FailBurst, FailEvery, fail, now)
    /\ Sound(IPBurst, IPEvery, attempt, now)

Typing == RequestsWhole /\ LimitersSound

LEMMA LimitsHold == Limits(FailBurst, FailEvery) /\ Limits(IPBurst, IPEvery)
  BY SignupAssumption
  DEF Limits, Fail!BucketAssumption, IP!BucketAssumption

LEMMA TypingTypeOK == Typing => TypeOK
  <1> SUFFICES ASSUME Typing
               PROVE  TypeOK
    OBVIOUS
  <1>1. ASSUME NEW burst, NEW every, NEW l, Sound(burst, every, l, now)
        PROVE  l \in Limiter([tokens : 0..B(burst, every)!Full, last : 0..MaxTime])
    <2>1. /\ l \in [buckets : {l.buckets}, lastSweep : Nat]
          /\ l.buckets \in [DOMAIN l.buckets -> Bucket(burst, every, now)]
          /\ DOMAIN l.buckets \subseteq Addresses
      BY <1>1, LimiterParts DEF Sound
    <2>2. Bucket(burst, every, now) \subseteq
              [tokens : 0..B(burst, every)!Full, last : 0..MaxTime]
      BY SignupAssumption DEF Bucket, Typing, LimitersSound
    <2>3. l.buckets \in [DOMAIN l.buckets ->
                            [tokens : 0..B(burst, every)!Full, last : 0..MaxTime]]
      BY <2>1, <2>2
    <2>4. QED
      BY <2>1, <2>3, LimiterParts
  <1>2. fail \in Limiter([tokens : 0..Fail!Full, last : 0..MaxTime])
    BY <1>1, FailIs DEF Typing, LimitersSound
  <1>3. attempt \in Limiter([tokens : 0..IP!Full, last : 0..MaxTime])
    BY <1>1, IPIs DEF Typing, LimitersSound
  <1>4. /\ Cardinality(DOMAIN fail.buckets) <= MaxKeys
        /\ Cardinality(DOMAIN attempt.buckets) <= MaxKeys
    BY DEF Typing, LimitersSound, Sound
  <1>5. QED
    BY <1>2, <1>3, <1>4 DEF Typing, RequestsWhole, LimitersSound, TypeOK, Steps

LEMMA InitTyping == Init => Typing
  <1> SUFFICES ASSUME Init
               PROVE  Typing
    OBVIOUS
  <1>1. now \in Nat /\ now <= MaxTime
    BY SignupAssumption DEF Init
  <1>2. Sound(FailBurst, FailEvery, fail, now)
    BY <1>1, LimitsHold, EmptySound, FailIs DEF Init
  <1>3. Sound(IPBurst, IPEvery, attempt, now)
    BY <1>1, LimitsHold, EmptySound, IPIs DEF Init
  <1>4. RequestsWhole
    BY DEF Init, RequestsWhole, RequestType, NoRequest, Fits, Steps
  <1>5. QED
    BY <1>1, <1>2, <1>3, <1>4 DEF Typing, LimitersSound

LEMMA EndWhole ==
    ASSUME RequestsWhole, NEW r \in Requests, End(r), users' \in SUBSET Users
    PROVE  RequestsWhole'
  BY DEF RequestsWhole, End, Go, RequestType, NoRequest, Fits, Steps

LEMMA GoWhole ==
    ASSUME RequestsWhole, NEW r \in Requests, NEW to \in Steps, Go(r, to),
           UNCHANGED <<request, users>>, Fits(request[r], to)
    PROVE  RequestsWhole'
  BY DEF RequestsWhole, Go

LEMMA NextWhole == Typing /\ [Next]_vars => RequestsWhole'
  <1> SUFFICES ASSUME RequestsWhole, [Next]_vars
               PROVE  RequestsWhole'
    BY DEF Typing
  <1>1. users \in SUBSET Users
    BY DEF RequestsWhole
  <1>2. ASSUME NEW r \in Requests
        PROVE  Fits(request[r], pc[r]) /\ request[r] \in RequestType
    BY DEF RequestsWhole
  <1>3. ASSUME NEW r \in Requests, Ask(r)
        PROVE  RequestsWhole'
    <2>1. PICK a \in Addresses, n \in Names, tags \in TagSets \cup {Invalid} :
              Arrive(r, a, n, tags)
      BY <1>3 DEF Ask
    <2> DEFINE q == [address |-> a, name |-> n, tags |-> tags]
    <2>2. q \in RequestType /\ Fits(q, "wait")
      BY DEF RequestType, Fits
    <2>3. pc' = [pc EXCEPT ![r] = "wait"] /\ request' = [request EXCEPT ![r] = q]
          /\ users' = users
      BY <2>1 DEF Arrive, Go
    <2> HIDE DEF q
    <2>4. QED
      BY <2>2, <2>3 DEF RequestsWhole, Steps
  <1>4. ASSUME NEW r \in Requests, WaitFailures(r)
        PROVE  RequestsWhole'
    <2>1. CASE End(r)
      BY <1>1, <1>4, <2>1, EndWhole DEF WaitFailures
    <2>2. CASE ~End(r)
      <3>1. pc[r] = "wait" /\ Go(r, "allow") /\ UNCHANGED <<request, users>>
        BY <1>4, <2>2 DEF WaitFailures
      <3>2. Fits(request[r], "allow")
        BY <1>2, <3>1 DEF Fits
      <3>3. QED
        BY <3>1, <3>2, GoWhole DEF Steps
    <2>3. QED
      BY <2>1, <2>2
  <1>5. ASSUME NEW r \in Requests, AllowAttempt(r)
        PROVE  RequestsWhole'
    <2>1. CASE End(r)
      BY <1>1, <1>5, <2>1, EndWhole DEF AllowAttempt
    <2>2. CASE ~End(r)
      <3>1. PICK to \in {"take", "tags"} :
                /\ Go(r, to)
                /\ to = "tags" => request[r].tags # Invalid
                /\ pc[r] = "allow" /\ UNCHANGED <<request, users>>
        BY <1>5, <2>2 DEF AllowAttempt
      <3>2. Fits(request[r], to)
        BY <1>2, <3>1 DEF Fits
      <3>3. QED
        BY <3>1, <3>2, GoWhole DEF Steps
    <2>3. QED
      BY <2>1, <2>2
  <1>6. ASSUME NEW r \in Requests, FindTags(r)
        PROVE  RequestsWhole'
    <2>1. PICK to \in {"user", "take"} :
              /\ Go(r, to)
              /\ to = "user" => request[r].tags \subseteq KnownTags
              /\ pc[r] = "tags" /\ UNCHANGED <<request, users>>
      BY <1>6 DEF FindTags
    <2>2. Fits(request[r], to)
      BY <1>2, <2>1, SignupAssumption DEF Fits
    <2>3. QED
      BY <2>1, <2>2, GoWhole DEF Steps
  <1>7. ASSUME NEW r \in Requests, CreateUser(r)
        PROVE  RequestsWhole'
    <2>1. PICK to \in {"take", "commit"} : Go(r, to)
      BY <1>7 DEF CreateUser
    <2>2. pc[r] = "user" /\ UNCHANGED <<request, users>>
      BY <1>7 DEF CreateUser
    <2>3. Fits(request[r], to)
      BY <1>2, <2>2 DEF Fits
    <2>4. QED
      BY <2>1, <2>2, <2>3, GoWhole DEF Steps
  <1>8. ASSUME NEW r \in Requests, Commit(r)
        PROVE  RequestsWhole'
    <2>1. users' \in SUBSET Users
      BY <1>1, <1>2, <1>8 DEF Commit, Fits, Users
    <2>2. QED
      BY <1>8, <2>1, EndWhole DEF Commit
  <1>9. ASSUME NEW r \in Requests, TakeFailure(r) \/ Break(r)
        PROVE  RequestsWhole'
    BY <1>1, <1>9, EndWhole DEF TakeFailure, Break
  <1>10. CASE Tick \/ UNCHANGED vars
    BY <1>10 DEF Tick, vars, RequestsWhole
  <1>11. QED
    BY <1>3, <1>4, <1>5, <1>6, <1>7, <1>8, <1>9, <1>10 DEF Next, Serve

\* What is left to an address
Left(a)   == Fail!Level(fail, a, now)
LeftIP(a) == IP!Level(attempt, a, now)

LEMMA LeftRange ==
    ASSUME Typing, NEW a
    PROVE  /\ Left(a) \in 0..Fail!Full /\ LeftIP(a) \in 0..IP!Full
           /\ Fail!Full \in Nat /\ Fail!Full >= FailEvery /\ FailEvery \in Nat \ {0}
           /\ IP!Full \in Nat /\ IP!Full >= IPEvery /\ IPEvery \in Nat \ {0}
  <1>1. now \in Nat
    BY DEF Typing, LimitersSound
  <1>2. Left(a) \in 0..Fail!Full
    BY <1>1, LimitsHold, LevelRange, FailIs DEF Typing, LimitersSound, Left
  <1>3. LeftIP(a) \in 0..IP!Full
    BY <1>1, LimitsHold, LevelRange, IPIs DEF Typing, LimitersSound, LeftIP
  <1>4. Fail!Full \in Nat /\ Fail!Full >= FailEvery /\ FailEvery \in Nat \ {0}
    BY LimitsHold, FullRange, FailIs
  <1>5. IP!Full \in Nat /\ IP!Full >= IPEvery /\ IPEvery \in Nat \ {0}
    BY LimitsHold, FullRange, IPIs
  <1>6. QED
    BY <1>2, <1>3, <1>4, <1>5

\* What a step does to the failures that are left: nothing,
FailSame == \A a \in Addresses : Left(a)' = Left(a)

\* a charge,
FailCharged(k) ==
    \A a \in Addresses : Left(a)' =
        IF a # k THEN Left(a) ELSE IF Left(k) > FailEvery THEN Left(k) - FailEvery ELSE 0

\* a charge to a new address in place of another one,
FailForgot(k) ==
    /\ Fail!Crowded(fail) /\ Left(k) = Fail!Full
    /\ \E f \in Addresses \ {k} : \A a \in Addresses : Left(a)' =
           IF a = k THEN Fail!Full - FailEvery ELSE IF a = f THEN Fail!Full ELSE Left(a)

\* or a unit of time.
FailRefilled ==
    /\ fail' = fail
    /\ \A a \in Addresses :
           Left(a)' = IF Left(a) < Fail!Full THEN Left(a) + 1 ELSE Fail!Full

FailSteps ==
    \/ FailSame
    \/ FailRefilled
    \/ \E r \in Requests : /\ TakeFailure(r)
                           /\ FailCharged(request[r].address) \/ FailForgot(request[r].address)

LEMMA NextFail ==
    Typing /\ [Next]_vars => FailSteps /\ Sound(FailBurst, FailEvery, fail', now')
  <1> SUFFICES ASSUME Typing, [Next]_vars
               PROVE  FailSteps /\ Sound(FailBurst, FailEvery, fail', now')
    OBVIOUS
  <1>1. now \in Nat /\ Limits(FailBurst, FailEvery) /\ Sound(FailBurst, FailEvery, fail, now)
    BY LimitsHold DEF Typing, LimitersSound
  <1>2. ASSUME NEW r \in Requests, pc[r] # "idle"
        PROVE  request[r].address \in Addresses
    BY <1>2 DEF Typing, RequestsWhole, Fits
  <1>3. ASSUME fail' = fail, now' = now
        PROVE  FailSame /\ Sound(FailBurst, FailEvery, fail', now')
    BY <1>1, <1>3 DEF FailSame, Left
  <1>4. ASSUME NEW r \in Requests, WaitFailures(r)
        PROVE  FailSame /\ Sound(FailBurst, FailEvery, fail', now')
    <2>1. PICK a \in Addresses : a = request[r].address
      BY <1>2, <1>4 DEF WaitFailures
    <2>2. fail' = B(FailBurst, FailEvery)!AfterWait(fail, a, now) /\ now' = now
      BY <1>4, <2>1, FailTouchIs DEF WaitFailures
    <2>3. /\ Sound(FailBurst, FailEvery, fail', now)
          /\ \A j : B(FailBurst, FailEvery)!Level(fail', j, now)
                    = B(FailBurst, FailEvery)!Level(fail, j, now)
      BY <1>1, <2>2, WaitSound
    <2>4. QED
      BY <2>2, <2>3, FailIs DEF FailSame, Left
  <1>5. ASSUME NEW r \in Requests, TakeFailure(r)
        PROVE  /\ FailCharged(request[r].address) \/ FailForgot(request[r].address)
               /\ Sound(FailBurst, FailEvery, fail', now')
    <2>1. PICK a \in Addresses : a = request[r].address
      BY <1>2, <1>5 DEF TakeFailure
    <2>2. PICK l \in B(FailBurst, FailEvery)!Touched(fail, a, now) :
              fail' = B(FailBurst, FailEvery)!Charged(l, a, now)
      BY <1>5, <2>1, FailIs, FailTouchIs DEF TakeFailure
    <2>3. now' = now
      BY <1>5 DEF TakeFailure
    <2>4. /\ Sound(FailBurst, FailEvery, fail', now)
          /\ \/ Charges(FailBurst, FailEvery, fail, a, now, fail')
             \/ Forgets(FailBurst, FailEvery, fail, a, now, fail')
      BY <1>1, <2>2, TakeSound
    <2>5. CASE Charges(FailBurst, FailEvery, fail, a, now, fail')
      BY <2>1, <2>3, <2>4, <2>5, FailIs DEF Charges, FailCharged, Left
    <2>6. CASE Forgets(FailBurst, FailEvery, fail, a, now, fail')
      <3>1. Sound(FailBurst, FailEvery, fail', now')
        BY <2>3, <2>4
      <3>2. FailForgot(a)
        BY <2>3, <2>6, FailIs DEF Forgets, FailForgot, Left
      <3>3. QED
        BY <2>1, <3>1, <3>2
    <2>7. QED
      BY <2>3, <2>4, <2>5, <2>6
  <1>6. CASE Tick
    <2>1. fail' = fail /\ now' = now + 1
      BY <1>6 DEF Tick
    <2>2. QED
      BY <1>1, <2>1, LaterSound, FailIs DEF FailSteps, FailRefilled, Left
  <1>7. ASSUME NEW r \in Requests, Ask(r) \/ AllowAttempt(r) \/ FindTags(r) \/ CreateUser(r)
                                   \/ Commit(r) \/ Break(r)
        PROVE  fail' = fail /\ now' = now
    BY <1>7 DEF Ask, Arrive, AllowAttempt, FindTags, CreateUser, Commit, Break
  <1>8. UNCHANGED vars => fail' = fail /\ now' = now
    BY DEF vars
  <1>9. QED
    BY <1>3, <1>4, <1>5, <1>6, <1>7, <1>8 DEF Next, Serve, FailSteps

\* What a step does to the attempts that are left
IPSame == \A a \in Addresses : LeftIP(a)' = LeftIP(a)

IPUsed(k) ==
    /\ LeftIP(k) >= IPEvery
    /\ \A a \in Addresses : LeftIP(a)' = IF a # k THEN LeftIP(a) ELSE LeftIP(k) - IPEvery

IPForgot(k) ==
    /\ IP!Crowded(attempt) /\ LeftIP(k) = IP!Full
    /\ \E f \in Addresses \ {k} : \A a \in Addresses : LeftIP(a)' =
           IF a = k THEN IP!Full - IPEvery ELSE IF a = f THEN IP!Full ELSE LeftIP(a)

IPRefilled ==
    /\ attempt' = attempt
    /\ \A a \in Addresses :
           LeftIP(a)' = IF LeftIP(a) < IP!Full THEN LeftIP(a) + 1 ELSE IP!Full

\* An attempt of address a is let in.
LetsIn(a) ==
    \E r \in Requests : pc[r] = "allow" /\ request[r].address = a /\ pc'[r] \in {"tags", "take"}

IPSteps ==
    \/ IPSame /\ now' = now /\ ~\E a \in Addresses : LetsIn(a)
    \/ IPRefilled /\ now' = now + 1 /\ ~\E a \in Addresses : LetsIn(a)
    \/ \E k \in Addresses :
           (IPUsed(k) \/ IPForgot(k)) /\ now' = now /\ \A a \in Addresses : LetsIn(a) => a = k

\* Only AllowAttempt lets a request in, and only its own.
LEMMA AllowLetsIn ==
    ASSUME Typing, NEW r \in Requests, AllowAttempt(r), NEW a \in Addresses, LetsIn(a)
    PROVE  ~End(r) /\ request[r].address = a
  <1>1. PICK s \in Requests :
            pc[s] = "allow" /\ request[s].address = a /\ pc'[s] \in {"tags", "take"}
    BY DEF LetsIn
  <1>2. pc \in [Requests -> Steps]
    BY DEF Typing, RequestsWhole
  <1>3. \E to \in Steps : pc' = [pc EXCEPT ![r] = to]
    BY DEF AllowAttempt, End, Go, Steps
  <1>4. s = r
    BY <1>1, <1>2, <1>3
  <1>5. ~End(r)
    BY <1>1, <1>2, <1>4 DEF End, Go
  <1>6. QED
    BY <1>1, <1>4, <1>5

LEMMA OnlyAllowLetsIn ==
    ASSUME Typing, [Next]_vars, ~\E r \in Requests : AllowAttempt(r)
    PROVE  ~\E a \in Addresses : LetsIn(a)
  <1> SUFFICES ASSUME NEW r \in Requests, pc[r] = "allow"
               PROVE  pc'[r] \notin {"tags", "take"}
    BY DEF LetsIn
  <1>1. pc \in [Requests -> Steps]
    BY DEF Typing, RequestsWhole
  <1>2. ASSUME NEW s \in Requests, Ask(s) \/ Serve(s) \/ Break(s)
        PROVE  pc'[r] = "allow"
    <2>1. pc[s] # "allow" /\ \E to \in Steps : pc' = [pc EXCEPT ![s] = to]
      BY <1>2 DEF Ask, Arrive, Serve, WaitFailures, FindTags, CreateUser, Commit, TakeFailure,
                  Break, End, Go, Steps
    <2>2. QED
      BY <1>1, <2>1
  <1>3. CASE Tick \/ UNCHANGED vars
    BY <1>3 DEF Tick, vars
  <1>4. QED
    BY <1>2, <1>3 DEF Next

LEMMA NextIP ==
    Typing /\ [Next]_vars => IPSteps /\ Sound(IPBurst, IPEvery, attempt', now')
  <1> SUFFICES ASSUME Typing, [Next]_vars
               PROVE  IPSteps /\ Sound(IPBurst, IPEvery, attempt', now')
    OBVIOUS
  <1>1. now \in Nat /\ Limits(IPBurst, IPEvery) /\ Sound(IPBurst, IPEvery, attempt, now)
    BY LimitsHold DEF Typing, LimitersSound
  <1>2. ASSUME attempt' = attempt, now' = now
        PROVE  IPSame /\ Sound(IPBurst, IPEvery, attempt', now')
    BY <1>1, <1>2 DEF IPSame, LeftIP
  <1>3. ASSUME NEW r \in Requests, AllowAttempt(r)
        PROVE  IPSteps /\ Sound(IPBurst, IPEvery, attempt', now')
    <2>1. PICK a \in Addresses : a = request[r].address
      BY <1>3 DEF AllowAttempt, Typing, RequestsWhole, Fits
    <2>2. PICK l \in B(IPBurst, IPEvery)!Touched(attempt, a, now) :
              IF IP!Allows(l, a) THEN attempt' = B(IPBurst, IPEvery)!Charged(l, a, now)
              ELSE attempt' = l /\ End(r)
      BY <1>3, <2>1, IPIs, IPTouchIs DEF AllowAttempt
    <2>3. now' = now
      BY <1>3 DEF AllowAttempt
    <2>4. /\ Sound(IPBurst, IPEvery, l, now)
          /\ B(IPBurst, IPEvery)!Tokens(l, a) = B(IPBurst, IPEvery)!Level(attempt, a, now)
          /\ \/ \A j : B(IPBurst, IPEvery)!Level(l, j, now)
                       = B(IPBurst, IPEvery)!Level(attempt, j, now)
             \/ B(IPBurst, IPEvery)!Level(attempt, a, now) = B(IPBurst, IPEvery)!Full
      BY <1>1, TouchSound
    <2>5. IP!Allows(l, a) <=> LeftIP(a) >= IPEvery
      BY <2>4, IPIs DEF IP!Allows, IP!Tokens, B!Tokens, LeftIP
    <2>6. /\ LeftIP(a) \in 0..IP!Full /\ IP!Full \in Nat /\ IP!Full >= IPEvery
          /\ IPEvery \in Nat \ {0}
      BY LeftRange
    <2>7. \A j \in Addresses : LetsIn(j) => j = a /\ ~End(r)
      BY <1>3, <2>1, AllowLetsIn
    <2>8. CASE ~IP!Allows(l, a)
      <3>1. \A j : B(IPBurst, IPEvery)!Level(l, j, now)
                   = B(IPBurst, IPEvery)!Level(attempt, j, now)
        BY <2>4, <2>5, <2>6, <2>8, IPIs DEF LeftIP
      <3>2. attempt' = l /\ ~\E j \in Addresses : LetsIn(j)
        BY <2>2, <2>7, <2>8
      <3>3. IPSame
        BY <2>3, <3>1, <3>2, IPIs DEF IPSame, LeftIP
      <3>4. QED
        BY <2>3, <2>4, <3>2, <3>3 DEF IPSteps
    <2>9. CASE IP!Allows(l, a)
      <3>1. attempt' = B(IPBurst, IPEvery)!Charged(l, a, now)
        BY <2>2, <2>9
      <3>2. /\ Sound(IPBurst, IPEvery, attempt', now)
            /\ \/ Charges(IPBurst, IPEvery, attempt, a, now, attempt')
               \/ Forgets(IPBurst, IPEvery, attempt, a, now, attempt')
        BY <1>1, <2>2, <3>1, TakeSound
      <3>3. CASE Charges(IPBurst, IPEvery, attempt, a, now, attempt')
        <4>1. \A j \in Addresses : LeftIP(j)' =
                  IF j # a THEN LeftIP(j)
                  ELSE IF LeftIP(a) > IPEvery THEN LeftIP(a) - IPEvery ELSE 0
          BY <2>3, <3>3, IPIs DEF Charges, LeftIP
        <4>2. IPUsed(a)
          BY <2>5, <2>6, <2>9, <4>1 DEF IPUsed
        <4>3. QED
          BY <2>1, <2>3, <2>7, <3>2, <4>2 DEF IPSteps
      <3>4. CASE Forgets(IPBurst, IPEvery, attempt, a, now, attempt')
        <4>1. IP!Crowded(attempt) /\ LeftIP(a) = IP!Full
          BY <3>4, IPIs DEF Forgets, LeftIP
        <4>2. \E f \in Addresses \ {a} : \A j \in Addresses : LeftIP(j)' =
                  IF j = a THEN IP!Full - IPEvery
                  ELSE IF j = f THEN IP!Full ELSE LeftIP(j)
          <5>1. PICK f \in Addresses \ {a} : \A j \in Addresses :
                    B(IPBurst, IPEvery)!Level(attempt', j, now) =
                        IF j = a THEN B(IPBurst, IPEvery)!Full - IPEvery
                        ELSE IF j = f THEN B(IPBurst, IPEvery)!Full
                        ELSE B(IPBurst, IPEvery)!Level(attempt, j, now)
            BY <3>4 DEF Forgets
          <5>2. /\ IP!Full = B(IPBurst, IPEvery)!Full
                /\ \A j : /\ LeftIP(j)' = B(IPBurst, IPEvery)!Level(attempt', j, now)
                         /\ LeftIP(j) = B(IPBurst, IPEvery)!Level(attempt, j, now)
            BY <2>3, IPIs DEF LeftIP
          <5>3. QED
            BY <5>1, <5>2
        <4>3. IPForgot(a)
          BY <4>1, <4>2 DEF IPForgot
        <4>4. QED
          BY <2>1, <2>3, <2>7, <3>2, <4>3 DEF IPSteps
      <3>5. QED
        BY <3>2, <3>3, <3>4
    <2>10. QED
      BY <2>8, <2>9
  <1>4. CASE Tick
    <2>1. attempt' = attempt /\ now' = now + 1
      BY <1>4 DEF Tick
    <2>2. IPRefilled /\ Sound(IPBurst, IPEvery, attempt', now')
      BY <1>1, <2>1, LaterSound, IPIs DEF IPRefilled, LeftIP
    <2>3. ~\E a \in Addresses : LetsIn(a)
      BY <1>4 DEF Tick, LetsIn
    <2>4. QED
      BY <2>1, <2>2, <2>3 DEF IPSteps
  <1>5. ASSUME NEW r \in Requests, Ask(r) \/ WaitFailures(r) \/ FindTags(r) \/ CreateUser(r)
                                   \/ Commit(r) \/ TakeFailure(r) \/ Break(r)
        PROVE  attempt' = attempt /\ now' = now
    BY <1>5 DEF Ask, Arrive, WaitFailures, FindTags, CreateUser, Commit, TakeFailure, Break
  <1>6. UNCHANGED vars => attempt' = attempt /\ now' = now
    BY DEF vars
  <1>7. CASE \E r \in Requests : AllowAttempt(r)
    BY <1>3, <1>7
  <1>8. CASE ~(\E r \in Requests : AllowAttempt(r)) /\ ~Tick
    <2>1. attempt' = attempt /\ now' = now
      BY <1>5, <1>6, <1>8 DEF Next, Serve
    <2>2. ~\E a \in Addresses : LetsIn(a)
      BY <1>8, OnlyAllowLetsIn
    <2>3. QED
      BY <1>2, <2>1, <2>2 DEF IPSteps
  <1>9. QED
    BY <1>4, <1>7, <1>8

LEMMA NextClock == Typing /\ [Next]_vars => now' \in Nat /\ now' <= MaxTime
  <1> SUFFICES ASSUME Typing, [Next]_vars
               PROVE  now' \in Nat /\ now' <= MaxTime
    OBVIOUS
  <1>1. now \in Nat /\ now <= MaxTime /\ MaxTime \in Nat
    BY SignupAssumption DEF Typing, LimitersSound
  <1>2. ASSUME NEW r \in Requests, Ask(r) \/ Serve(r) \/ Break(r)
        PROVE  now' = now
    BY <1>2 DEF Ask, Arrive, Serve, WaitFailures, AllowAttempt, FindTags, CreateUser, Commit,
                TakeFailure, Break
  <1>3. QED
    BY <1>1, <1>2 DEF Next, Tick, vars

LEMMA NextTyping == Typing /\ [Next]_vars => Typing'
  BY NextWhole, NextFail, NextIP, NextClock DEF Typing, LimitersSound

LEMMA Typed == Spec => []Typing
  <1>1. QED
    BY InitTyping, NextTyping, PTL DEF Spec

\* No bucket ever holds less than nothing or more than the limit, or comes from the
\* future, no table of buckets outgrows its bound, and an account has a tag that is
\* known (platform/ratelimit, store/auth.go).
THEOREM TypesHold == Spec => []TypeOK
  <1>1. QED
    BY Typed, TypingTypeOK, PTL

-----------------------------------------------------------------------------
(* Failures that are under way *)

\* When nothing is left to an address, one request at least is not under way.
Slack == \A a \in Addresses : Left(a) < FailEvery => UnderWay(a) # Requests

LEMMA SlackBounds == Slack => OvershootBounded
  <1> SUFFICES ASSUME Slack, NEW a \in Addresses, Fail!Waits(fail, a, now)
               PROVE  Cardinality(UnderWay(a)) < Cardinality(Requests)
    BY DEF OvershootBounded
  <1>1. UnderWay(a) # Requests
    BY DEF Slack, Fail!Waits, Left
  <1>2. UnderWay(a) \subseteq Requests /\ IsFiniteSet(Requests)
    BY SignupAssumption DEF UnderWay
  <1>3. PICK r \in Requests : r \notin UnderWay(a)
    BY <1>1, <1>2
  <1>4. /\ IsFiniteSet(Requests \ {r}) /\ Cardinality(Requests) \in Nat
        /\ Cardinality(Requests \ {r}) = Cardinality(Requests) - 1
    BY <1>2, FS_RemoveElement, FS_CardinalityType
  <1>5. UnderWay(a) \subseteq Requests \ {r}
    BY <1>2, <1>3
  <1>6. IsFiniteSet(UnderWay(a)) /\ Cardinality(UnderWay(a)) <= Cardinality(Requests \ {r})
    BY <1>4, <1>5, FS_Subset
  <1>7. Cardinality(UnderWay(a)) \in Nat
    BY <1>6, FS_CardinalityType
  <1>8. QED
    BY <1>4, <1>6, <1>7

LEMMA InitSlack == Init => Slack
  <1> SUFFICES ASSUME Init, NEW a \in Addresses
               PROVE  ~(Left(a) < FailEvery)
    BY DEF Slack
  <1>1. now \in Nat /\ fail = B(FailBurst, FailEvery)!Empty
    BY SignupAssumption, FailIs DEF Init
  <1>2. Left(a) = B(FailBurst, FailEvery)!Full
    BY <1>1, LimitsHold, EmptySound, FailIs DEF Left
  <1>3. QED
    BY <1>2, LimitsHold, FullRange

LEMMA NextSlack == Typing /\ Slack /\ [Next]_vars => Slack'
  <1> SUFFICES ASSUME Typing, Slack, [Next]_vars, NEW a \in Addresses, Left(a)' < FailEvery
               PROVE  UnderWay(a)' # Requests
    BY DEF Slack
  <1>1. /\ Left(a) \in 0..Fail!Full /\ Fail!Full \in Nat
        /\ Fail!Full >= FailEvery /\ FailEvery \in Nat \ {0}
    BY LeftRange
  <1>2. CASE \E r \in Requests : TakeFailure(r) /\ request[r].address = a
    <2>1. PICK r \in Requests : TakeFailure(r)
      BY <1>2
    <2>2. pc'[r] = "idle"
      BY <2>1 DEF TakeFailure, End, Go, Typing, RequestsWhole
    <2>3. QED
      BY <2>1, <2>2 DEF UnderWay
  <1>3. CASE ~\E r \in Requests : TakeFailure(r) /\ request[r].address = a
    <2>1. Left(a) < FailEvery
      BY <1>1, <1>3, NextFail DEF FailSteps, FailSame, FailRefilled, FailCharged, FailForgot
    <2>2. PICK r \in Requests : r \notin UnderWay(a)
      BY <2>1 DEF Slack, UnderWay
    <2>3. r \notin UnderWay(a)'
      <3>1. pc[r] \in {"idle", "wait"} \/ request[r].address # a
        BY <2>2 DEF UnderWay
      <3>2. pc \in [Requests -> Steps] /\ request \in [Requests -> RequestType]
        BY DEF Typing, RequestsWhole
      <3>3. ASSUME NEW s \in Requests, Ask(s)
            PROVE  pc'[r] \in {"idle", "wait"} \/ request'[r].address # a
        BY <3>1, <3>2, <3>3 DEF Ask, Arrive, Go
      <3>4. ASSUME NEW s \in Requests, End(s)
            PROVE  pc'[r] \in {"idle", "wait"} \/ request'[r].address # a
        BY <3>1, <3>2, <3>4 DEF End, Go
      <3>5. ASSUME NEW s \in Requests, WaitFailures(s)
            PROVE  pc'[r] \in {"idle", "wait"} \/ request'[r].address # a
        <4>1. CASE End(s)
          BY <3>4, <4>1
        <4>2. CASE ~End(s)
          <5>1. Go(s, "allow") /\ UNCHANGED request /\ request[s].address # a
            BY <2>1, <3>5, <4>2 DEF WaitFailures, MustWait, Fail!Waits, Left
          <5>2. QED
            BY <3>1, <3>2, <5>1 DEF Go
        <4>3. QED
          BY <4>1, <4>2
      <3>6. ASSUME NEW s \in Requests, NEW to \in Steps, pc[s] \notin {"idle", "wait"},
                   Go(s, to), UNCHANGED request
            PROVE  pc'[r] \in {"idle", "wait"} \/ request'[r].address # a
        BY <3>1, <3>2, <3>6 DEF Go
      <3>7. ASSUME NEW s \in Requests, AllowAttempt(s) \/ FindTags(s) \/ CreateUser(s), ~End(s)
            PROVE  /\ pc[s] \notin {"idle", "wait"} /\ UNCHANGED request
                   /\ \E to \in Steps : Go(s, to)
        BY <3>7 DEF AllowAttempt, FindTags, CreateUser, Steps
      <3>8. ASSUME NEW s \in Requests, Commit(s) \/ TakeFailure(s) \/ Break(s)
            PROVE  End(s)
        BY <3>8 DEF Commit, TakeFailure, Break
      <3>9. Tick \/ UNCHANGED vars => UNCHANGED <<pc, request>>
        BY DEF Tick, vars
      <3>10. pc'[r] \in {"idle", "wait"} \/ request'[r].address # a
        BY <3>1, <3>3, <3>4, <3>5, <3>6, <3>7, <3>8, <3>9 DEF Next, Serve
      <3>11. QED
        BY <3>10 DEF UnderWay
    <2>4. QED
      BY <2>2, <2>3
  <1>4. QED
    BY <1>2, <1>3

\* Signups ask for failures before their work and are charged after it, so that more of
\* them can fail than the limit allows.  Yet when nothing is left, the ones to come are
\* fewer than what the server serves at once (app/limits.go, requestLimits).
THEOREM OvershootHolds == Spec => []OvershootBounded
  <1>1. QED
    BY Typed, InitSlack, NextSlack, SlackBounds, PTL DEF Spec

-----------------------------------------------------------------------------
(* Names *)

\* Whoever is about to commit has the name to itself.
NamesFree ==
    /\ \A r \in Requests : pc[r] = "commit" => ~Taken(request[r].name)
    /\ \A r, s \in Requests :
           pc[r] = "commit" /\ pc[s] = "commit" /\ request[r].name = request[s].name => r = s
    /\ OneAccountPerName

LEMMA InitNames == Init => NamesFree
  BY DEF Init, NamesFree, OneAccountPerName

LEMMA NextNames == Typing /\ NamesFree /\ [Next]_vars => NamesFree'
  <1> SUFFICES ASSUME Typing, NamesFree, [Next]_vars
               PROVE  NamesFree'
    OBVIOUS
  <1>1. pc \in [Requests -> Steps] /\ request \in [Requests -> RequestType]
    BY DEF Typing, RequestsWhole
  <1>2. ASSUME users' = users,
               \A r \in Requests : pc'[r] = "commit" =>
                   pc[r] = "commit" /\ request'[r] = request[r]
        PROVE  NamesFree'
    BY <1>2 DEF NamesFree, OneAccountPerName, Taken
  <1>3. ASSUME NEW r \in Requests, Ask(r)
        PROVE  NamesFree'
    BY <1>1, <1>2, <1>3 DEF Ask, Arrive, Go
  <1>4. ASSUME NEW r \in Requests, End(r), users' = users
        PROVE  NamesFree'
    BY <1>1, <1>2, <1>4 DEF End, Go
  <1>5. ASSUME NEW r \in Requests, NEW to \in Steps \ {"commit"}, Go(r, to),
               UNCHANGED <<users, request>>
        PROVE  NamesFree'
    BY <1>1, <1>2, <1>5 DEF Go
  <1>6. ASSUME NEW r \in Requests, WaitFailures(r) \/ AllowAttempt(r) \/ FindTags(r)
        PROVE  NamesFree'
    <2>1. /\ users' = users
          /\ \/ End(r)
             \/ UNCHANGED request /\ \E to \in Steps \ {"commit"} : Go(r, to)
      BY <1>6 DEF WaitFailures, AllowAttempt, FindTags, Steps
    <2>2. QED
      BY <1>4, <1>5, <2>1
  <1>7. ASSUME NEW r \in Requests, CreateUser(r)
        PROVE  NamesFree'
    <2>1. UNCHANGED <<users, request>> /\ NobodyElseInserts(r)
      BY <1>7 DEF CreateUser
    <2>2. CASE Taken(request[r].name)
      BY <1>5, <1>7, <2>1, <2>2 DEF CreateUser, Steps
    <2>3. CASE ~Taken(request[r].name)
      <3>1. pc' = [pc EXCEPT ![r] = "commit"]
        BY <1>7, <2>3 DEF CreateUser, Go
      <3>2. QED
        BY <1>1, <2>1, <2>3, <3>1
        DEF NamesFree, OneAccountPerName, Taken, NobodyElseInserts
    <2>4. QED
      BY <2>2, <2>3
  <1>8. ASSUME NEW r \in Requests, Commit(r)
        PROVE  NamesFree'
    <2>1. pc[r] = "commit" /\ ~Taken(request[r].name)
      BY <1>8 DEF Commit, NamesFree
    <2> DEFINE u == [name |-> request[r].name, tags |-> request[r].tags, session |-> r]
    <2>2. users' = users \cup {u} /\ u.name = request[r].name
      BY <1>8 DEF Commit
    <2> HIDE DEF u
    <2>3. \A s \in Requests : pc'[s] = "commit" =>
              /\ s # r /\ pc[s] = "commit" /\ request'[s] = request[s]
              /\ request[s].name # request[r].name
      BY <1>1, <1>8, <2>1 DEF Commit, End, Go, NamesFree
    <2>4. OneAccountPerName'
      BY <2>1, <2>2 DEF NamesFree, OneAccountPerName, Taken
    <2>5. \A s \in Requests : pc'[s] = "commit" =>
              \A v \in users' : v.name # request'[s].name
      BY <2>2, <2>3 DEF NamesFree, Taken
    <2>6. QED
      BY <2>3, <2>4, <2>5 DEF NamesFree, Taken
  <1>9. ASSUME NEW r \in Requests, TakeFailure(r) \/ Break(r)
        PROVE  NamesFree'
    BY <1>4, <1>9 DEF TakeFailure, Break
  <1>10. CASE Tick \/ UNCHANGED vars
    BY <1>2, <1>10 DEF Tick, vars
  <1>11. QED
    BY <1>3, <1>6, <1>7, <1>8, <1>9, <1>10 DEF Next, Serve

\* Of several signups for one name that are served at once, one succeeds at most
\* (store/auth.go, CreateWithInterestsAndSession).
THEOREM OneAccountHolds == Spec => []OneAccountPerName
  <1>1. NamesFree => OneAccountPerName
    BY DEF NamesFree
  <1>2. QED
    BY <1>1, Typed, InitNames, NextNames, PTL DEF Spec

-----------------------------------------------------------------------------
(* QuotaLedger *)

FailLevels == [a \in Addresses |-> Fail!Level(fail, a, now)]
IPLevels   == [a \in Addresses |-> IP!Level(attempt, a, now)]

LEMMA InitQuota == Init => FailLedger!Init /\ IPLedger!Init
  <1> SUFFICES ASSUME Init
               PROVE  FailLedger!Init /\ IPLedger!Init
    OBVIOUS
  <1>1. /\ now \in Nat /\ fail = B(FailBurst, FailEvery)!Empty
        /\ attempt = B(IPBurst, IPEvery)!Empty
    BY SignupAssumption, FailIs, IPIs DEF Init
  <1>2. \A a : Fail!Level(fail, a, now) = Fail!Full
    BY <1>1, LimitsHold, EmptySound, FailIs
  <1>3. \A a : IP!Level(attempt, a, now) = IP!Full
    BY <1>1, LimitsHold, EmptySound, IPIs
  <1>4. ~Fail!Crowded(fail) /\ ~IP!Crowded(attempt)
    BY <1>1, LimitsHold, EmptySound, FailIs, IPIs
  <1>5. Fail!Full = FailLedger!Full /\ IP!Full = IPLedger!Full
    BY DEF Fail!Full, IP!Full, FailLedger!Full, IPLedger!Full
  <1>6. Fail!Crowded(fail) = FALSE /\ IP!Crowded(attempt) = FALSE
    BY <1>4 DEF Fail!Crowded, IP!Crowded
  <1>7. QED
    BY <1>2, <1>3, <1>5, <1>6 DEF FailLedger!Init, IPLedger!Init

LEMMA NextFailLedger == Typing /\ [Next]_vars => [FailLedger!Next]_FailLevels
  <1> SUFFICES ASSUME Typing, [Next]_vars
               PROVE  [FailLedger!Next]_FailLevels
    OBVIOUS
  <1>1. \A a \in Addresses : FailLevels[a] = Left(a) /\ FailLevels'[a] = Left(a)'
    BY DEF FailLevels, Left
  <1>2. Fail!Crowded(fail)' \in BOOLEAN
    BY DEF Fail!Crowded
  <1>3. Fail!Full = FailLedger!Full
    BY DEF Fail!Full, FailLedger!Full
  <1>4. CASE FailSame
    BY <1>1, <1>4 DEF FailSame, FailLevels, Left
  <1>5. CASE FailRefilled
    <2>1. FailLevels' = [a \in Addresses |-> IF FailLevels[a] < FailLedger!Full
                                             THEN FailLevels[a] + 1 ELSE FailLedger!Full]
      BY <1>1, <1>3, <1>5 DEF FailRefilled, FailLevels
    <2>2. Fail!Crowded(fail)' = Fail!Crowded(fail)
      BY <1>5 DEF FailRefilled
    <2>3. FailLedger!Refill
      BY <2>1, <2>2 DEF FailLedger!Refill, FailLevels
    <2>4. QED
      BY <2>3 DEF FailLedger!Next
  <1>6. ASSUME NEW k \in Addresses, FailCharged(k)
        PROVE  FailLedger!Next
    <2>1. FailLevels' = [FailLevels EXCEPT ![k] =
                            IF @ > FailEvery THEN @ - FailEvery ELSE 0]
      BY <1>1, <1>6 DEF FailCharged, FailLevels
    <2>2. FailLedger!Charge(k)
      BY <1>2, <2>1 DEF FailLedger!Charge, FailLedger!Crowding, FailLevels
    <2>3. QED
      BY <2>2 DEF FailLedger!Next
  <1>7. ASSUME NEW k \in Addresses, FailForgot(k)
        PROVE  FailLedger!Next
    <2>1. PICK f \in Addresses \ {k} : \A a \in Addresses : Left(a)' =
              IF a = k THEN Fail!Full - FailEvery ELSE IF a = f THEN Fail!Full ELSE Left(a)
      BY <1>7 DEF FailForgot
    <2>2. FailLevels' = [FailLevels EXCEPT ![f] = FailLedger!Full,
                                           ![k] = FailLedger!Full - FailEvery]
      BY <1>1, <1>3, <2>1 DEF FailLevels
    <2>3. Fail!Crowded(fail) /\ FailLevels[k] = FailLedger!Full
      BY <1>1, <1>3, <1>7 DEF FailForgot
    <2>4. FailLedger!Forget(f, k)
      BY <1>2, <2>1, <2>2, <2>3 DEF FailLedger!Forget, FailLedger!Crowding, FailLevels
    <2>5. QED
      BY <2>4 DEF FailLedger!Next
  <1>8. ASSUME NEW r \in Requests, TakeFailure(r)
        PROVE  request[r].address \in Addresses
    BY <1>8 DEF TakeFailure, Typing, RequestsWhole, Fits
  <1>9. QED
    BY <1>4, <1>5, <1>6, <1>7, <1>8, NextFail DEF FailSteps

LEMMA NextIPLedger == Typing /\ [Next]_vars => [IPLedger!Next]_IPLevels
  <1> SUFFICES ASSUME Typing, [Next]_vars
               PROVE  [IPLedger!Next]_IPLevels
    OBVIOUS
  <1>1. \A a \in Addresses : IPLevels[a] = LeftIP(a) /\ IPLevels'[a] = LeftIP(a)'
    BY DEF IPLevels, LeftIP
  <1>2. IP!Crowded(attempt)' \in BOOLEAN
    BY DEF IP!Crowded
  <1>3. IP!Full = IPLedger!Full
    BY DEF IP!Full, IPLedger!Full
  <1>4. CASE IPSame
    BY <1>1, <1>4 DEF IPSame, IPLevels, LeftIP
  <1>5. CASE IPRefilled
    <2>1. IPLevels' = [a \in Addresses |-> IF IPLevels[a] < IPLedger!Full
                                           THEN IPLevels[a] + 1 ELSE IPLedger!Full]
      BY <1>1, <1>3, <1>5 DEF IPRefilled, IPLevels
    <2>2. IP!Crowded(attempt)' = IP!Crowded(attempt)
      BY <1>5 DEF IPRefilled
    <2>3. IPLedger!Refill
      BY <2>1, <2>2 DEF IPLedger!Refill, IPLevels
    <2>4. QED
      BY <2>3 DEF IPLedger!Next
  <1>6. ASSUME NEW k \in Addresses, IPUsed(k)
        PROVE  IPLedger!Next
    <2>1. IPLevels' = [IPLevels EXCEPT ![k] = @ - IPEvery] /\ IPLevels[k] >= IPEvery
      BY <1>1, <1>6 DEF IPUsed, IPLevels
    <2>2. IPLedger!Use(k)
      BY <1>2, <2>1 DEF IPLedger!Use, IPLedger!Crowding, IPLevels
    <2>3. QED
      BY <2>2 DEF IPLedger!Next
  <1>7. ASSUME NEW k \in Addresses, IPForgot(k)
        PROVE  IPLedger!Next
    <2>1. PICK f \in Addresses \ {k} : \A a \in Addresses : LeftIP(a)' =
              IF a = k THEN IP!Full - IPEvery ELSE IF a = f THEN IP!Full ELSE LeftIP(a)
      BY <1>7 DEF IPForgot
    <2>2. IPLevels' = [IPLevels EXCEPT ![f] = IPLedger!Full, ![k] = IPLedger!Full - IPEvery]
      BY <1>1, <1>3, <2>1 DEF IPLevels
    <2>3. IP!Crowded(attempt) /\ IPLevels[k] = IPLedger!Full
      BY <1>1, <1>3, <1>7 DEF IPForgot
    <2>4. IPLedger!Forget(f, k)
      BY <1>2, <2>1, <2>2, <2>3 DEF IPLedger!Forget, IPLedger!Crowding, IPLevels
    <2>5. QED
      BY <2>4 DEF IPLedger!Next
  <1>8. QED
    BY <1>4, <1>5, <1>6, <1>7, NextIP DEF IPSteps

\* Sweeps, refills in arrears and the order of the calls are not to be seen: an address
\* is treated as if its buckets had always been there (ratelimit.go), until the table is
\* full.
THEOREM QuotaImplemented == Spec => ImplementsQuota
  <1>1. Spec => FailLedger!Spec
    BY Typed, InitQuota, NextFailLedger, PTL DEF Spec, FailLedger!Spec, FailLevels
  <1>2. Spec => IPLedger!Spec
    BY Typed, InitQuota, NextIPLedger, PTL DEF Spec, IPLedger!Spec, IPLevels
  <1>3. QED
    BY <1>1, <1>2 DEF ImplementsQuota
-----------------------------------------------------------------------------
(* What that means for any stretch of time *)

\* The attempts of address a that are let in, from the moment at which n is 0.
Counts(a, n) == n' = n + (IF LetsIn(a) THEN 1 ELSE 0)

\* In any stretch of time an address gets no more attempts than its bucket holds and
\* than have come back since, however many of them are made at once, and whichever
\* sweeps and late refills there are in between: as long as the table of buckets is not
\* full (ratelimit.go, touch; limits.go).  n is a history variable: it counts from
\* any moment on, start.
THEOREM AttemptsInAnyStretch ==
    ASSUME NEW a \in Addresses, NEW start \in Nat, NEW VARIABLE n
    PROVE  Spec =>
               [](/\ now = start /\ n = 0 /\ [][Counts(a, n)]_<<vars, n>>
                  /\ []~IP!Crowded(attempt)
                  => [](n * IPEvery <= IPBurst * IPEvery + (now - start)))
  <1> DEFINE Paid == n \in Nat /\ n * IPEvery + LeftIP(a) <= IP!Full + (now - start)
             Bound == n * IPEvery <= IPBurst * IPEvery + (now - start)
  <1>1. Typing /\ now = start /\ n = 0 => Paid
    <2> SUFFICES ASSUME Typing, now = start, n = 0
                 PROVE  Paid
      OBVIOUS
    <2>1. 0 * IPEvery = 0 /\ LeftIP(a) <= IP!Full /\ LeftIP(a) \in Nat /\ IP!Full \in Nat
      BY LeftRange
    <2>2. QED
      BY <2>1
  <1>2. Typing /\ Paid /\ ~IP!Crowded(attempt) /\ [Next]_vars /\ [Counts(a, n)]_<<vars, n>>
            => Paid'
    <2> SUFFICES ASSUME Typing, Paid, ~IP!Crowded(attempt), [Next]_vars,
                        [Counts(a, n)]_<<vars, n>>
                 PROVE  Paid'
      OBVIOUS
    <2>1. PICK p \in Nat, e \in Nat, l \in Nat, f \in Nat, t \in Nat :
              /\ p = n * IPEvery /\ e = IPEvery /\ l = LeftIP(a) /\ f = IP!Full /\ t = now
              /\ l <= f /\ n \in Nat
      <3>1. LeftIP(a) \in Nat /\ LeftIP(a) <= IP!Full /\ IP!Full \in Nat /\ IPEvery \in Nat
        BY LeftRange
      <3>2. now \in Nat
        BY DEF Typing, LimitersSound
      <3>3. n * IPEvery \in Nat
        BY <3>1
      <3>4. QED
        BY <3>1, <3>2, <3>3
    <2>2. (n + 1) * IPEvery = p + e
      BY <2>1
    <2>3. p + l <= f + (t - start)
      BY <2>1
    <2>4. n' = n + (IF LetsIn(a) THEN 1 ELSE 0) \/ (n' = n /\ ~LetsIn(a))
      BY DEF Counts, vars, LetsIn
    <2>5. CASE IPSame /\ now' = now /\ ~\E b \in Addresses : LetsIn(b)
      <3>1. n' = n /\ LeftIP(a)' = l /\ now' = t
        BY <2>1, <2>4, <2>5 DEF IPSame
      <3>2. QED
        BY <2>1, <2>3, <3>1
    <2>6. CASE IPRefilled /\ now' = now + 1 /\ ~\E b \in Addresses : LetsIn(b)
      <3>1. n' = n /\ LeftIP(a)' <= l + 1 /\ LeftIP(a)' \in Nat /\ now' = t + 1
        BY <2>1, <2>4, <2>6 DEF IPRefilled
      <3>2. QED
        BY <2>1, <2>3, <3>1
    <2>7. ASSUME NEW k \in Addresses, IPUsed(k), now' = now,
                 \A b \in Addresses : LetsIn(b) => b = k
          PROVE  Paid'
      <3>1. CASE k = a
        <4>1. LeftIP(a)' = l - e /\ l >= e /\ now' = t
          BY <2>1, <2>7, <3>1 DEF IPUsed
        <4>2. n' = n \/ n' = n + 1
          BY <2>1, <2>4
        <4>3. PICK q \in Nat : q = n' * IPEvery /\ q <= p + e
          <5>1. CASE n' = n
            BY <2>1, <5>1
          <5>2. CASE n' = n + 1
            <6>1. n' * IPEvery = p + e /\ p + e \in Nat
              BY <2>1, <2>2, <5>2
            <6>2. QED
              BY <2>1, <6>1
          <5>3. QED
            BY <4>2, <5>1, <5>2
        <4>4. q + (l - e) <= f + (t - start)
          BY <2>1, <2>3, <4>1, <4>3
        <4>5. QED
          BY <2>1, <4>1, <4>2, <4>3, <4>4 DEF Paid
      <3>2. CASE k # a
        <4>1. n' = n /\ LeftIP(a)' = l /\ now' = t
          BY <2>1, <2>4, <2>7, <3>2 DEF IPUsed
        <4>2. QED
          BY <2>1, <2>3, <4>1
      <3>3. QED
        BY <3>1, <3>2
    <2>8. ASSUME NEW k \in Addresses, IPForgot(k)
          PROVE  FALSE
      BY <2>8 DEF IPForgot
    <2>9. QED
      BY <2>5, <2>6, <2>7, <2>8, NextIP DEF IPSteps
  <1>3. Typing /\ Paid => Bound
    <2> SUFFICES ASSUME Typing, Paid
                 PROVE  Bound
      OBVIOUS
    <2>1. LeftIP(a) \in Nat /\ IP!Full \in Nat /\ IPEvery \in Nat
      BY LeftRange
    <2>2. IP!Full = IPBurst * IPEvery
      BY DEF IP!Full
    <2>3. n * IPEvery \in Nat /\ now \in Nat
      BY <2>1 DEF Typing, LimitersSound
    <2>4. QED
      BY <2>1, <2>2, <2>3
  <1> HIDE DEF Paid, Bound
  <1>4. Spec =>
            [](/\ now = start /\ n = 0 /\ [][Counts(a, n)]_<<vars, n>>
               /\ []~IP!Crowded(attempt)
               => []Bound)
    BY <1>1, <1>2, <1>3, Typed, PTL DEF Spec
  <1>5. QED
    BY <1>4 DEF Bound
=============================================================================
