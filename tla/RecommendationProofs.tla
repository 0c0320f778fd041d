------------------------- MODULE RecommendationProofs -------------------------
(***************************************************************************)
(* Proofs about Recommendation, for every set of tags, articles and        *)
(* requests: the weights, the answers that Get waits for, and what a feed  *)
(* has in it, for which sorting and folding have lemmas of their own.      *)
(***************************************************************************)
EXTENDS Recommendation, FiniteSetTheorems, NaturalsInduction, WellFoundedInduction,
        SequenceTheorems, TLAPS

-----------------------------------------------------------------------------
(* Weights *)

LEMMA ClampType ==
    ASSUME NEW v \in Nat
    PROVE  clamp(v) \in 0..Scale /\ clamp(v) <= v
  BY InterestAssumption DEF clamp

\* Weights stay within the scale when they decay.
LEMMA DecayedType ==
    ASSUME NEW v \in Nat
    PROVE  Decayed(v) \in 0..Scale
  <1>1. PICK c \in 0..Scale : c = clamp(v)
    BY ClampType
  <1>2. /\ Scale \in Nat /\ c \in Nat
        /\ DecayNumerator \in Nat /\ DecayDenominator \in Nat \ {0}
        /\ DecayNumerator <= DecayDenominator
    BY InterestAssumption
  <1> DEFINE x == c * DecayNumerator
             q == x \div DecayDenominator
  <1>3. x \in Nat /\ x <= c * DecayDenominator
    BY <1>2
  <1>4. q \in Nat /\ q * DecayDenominator <= x
    BY <1>2, <1>3
  <1>5. q <= c
    <2> SUFFICES ASSUME q > c PROVE FALSE
      BY <1>2, <1>4
    <2>1. q >= c + 1
      BY <1>2, <1>4
    <2>2. q * DecayDenominator >= (c + 1) * DecayDenominator
      <3> HIDE DEF q, x
      <3>1. QED
        BY <1>2, <1>4, <2>1
    <2>3. (c + 1) * DecayDenominator > c * DecayDenominator
      BY <1>2
    <2> HIDE DEF q, x
    <2>4. c * DecayDenominator \in Nat /\ (c + 1) * DecayDenominator \in Nat
          /\ q * DecayDenominator \in Nat
      BY <1>2, <1>4
    <2>5. QED
      BY <1>3, <1>4, <2>2, <2>3, <2>4
  <1>6. Decayed(v) = q
    BY <1>1 DEF Decayed
  <1> HIDE DEF q
  <1>7. QED
    BY <1>2, <1>4, <1>5, <1>6

LEMMA ClickKeepsWeights ==
    ASSUME NEW w \in Weights, NEW tags
    PROVE  UpdateOnClick(w, tags) \in Weights
  <1>1. ASSUME NEW t \in Tags
        PROVE  /\ Decayed(w[t]) \in 0..Scale
               /\ clamp(Decayed(w[t]) + ClickBoost) \in 0..Scale
    <2>1. w[t] \in Nat /\ Scale \in Nat /\ ClickBoost \in Nat
      BY InterestAssumption DEF Weights
    <2>2. Decayed(w[t]) \in 0..Scale
      BY <2>1, DecayedType
    <2>3. Decayed(w[t]) + ClickBoost \in Nat
      BY <2>1, <2>2
    <2>4. QED
      BY <2>2, <2>3, ClampType
  <1>2. QED
    BY <1>1 DEF UpdateOnClick, Weights

LEMMA SavesKeepWeights ==
    ASSUME NEW w \in Weights, NEW S, S \subseteq Saves
    PROVE  UpdateOnSaves(w, TagsOf, S) \in Weights
  <1>1. ASSUME NEW t \in Tags, NEW R, R \subseteq S
        PROVE  clamp(w[t] + SaveBoost * Cardinality(R)) \in 0..Scale
    <2>1. IsFiniteSet(R)
      BY <1>1, RecommendationAssumption, FS_Subset, Zenon
    <2>2. Cardinality(R) \in Nat
      BY <2>1, FS_CardinalityType
    <2>3. w[t] \in Nat /\ SaveBoost \in Nat
      BY InterestAssumption DEF Weights
    <2>4. SaveBoost * Cardinality(R) \in Nat
      BY <2>2, <2>3
    <2>5. QED
      BY <2>3, <2>4, ClampType
  <1>2. ASSUME NEW t \in Tags
        PROVE  clamp(w[t] + SaveBoost * Cardinality({s \in S : t \in TagsOf[s]})) \in 0..Scale
    BY <1>1
  <1>3. QED
    BY <1>2 DEF UpdateOnSaves, Weights

LEMMA LearningKeepsWeights ==
    ASSUME TypeOK, NEW r \in Requests
    PROVE  NewWeights(r) \in Weights
  <1>1. PICK w \in Weights : w = UpdateOnSaves(seen[r], TagsOf, learning[r])
    BY SavesKeepWeights DEF TypeOK
  <1>2. UpdateOnClick(w, clicked[r]) \in Weights
    BY ClickKeepsWeights
  <1>3. QED
    BY <1>1, <1>2 DEF NewWeights

-----------------------------------------------------------------------------
(* Types *)

LEMMA FailedType ==
    ASSUME NEW b \in Seq(Answers)
    PROVE  Failed(b) \subseteq Providers
  <1>1. ASSUME NEW i \in DOMAIN b
        PROVE  b[i].search[1] \in Providers
    <2>1. b[i] \in Answers
      OBVIOUS
    <2>2. b[i].search \in Providers \X (Tags \cup {0})
      BY <2>1 DEF Answers, Search
    <2>3. QED
      BY <2>2
  <1>2. QED
    BY <1>1 DEF Failed

LEMMA TypesInit == Init => TypeOK
  <1> SUFFICES ASSUME Init
               PROVE  TypeOK
    OBVIOUS
  <1>1. Zero \in Weights
    BY InterestAssumption DEF Zero, Weights
  <1>2. /\ weights \in Weights
        /\ saves \in [Saves -> {"waiting", "due", "learned"}]
        /\ stored \in SUBSET Articles /\ fromDB \in BOOLEAN
    BY DEF Init
  <1>3. /\ seen \in [Requests -> Weights]
        /\ clicked \in [Requests -> SUBSET Tags]
        /\ learning \in [Requests -> SUBSET Saves]
        /\ pending \in [Requests -> SUBSET Search]
    BY <1>1 DEF Init
  <1>4. collected \in [Requests -> Seq(Answers)]
    BY DEF Init
  <1>5. DOMAIN feed = Requests /\ \A r \in Requests : feed[r].warnings \subseteq Providers
    BY DEF Init, NoFeed
  <1>6. QED
    BY <1>2, <1>3, <1>4, <1>5 DEF TypeOK, Init

LEMMA TypesStep == TypeOK /\ [Next]_vars => TypeOK'
  <1> SUFFICES ASSUME TypeOK, [Next]_vars
               PROVE  TypeOK'
    OBVIOUS
  <1>1. ASSUME NEW r \in Requests, FeedBegin(r)
        PROVE  TypeOK'
    BY <1>1 DEF FeedBegin, Go, data, TypeOK
  <1>2. ASSUME NEW r \in Requests, CheckDue(r)
        PROVE  TypeOK'
    BY <1>2 DEF CheckDue, Go, data, TypeOK
  <1>3. ASSUME NEW r \in Requests, LockAndRead(r)
        PROVE  TypeOK'
    <2>1. Due \in SUBSET Saves
      BY DEF Due
    <2>2. /\ learning' \in [Requests -> SUBSET Saves]
          /\ seen' \in [Requests -> Weights]
      BY <1>3, <2>1 DEF LockAndRead, TypeOK
    <2>3. QED
      BY <1>3, <2>2 DEF LockAndRead, Go, data, TypeOK
  <1>4. ASSUME NEW r \in Requests, Commit(r)
        PROVE  TypeOK'
    <2>1. weights' \in Weights
      BY <1>4, LearningKeepsWeights DEF Commit
    <2>2. saves' \in [Saves -> {"waiting", "due", "learned"}]
      BY <1>4 DEF Commit, TypeOK
    <2>3. Zero \in Weights
      BY InterestAssumption DEF Zero, Weights
    <2>4. /\ seen' \in [Requests -> Weights]
          /\ clicked' \in [Requests -> SUBSET Tags]
          /\ learning' \in [Requests -> SUBSET Saves]
      BY <1>4, <2>3 DEF Commit, TypeOK
    <2>5. QED
      BY <1>4, <2>1, <2>2, <2>4 DEF Commit, Go, TypeOK
  <1>5. ASSUME NEW r \in Requests, Break(r)
        PROVE  TypeOK'
    <2>1. Zero \in Weights
      BY InterestAssumption DEF Zero, Weights
    <2>2. /\ seen' \in [Requests -> Weights]
          /\ clicked' \in [Requests -> SUBSET Tags]
          /\ learning' \in [Requests -> SUBSET Saves]
      BY <1>5, <2>1 DEF Break, TypeOK
    <2>3. /\ DOMAIN feed' = Requests
          /\ \A q \in Requests : feed'[q].warnings \subseteq Providers
      BY <1>5 DEF Break, NoFeed, TypeOK
    <2>4. QED
      BY <1>5, <2>2, <2>3 DEF Break, Go, data, TypeOK
  <1>6. ASSUME NEW r \in Requests, ListWeights(r)
        PROVE  TypeOK'
    <2>1. Searches(weights) \in SUBSET Search
      BY DEF Searches, Search, Top
    <2>2. seen' \in [Requests -> Weights] /\ pending' \in [Requests -> SUBSET Search]
      BY <1>6, <2>1 DEF ListWeights, TypeOK
    <2>3. QED
      BY <1>6, <2>2 DEF ListWeights, Go, data, TypeOK
  <1>7. ASSUME NEW r \in Requests, Answer(r)
        PROVE  TypeOK'
    <2>1. PICK search \in pending[r], ok \in BOOLEAN :
              /\ pending' = [pending EXCEPT ![r] = @ \ {search}]
              /\ collected' = [collected EXCEPT ![r] =
                     Append(@, [search |-> search, ok |-> ok])]
      BY <1>7 DEF Answer
    <2>2. pending' \in [Requests -> SUBSET Search]
      BY <2>1 DEF TypeOK
    <2> DEFINE a == [search |-> search, ok |-> ok]
    <2>3. a \in Answers
      <3>1. search \in Search
        BY DEF TypeOK
      <3>2. QED
        BY <3>1 DEF Answers
    <2> HIDE DEF a
    <2>4. Append(collected[r], a) \in Seq(Answers)
      <3>1. collected[r] \in Seq(Answers)
        BY DEF TypeOK
      <3>2. QED
        BY <2>3, <3>1
    <2>5. collected' \in [Requests -> Seq(Answers)]
      <3>1. collected' = [collected EXCEPT ![r] = Append(@, a)]
        BY <2>1 DEF a
      <3>2. QED
        BY <2>4, <3>1 DEF TypeOK
    <2>6. QED
      BY <1>7, <2>2, <2>5 DEF Answer, data, TypeOK
  <1>8. ASSUME NEW r \in Requests, Assemble(r)
        PROVE  TypeOK'
    <2>1. Failed(collected[r]) \subseteq Providers
      BY FailedType DEF TypeOK
    <2>2. /\ DOMAIN feed' = Requests
          /\ \A q \in Requests : feed'[q].warnings \subseteq Providers
      <3> DEFINE f == IF Failed(collected[r]) = Providers /\ Succeeded(collected[r]) = {}
                      THEN [NoFeed EXCEPT !.status = "unavailable"]
                      ELSE Assembled(seen[r], collected[r])
      <3>1. f.warnings \subseteq Providers
        BY <2>1 DEF NoFeed, Assembled
      <3>2. feed' = [feed EXCEPT ![r] = f]
        BY <1>8 DEF Assemble
      <3> HIDE DEF f
      <3>3. QED
        BY <3>1, <3>2 DEF TypeOK
    <2>3. QED
      BY <1>8, <2>2 DEF Assemble, Go, data, TypeOK
  <1>9. ASSUME NEW r \in Requests, NEW f, f.warnings \subseteq Providers,
               feed' = [feed EXCEPT ![r] = f],
               NEW to \in {"popularQiita", "popularZenn", "done"}, Go(r, to),
               UNCHANGED <<data, clicked, learning, seen, pending, collected>>
        PROVE  TypeOK'
    BY <1>9 DEF Go, data, TypeOK
  <1>10. ASSUME NEW r \in Requests, ReadTagged(r)
         PROVE  TypeOK'
    <2>1. PICK q, z : feed' = [feed EXCEPT ![r] = [NoFeed EXCEPT !.qiita = q, !.zenn = z]]
      BY <1>10 DEF ReadTagged
    <2>2. [NoFeed EXCEPT !.qiita = q, !.zenn = z].warnings \subseteq Providers
      BY DEF NoFeed
    <2>3. QED
      BY <1>9, <1>10, <2>1, <2>2 DEF ReadTagged
  <1>11. ASSUME NEW r \in Requests, FillQiita(r)
         PROVE  TypeOK'
    <2>1. PICK q : feed' = [feed EXCEPT ![r].qiita = q]
      BY <1>11 DEF FillQiita
    <2>2. feed' = [feed EXCEPT ![r] = [feed[r] EXCEPT !.qiita = q]]
      BY <2>1
    <2>3. [feed[r] EXCEPT !.qiita = q].warnings = feed[r].warnings
      OBVIOUS
    <2>4. feed[r].warnings \subseteq Providers
      BY DEF TypeOK
    <2>5. QED
      BY <1>9, <1>11, <2>2, <2>3, <2>4 DEF FillQiita
  <1>12. ASSUME NEW r \in Requests, FillZenn(r)
         PROVE  TypeOK'
    <2>1. PICK z : feed' = [feed EXCEPT ![r].zenn = z, ![r].status = "ok"]
      BY <1>12 DEF FillZenn
    <2>2. feed' = [feed EXCEPT ![r] = [feed[r] EXCEPT !.zenn = z, !.status = "ok"]]
      BY <2>1 DEF TypeOK
    <2>3. [feed[r] EXCEPT !.zenn = z, !.status = "ok"].warnings = feed[r].warnings
      OBVIOUS
    <2>4. feed[r].warnings \subseteq Providers
      BY DEF TypeOK
    <2>5. QED
      BY <1>9, <1>12, <2>2, <2>3, <2>4 DEF FillZenn
  <1>13. ASSUME NEW r \in Requests, Reply(r)
         PROVE  TypeOK'
    <2>1. Zero \in Weights
      BY InterestAssumption DEF Zero, Weights
    <2>2. seen' \in [Requests -> Weights]
      BY <1>13, <2>1 DEF Reply, TypeOK
    <2>3. collected' \in [Requests -> Seq(Answers)]
      <3>1. <<>> \in Seq(Answers)
        OBVIOUS
      <3>2. QED
        BY <1>13, <3>1 DEF Reply, TypeOK
    <2>4. /\ DOMAIN feed' = Requests
          /\ \A q \in Requests : feed'[q].warnings \subseteq Providers
      BY <1>13 DEF Reply, NoFeed, TypeOK
    <2>5. QED
      BY <1>13, <2>2, <2>3, <2>4 DEF Reply, Go, data, TypeOK
  <1>14. ASSUME NEW r \in Requests, NEW tags \in Clicks, ClickBegin(r, tags)
         PROVE  TypeOK'
    <2>1. tags \in SUBSET Tags
      BY RecommendationAssumption
    <2>2. clicked' \in [Requests -> SUBSET Tags]
      BY <1>14, <2>1 DEF ClickBegin, TypeOK
    <2>3. QED
      BY <1>14, <2>2 DEF ClickBegin, Go, TypeOK
  <1>15. ASSUME NEW s \in Saves, Ripen(s)
         PROVE  TypeOK'
    BY <1>15 DEF Ripen, own, TypeOK
  <1>16. ASSUME NEW a \in Articles, ChangeStored(a)
         PROVE  TypeOK'
    BY <1>16 DEF ChangeStored, own, TypeOK
  <1>17. CASE UNCHANGED vars
    BY <1>17 DEF vars, data, own, TypeOK
  <1>18. QED
    BY <1>1, <1>2, <1>3, <1>4, <1>5, <1>6, <1>7, <1>8, <1>10, <1>11, <1>12, <1>13,
       <1>14, <1>15, <1>16, <1>17 DEF Next, Learning, Reading

\* Type correctness, and with it that no weight ever leaves the scale, whatever is
\* clicked and saved, and whoever learns it (interest.go, clamp and decay).
THEOREM TypesHold == Spec => []TypeOK
  BY TypesInit, TypesStep, PTL DEF Spec

-----------------------------------------------------------------------------
(* Learning, one request at a time.  What a transaction is going to write was       *)
(* computed from what it has read, so that it is as good as one step only if nobody *)
(* has changed that in the meantime: this is what the lock on the user is for.      *)

Locked ==
    \A r \in Requests : pc[r] = "commit" =>
        /\ \A q \in Requests : pc[q] = "commit" => q = r
        /\ seen[r] = weights
        /\ learning[r] \subseteq Due

LEMMA LockKept ==
    ASSUME Locked, weights' = weights,
           \A s \in Saves : saves[s] = "due" => saves'[s] = "due",
           \A q \in Requests : pc'[q] = "commit" =>
               pc[q] = "commit" /\ seen'[q] = seen[q] /\ learning'[q] = learning[q]
    PROVE  Locked'
  BY DEF Locked, Due

LEMMA LockedStep == TypeOK /\ Locked /\ [Next]_vars => Locked'
  <1> SUFFICES ASSUME TypeOK, Locked, [Next]_vars
               PROVE  Locked'
    OBVIOUS
  <1>0. /\ seen \in [Requests -> Weights] /\ learning \in [Requests -> SUBSET Saves]
        /\ saves \in [Saves -> {"waiting", "due", "learned"}]
        /\ DOMAIN pc = Requests
    BY DEF TypeOK
  <1>1. ASSUME NEW r \in Requests, NEW to, to # "commit", Go(r, to), UNCHANGED data,
               \A q \in Requests : q # r => seen'[q] = seen[q] /\ learning'[q] = learning[q]
        PROVE  Locked'
    <2>1. \A q \in Requests : pc'[q] = IF q = r THEN to ELSE pc[q]
      BY <1>0, <1>1 DEF Go
    <2>2. weights' = weights /\ saves' = saves
      BY <1>1 DEF data
    <2>3. QED
      BY <1>1, <2>1, <2>2, LockKept
  <1>2. ASSUME NEW r \in Requests, FeedBegin(r) \/ CheckDue(r)
        PROVE  Locked'
    BY <1>1, <1>2 DEF FeedBegin, CheckDue
  <1>3. ASSUME NEW r \in Requests, ListWeights(r)
        PROVE  Locked'
    <2>1. \A q \in Requests : q # r => seen'[q] = seen[q] /\ learning'[q] = learning[q]
      BY <1>0, <1>3 DEF ListWeights
    <2>2. Go(r, "tagged") \/ Go(r, "search")
      BY <1>3 DEF ListWeights
    <2>3. UNCHANGED data
      BY <1>3 DEF ListWeights
    <2>4. QED
      BY <1>1, <2>1, <2>2, <2>3
  <1>4. ASSUME NEW r \in Requests,
               Assemble(r) \/ ReadTagged(r) \/ FillQiita(r) \/ FillZenn(r)
        PROVE  Locked'
    BY <1>1, <1>4 DEF Assemble, ReadTagged, FillQiita, FillZenn
  <1>5. ASSUME NEW r \in Requests, Reply(r) \/ Break(r)
        PROVE  Locked'
    <2>1. \A q \in Requests : q # r => seen'[q] = seen[q] /\ learning'[q] = learning[q]
      BY <1>0, <1>5 DEF Reply, Break
    <2>2. Go(r, "idle") \/ Go(r, "done")
      BY <1>5 DEF Reply, Break
    <2>3. UNCHANGED data
      BY <1>5 DEF Reply, Break
    <2>4. QED
      BY <1>1, <2>1, <2>2, <2>3
  <1>6. ASSUME NEW r \in Requests, LockAndRead(r)
        PROVE  Locked'
    <2>1. \A q \in Requests : pc'[q] = "commit" => q = r
      BY <1>0, <1>6 DEF LockAndRead, UserFree, Go
    <2>2. weights' = weights /\ Due' = Due
      BY <1>6 DEF LockAndRead, data, Due
    <2>3. seen'[r] = weights /\ learning'[r] = Due
      BY <1>0, <1>6 DEF LockAndRead
    <2>4. QED
      BY <2>1, <2>2, <2>3 DEF Locked
  <1>7. ASSUME NEW r \in Requests, Commit(r)
        PROVE  Locked'
    <2>1. \A q \in Requests : pc[q] = "commit" => q = r
      BY <1>7 DEF Commit, Locked
    <2>2. \A q \in Requests : pc'[q] # "commit"
      BY <1>0, <1>7, <2>1 DEF Commit, Go
    <2>3. QED
      BY <2>2 DEF Locked
  <1>8. ASSUME NEW r \in Requests, Answer(r)
        PROVE  Locked'
    BY <1>8, LockKept DEF Answer, data
  <1>9. ASSUME NEW r \in Requests, NEW tags \in Clicks, ClickBegin(r, tags)
        PROVE  Locked'
    BY <1>0, <1>9, LockKept DEF ClickBegin, Go
  <1>10. ASSUME NEW s \in Saves, Ripen(s)
         PROVE  Locked'
    <2>1. \A q \in Saves : saves[q] = "due" => saves'[q] = "due"
      BY <1>0, <1>10 DEF Ripen
    <2>2. QED
      BY <1>10, <2>1, LockKept DEF Ripen, own
  <1>11. ASSUME NEW a \in Articles, ChangeStored(a)
         PROVE  Locked'
    BY <1>11, LockKept DEF ChangeStored, own
  <1>12. CASE UNCHANGED vars
    BY <1>12, LockKept DEF vars, data, own
  <1>13. QED
    BY <1>2, <1>3, <1>4, <1>5, <1>6, <1>7, <1>8, <1>9, <1>10, <1>11, <1>12
       DEF Next, Learning, Reading

-----------------------------------------------------------------------------
(* The refinement *)

\* The ledger computes weights as the requests do.
LEMMA SameMath ==
    /\ Ledger!Weights = Weights
    /\ \A w, S : Ledger!UpdateOnSaves(w, TagsOf, S) = UpdateOnSaves(w, TagsOf, S)
    /\ \A w, tags : Ledger!UpdateOnClick(w, tags) = UpdateOnClick(w, tags)
    /\ Ledger!DueSaves = Due
  <1>1. Ledger!Weights = Weights /\ Ledger!DueSaves = Due
    BY DEF Ledger!Weights, Weights, Ledger!DueSaves, Due
  <1>2. \A v : Ledger!clamp(v) = clamp(v) /\ Ledger!Decayed(v) = Decayed(v)
    BY DEF Ledger!clamp, clamp, Ledger!Decayed, Decayed
  <1>3. \A R : Ledger!Cardinality(R) = Cardinality(R)
    BY DEF Ledger!Cardinality, Cardinality, Ledger!IsFiniteSet, IsFiniteSet
  <1>4. \A w, tags : Ledger!UpdateOnClick(w, tags) = UpdateOnClick(w, tags)
    BY <1>2 DEF Ledger!UpdateOnClick, UpdateOnClick
  <1>5. \A w, S : Ledger!UpdateOnSaves(w, TagsOf, S) = UpdateOnSaves(w, TagsOf, S)
    BY <1>2, <1>3 DEF Ledger!UpdateOnSaves, UpdateOnSaves
  <1>6. QED
    BY <1>1, <1>4, <1>5

\* What a request that records a click may be doing
ClickersLearn == \A r \in Clickers : pc[r] \in {"idle", "lock", "commit"}

Sent(r) == pc[r] \in {"lock", "commit"}

LEMMA ClickersStep == TypeOK /\ ClickersLearn /\ [Next]_vars => ClickersLearn'
  <1> SUFFICES ASSUME TypeOK, ClickersLearn, [Next]_vars, NEW q \in Clickers
               PROVE  pc'[q] \in {"idle", "lock", "commit"}
    BY DEF ClickersLearn
  <1>0. q \in Requests /\ DOMAIN pc = Requests /\ pc[q] \in {"idle", "lock", "commit"}
    BY DEF TypeOK, ClickersLearn, Requests
  <1>1. ASSUME NEW r \in Requests, NEW to, Go(r, to), r = q => to \in {"idle", "lock", "commit"}
        PROVE  pc'[q] \in {"idle", "lock", "commit"}
    BY <1>0, <1>1 DEF Go
  <1>2. ASSUME NEW r \in Requests, FeedBegin(r)
        PROVE  pc'[q] \in {"idle", "lock", "commit"}
    <2>1. r # q
      BY <1>2, RecommendationAssumption DEF FeedBegin
    <2>2. QED
      BY <1>1, <1>2, <2>1 DEF FeedBegin
  <1>3. ASSUME NEW r \in Requests, CheckDue(r) \/ Reply(r)
        PROVE  pc'[q] \in {"idle", "lock", "commit"}
    <2>1. r # q
      BY <1>0, <1>3 DEF CheckDue, Reply
    <2>2. QED
      BY <1>1, <1>3, <2>1 DEF CheckDue, Reply
  <1>4. ASSUME NEW r \in Requests, Reading(r)
        PROVE  pc'[q] \in {"idle", "lock", "commit"}
    <2>1. r # q
      BY <1>0, <1>4 DEF Reading, ListWeights, Answer, Assemble, ReadTagged, FillQiita,
                        FillZenn
    <2>2. pc' = pc \/ \E to : Go(r, to)
      BY <1>4 DEF Reading, ListWeights, Answer, Assemble, ReadTagged, FillQiita, FillZenn
    <2>3. QED
      BY <1>0, <1>1, <2>1, <2>2
  <1>5. ASSUME NEW r \in Requests,
               LockAndRead(r) \/ Commit(r) \/ Break(r) \/ \E tags \in Clicks : ClickBegin(r, tags)
        PROVE  pc'[q] \in {"idle", "lock", "commit"}
    <2>1. r = q => r \in Clickers
      OBVIOUS
    <2>2. QED
      BY <1>1, <1>5, <2>1 DEF LockAndRead, Commit, Break, ClickBegin
  <1>6. CASE pc' = pc
    BY <1>0, <1>6
  <1>7. QED
    BY <1>2, <1>3, <1>4, <1>5, <1>6
    DEF Next, Learning, Ripen, ChangeStored, vars, own

\* Whoever does not begin or end leaves the open clicks as they are.
LEMMA OpenKept ==
    ASSUME \A q \in Clickers : Sent(q)' = Sent(q) /\ (Sent(q) => clicked'[q] = clicked[q])
    PROVE  OpenClicks' = OpenClicks
  BY DEF OpenClicks, ClickOf, Sent

\* A request that learns nothing of a click
LEMMA OtherKeepsOpen ==
    ASSUME TypeOK, NEW r \in Requests, NEW to, Go(r, to), clicked' = clicked,
           r \in Clickers => (Sent(r) <=> to \in {"lock", "commit"})
    PROVE  OpenClicks' = OpenClicks
  <1>1. \A q \in Requests : pc'[q] = IF q = r THEN to ELSE pc[q]
    BY DEF Go, TypeOK
  <1>2. \A q \in Clickers : Sent(q)' = Sent(q)
    BY <1>1 DEF Sent, Requests
  <1>3. QED
    BY <1>2, OpenKept

\* A click that comes to its end is the only one that does.
LEMMA OneEnds ==
    ASSUME TypeOK, NEW r \in Requests, NEW to, Go(r, to), to \notin {"lock", "commit"},
           clicked' = [clicked EXCEPT ![r] = {}]
    PROVE  OpenClicks' = OpenClicks \ {ClickOf(r)}
  <1>1. \A q \in Requests : pc'[q] = IF q = r THEN to ELSE pc[q]
    BY DEF Go, TypeOK
  <1>2. \A q \in Requests : q # r => clicked'[q] = clicked[q]
    BY DEF TypeOK
  <1>3. QED
    BY <1>1, <1>2 DEF OpenClicks, ClickOf, Requests

LEMMA CommitLearns ==
    ASSUME TypeOK, Locked, NEW r \in Requests, Commit(r)
    PROVE  Ledger!Next
  <1>1. PICK S, tags, w : S = learning[r] /\ tags = clicked[r] /\ w = NewWeights(r)
    OBVIOUS
  <1>2. S \in SUBSET Saves /\ S \subseteq Due /\ tags \in SUBSET Tags
    BY <1>1 DEF Commit, Locked, TypeOK
  <1>3. seen[r] = weights
    BY DEF Commit, Locked
  <1>4. weights' = w /\ saves' = [s \in Saves |-> IF s \in S THEN "learned" ELSE saves[s]]
    BY <1>1 DEF Commit
  <1>5. Ledger!Learned(S, w)
    BY <1>2, <1>4, SameMath DEF Ledger!Learned
  <1>6. OpenClicks' = OpenClicks \ {ClickOf(r)}
    BY OneEnds DEF Commit
  <1>7. CASE r \in Clickers
    <2>1. w = Ledger!UpdateOnClick(Ledger!UpdateOnSaves(weights, TagsOf, S), tags)
      BY <1>1, <1>3, <1>7, SameMath DEF NewWeights
    <2>2. ClickOf(r) \in OpenClicks /\ ClickOf(r).tags = tags
      BY <1>1, <1>7 DEF OpenClicks, ClickOf, Commit
    <2>3. Ledger!Learn(ClickOf(r))
      BY <1>2, <1>5, <1>6, <2>1, <2>2 DEF Ledger!Learn
    <2>4. QED
      BY <2>2, <2>3 DEF Ledger!Next
  <1>8. CASE r \notin Clickers
    <2>1. w = Ledger!UpdateOnSaves(weights, TagsOf, S)
      BY <1>1, <1>3, <1>8, SameMath DEF NewWeights
    <2>2. OpenClicks' = OpenClicks
      BY <1>6, <1>8 DEF OpenClicks, ClickOf
    <2>3. QED
      BY <1>2, <1>5, <2>1, <2>2 DEF Ledger!LearnSaves, Ledger!Next
  <1>9. QED
    BY <1>7, <1>8

LEMMA InterestsStep ==
    ASSUME TypeOK, Locked, ClickersLearn, [Next]_vars
    PROVE  [Ledger!Next]_<<weights, saves, OpenClicks>>
  <1>1. ASSUME NEW r \in Requests, Commit(r)
        PROVE  Ledger!Next
    BY <1>1, CommitLearns
  <1>2. ASSUME NEW s \in Saves, Ripen(s)
        PROVE  Ledger!Next
    <2>1. OpenClicks' = OpenClicks
      BY <1>2 DEF Ripen, own, OpenClicks, ClickOf
    <2>2. QED
      BY <1>2, <2>1 DEF Ripen, Ledger!Ripen, Ledger!Next
  <1>3. ASSUME NEW r \in Requests, NEW tags \in Clicks, ClickBegin(r, tags)
        PROVE  Ledger!Next
    <2>1. /\ r \in Clickers /\ ~Sent(r) /\ tags \in SUBSET Tags
          /\ pc' = [pc EXCEPT ![r] = "lock"] /\ clicked' = [clicked EXCEPT ![r] = tags]
          /\ UNCHANGED <<weights, saves>>
      BY <1>3, RecommendationAssumption DEF ClickBegin, Go, Sent
    <2>2. \A q \in Clickers :
              /\ pc'[q] = IF q = r THEN "lock" ELSE pc[q]
              /\ clicked'[q] = IF q = r THEN tags ELSE clicked[q]
      BY <2>1 DEF TypeOK, Requests
    <2> DEFINE click == [who |-> r, tags |-> tags]
    <2>3. OpenClicks' = OpenClicks \cup {click}
      BY <2>1, <2>2 DEF OpenClicks, ClickOf, Sent
    <2>4. \A k \in OpenClicks : k.who # click.who
      BY <2>1 DEF OpenClicks, ClickOf, Sent
    <2>5. click \in [who : Clickers, tags : SUBSET Tags]
      BY <2>1
    <2>6. QED
      BY <2>1, <2>3, <2>4, <2>5 DEF Ledger!Send, Ledger!Next
  <1>4. ASSUME NEW r \in Requests, Break(r)
        PROVE  Ledger!Next \/ UNCHANGED <<weights, saves, OpenClicks>>
    <2>1. OpenClicks' = OpenClicks \ {ClickOf(r)} /\ UNCHANGED <<weights, saves>>
      BY <1>4, OneEnds DEF Break, data
    <2>2. CASE ClickOf(r) \in OpenClicks
      BY <2>1, <2>2 DEF Ledger!Lose, Ledger!Next
    <2>3. CASE ClickOf(r) \notin OpenClicks
      BY <2>1, <2>3
    <2>4. QED
      BY <2>2, <2>3
  <1>5. ASSUME NEW r \in Requests, LockAndRead(r)
        PROVE  UNCHANGED <<weights, saves, OpenClicks>>
    <2>1. Go(r, "commit") /\ clicked' = clicked /\ Sent(r) /\ UNCHANGED <<weights, saves>>
      BY <1>5 DEF LockAndRead, Sent, data
    <2>2. QED
      BY <2>1, OtherKeepsOpen
  <1>6. ASSUME NEW r \in Requests, FeedBegin(r) \/ CheckDue(r) \/ Reply(r) \/ Reading(r)
        PROVE  UNCHANGED <<weights, saves, OpenClicks>>
    <2>1. r \notin Clickers
      BY <1>6, RecommendationAssumption
      DEF FeedBegin, CheckDue, Reply, Reading, ListWeights, Answer, Assemble,
          ReadTagged, FillQiita, FillZenn, ClickersLearn
    <2>2. clicked' = clicked /\ UNCHANGED <<weights, saves>>
      BY <1>6 DEF FeedBegin, CheckDue, Reply, Reading, ListWeights, Answer, Assemble,
                  ReadTagged, FillQiita, FillZenn, data
    <2>3. pc' = pc \/ \E to : Go(r, to)
      BY <1>6 DEF FeedBegin, CheckDue, Reply, Reading, ListWeights, Answer, Assemble,
                  ReadTagged, FillQiita, FillZenn
    <2>4. CASE pc' = pc
      BY <2>2, <2>4 DEF OpenClicks, ClickOf
    <2>5. CASE \E to : Go(r, to)
      BY <2>1, <2>2, <2>5, OtherKeepsOpen
    <2>6. QED
      BY <2>2, <2>3, <2>4, <2>5
  <1>7. ASSUME NEW a \in Articles, ChangeStored(a)
        PROVE  UNCHANGED <<weights, saves, OpenClicks>>
    BY <1>7 DEF ChangeStored, own, OpenClicks, ClickOf
  <1>8. CASE UNCHANGED vars
    BY <1>8 DEF vars, data, own, OpenClicks, ClickOf
  <1>9. QED
    BY <1>1, <1>2, <1>3, <1>4, <1>5, <1>6, <1>7, <1>8 DEF Next, Learning

\* Clicks and saves are learned as if one after the other and as a whole, saves that are
\* due before the click that comes next, none of them twice, and a click whose
\* transaction fails not at all, however many requests learn at the same time
\* (store/interest.go, UpdateForClick and List, and LockUserForRecommendation).
THEOREM InterestsImplemented == Spec => ImplementsInterests
  <1>1. Init => Ledger!Init
    BY SameMath DEF Init, Ledger!Init, OpenClicks, ClickOf, Requests
  <1>2. Init => Locked /\ ClickersLearn
    BY DEF Init, Locked, ClickersLearn, Requests
  <1>3. TypeOK /\ Locked /\ ClickersLearn /\ [Next]_vars =>
            [Ledger!Next]_<<weights, saves, OpenClicks>>
    BY InterestsStep
  <1>4. QED
    BY <1>1, <1>2, <1>3, TypesInit, TypesStep, LockedStep, ClickersStep, PTL
       DEF Spec, ImplementsInterests, Ledger!Spec

-----------------------------------------------------------------------------
(* Sorting *)

\* Induction over the natural numbers, for a set of them
LEMMA CountingUp ==
    ASSUME NEW A, 0 \in A, \A n \in Nat : n \in A => n + 1 \in A
    PROVE  Nat \subseteq A
  <1> DEFINE B == Nat \ A
  <1> SUFFICES ASSUME B # {} PROVE FALSE
    OBVIOUS
  <1>1. IsWellFoundedOn(OpToRel(<, Nat), Nat)
    BY NatLessThanWellFounded
  <1>2. B \subseteq Nat
    OBVIOUS
  <1>3. PICK n \in B : \A m \in B : <<m, n>> \notin OpToRel(<, Nat)
    <2> HIDE DEF B
    <2>1. QED
      BY <1>1, <1>2, WFMin, Zenon
  <1>4. \A m \in B : ~(m < n)
    BY <1>2, <1>3 DEF OpToRel
  <1>5. n \in Nat /\ n # 0
    BY <1>2, <1>3
  <1>6. n - 1 \in Nat /\ n - 1 < n
    BY <1>5
  <1>7. n - 1 \in A
    BY <1>4, <1>6
  <1>8. (n - 1) + 1 = n
    BY <1>5
  <1>9. QED
    BY <1>3, <1>6, <1>7, <1>8

IsOrder(R, S) ==
    /\ \A a \in S : <<a, a>> \notin R
    /\ \A a, b \in S : a = b \/ <<a, b>> \in R \/ <<b, a>> \in R
    /\ \A a, b, c \in S : <<a, b>> \in R /\ <<b, c>> \in R => <<a, c>> \in R

InOrder(s, S, R) ==
    /\ s \in [1..Cardinality(S) -> S]
    /\ \A i, j \in 1..Cardinality(S) : i < j => <<s[i], s[j]>> \in R

\* A finite set has a last element in an order.
LEMMA LastExists ==
    ASSUME NEW S, IsFiniteSet(S), S # {}, NEW R, IsOrder(R, S)
    PROVE  \E x \in S : \A y \in S : y = x \/ <<y, x>> \in R
  <1> DEFINE After(x) == {y \in S : <<x, y>> \in R}
             F == {After(x) : x \in S}
  <1>1. \A x \in S : After(x) \in FiniteSubsetsOf(S)
    <2>1. \A x \in S : After(x) \subseteq S
      OBVIOUS
    <2> HIDE DEF After
    <2>2. QED
      BY <2>1, FS_Subset DEF FiniteSubsetsOf
  <1>2. F \subseteq FiniteSubsetsOf(S) /\ F # {}
    <2> HIDE DEF After
    <2>1. QED
      BY <1>1
  <1>3. PICK A \in F : \A B \in F : <<B, A>> \notin StrictSubsetOrdering(S)
    <2> HIDE DEF F
    <2>1. QED
      BY <1>2, FS_StrictSubsetOrderingWellFounded, WFMin, Zenon
  <1>4. PICK x \in S : A = After(x)
    BY <1>3
  <1>5. ASSUME NEW y \in S, <<x, y>> \in R
        PROVE  FALSE
    <2>1. y \in After(x) /\ y \notin After(y)
      BY <1>5 DEF IsOrder
    <2>2. \A z \in After(y) : z \in After(x)
      BY <1>5 DEF IsOrder
    <2>3. After(y) \in SUBSET S /\ After(x) \in SUBSET S
      OBVIOUS
    <2>4. After(y) \in F
      OBVIOUS
    <2> HIDE DEF After, F
    <2>5. <<After(y), After(x)>> \in StrictSubsetOrdering(S)
      BY <2>1, <2>2, <2>3 DEF StrictSubsetOrdering
    <2>6. QED
      BY <1>3, <1>4, <2>4, <2>5
  <1>6. QED
    BY <1>5 DEF IsOrder

\* A finite set can be put in order.
LEMMA OrderExists ==
    ASSUME NEW S, IsFiniteSet(S), NEW R, IsOrder(R, S)
    PROVE  \E s : InOrder(s, S, R)
  <1> DEFINE A == {n \in Nat : \A T \in SUBSET S :
                                   Cardinality(T) = n => \E s : InOrder(s, T, R)}
  <1>1. 0 \in A
    <2>1. ASSUME NEW T \in SUBSET S, Cardinality(T) = 0
          PROVE  InOrder(<<>>, T, R)
      BY <2>1 DEF InOrder
    <2>2. QED
      BY <2>1
  <1>2. ASSUME NEW n \in A
        PROVE  n + 1 \in A
    <2> SUFFICES ASSUME NEW T \in SUBSET S, Cardinality(T) = n + 1
                 PROVE  \E s : InOrder(s, T, R)
      OBVIOUS
    <2>1. IsFiniteSet(T) /\ T # {} /\ n \in Nat
      BY FS_Subset, FS_EmptySet
    <2>2. IsOrder(R, T)
      BY DEF IsOrder
    <2>3. PICK x \in T : \A y \in T : y = x \/ <<y, x>> \in R
      BY <2>1, <2>2, LastExists, Zenon
    <2>4. Cardinality(T \ {x}) = n
      <3>1. Cardinality(T \ {x}) = Cardinality(T) - 1
        BY <2>1, FS_RemoveElement
      <3>2. QED
        BY <2>1, <3>1
    <2>5. PICK s : InOrder(s, T \ {x}, R)
      BY <2>4
    <2>6. /\ s \in [1..n -> T \ {x}]
          /\ \A i, j \in 1..n : i < j => <<s[i], s[j]>> \in R
      BY <2>4, <2>5 DEF InOrder
    <2> DEFINE t == [i \in 1..(n + 1) |-> IF i <= n THEN s[i] ELSE x]
    <2>7. t \in [1..(n + 1) -> T]
      BY <2>1, <2>6
    <2>8. ASSUME NEW i \in 1..(n + 1), NEW j \in 1..(n + 1), i < j
          PROVE  <<t[i], t[j]>> \in R
      <3>1. i \in 1..n /\ t[i] = s[i]
        BY <2>1, <2>8
      <3>2. CASE j <= n
        <4>1. j \in 1..n /\ t[j] = s[j]
          BY <2>1, <3>2
        <4>2. QED
          BY <2>6, <2>8, <3>1, <4>1
      <3>3. CASE ~(j <= n)
        <4>1. t[j] = x /\ s[i] \in T \ {x}
          BY <2>6, <3>1, <3>3
        <4>2. QED
          BY <2>3, <3>1, <4>1
      <3>4. QED
        BY <3>2, <3>3
    <2> HIDE DEF t
    <2>9. InOrder(t, T, R)
      BY <2>7, <2>8 DEF InOrder
    <2>10. QED
      BY <2>9
  <1> HIDE DEF A
  <1>3. Nat \subseteq A
    BY <1>1, <1>2, CountingUp
  <1>4. Cardinality(S) \in A
    BY <1>3, FS_CardinalityType
  <1>5. QED
    BY <1>4 DEF A

\* What is in order has everything once, each element behind those that precede it.
LEMMA OrderIsRank ==
    ASSUME NEW S, IsFiniteSet(S), NEW R, IsOrder(R, S), NEW s, InOrder(s, S, R)
    PROVE  /\ Cardinality(S) \in Nat /\ DOMAIN s = 1..Cardinality(S)
           /\ {s[i] : i \in 1..Cardinality(S)} = S
           /\ \A i, j \in 1..Cardinality(S) : s[i] = s[j] => i = j
           /\ \A i \in 1..Cardinality(S) :
                  Cardinality({b \in S : <<b, s[i]>> \in R}) = i - 1
  <1>0. PICK N \in Nat : N = Cardinality(S)
    BY FS_CardinalityType
  <1>1. s \in [1..N -> S] /\ \A i, j \in 1..N : i < j => <<s[i], s[j]>> \in R
    BY <1>0 DEF InOrder
  <1>2. \A i, j \in 1..N : s[i] = s[j] => i = j
    <2> SUFFICES ASSUME NEW i \in 1..N, NEW j \in 1..N, s[i] = s[j], i < j
                 PROVE  FALSE
      BY <1>0
    <2>1. QED
      BY <1>1 DEF IsOrder
  <1>3. s \in Injection(1..N, S)
    BY <1>1, <1>2 DEF Injection, IsInjective
  <1>4. Cardinality(1..N) = N
    BY <1>0, FS_Interval
  <1>5. s \in Surjection(1..N, S)
    BY <1>0, <1>3, <1>4, FS_Injection
  <1>6. {s[i] : i \in 1..N} = S
    BY <1>1, <1>5 DEF Surjection
  <1>7. ASSUME NEW i \in 1..N
        PROVE  Cardinality({b \in S : <<b, s[i]>> \in R}) = i - 1
    <2> DEFINE B == {b \in S : <<b, s[i]>> \in R}
               g == [j \in 1..(i - 1) |-> s[j]]
    <2>1. ASSUME NEW j \in 1..(i - 1)
          PROVE  j \in 1..N /\ j < i /\ s[j] \in B
      BY <1>0, <1>1
    <2>2. ASSUME NEW b \in B
          PROVE  \E j \in 1..(i - 1) : s[j] = b
      <3>1. PICK j \in 1..N : s[j] = b
        BY <1>6
      <3>2. <<s[j], s[i]>> \in R /\ s[j] \in S /\ s[i] \in S
        BY <1>1, <3>1
      <3>3. ~(i <= j)
        <4>1. CASE i = j
          BY <3>2, <4>1 DEF IsOrder
        <4>2. CASE i < j
          <5>1. <<s[i], s[j]>> \in R
            BY <1>1, <4>2
          <5>2. QED
            BY <3>2, <5>1 DEF IsOrder
        <4>3. QED
          BY <4>1, <4>2
      <3>4. QED
        BY <3>1, <3>3
    <2>3. g \in [1..(i - 1) -> B]
      BY <2>1
    <2>4. \A j, k \in 1..(i - 1) : g[j] = g[k] => j = k
      BY <1>2, <2>1
    <2>5. \A b \in B : \E j \in 1..(i - 1) : g[j] = b
      BY <2>2
    <2> HIDE DEF g, B
    <2>6. g \in Injection(1..(i - 1), B) /\ g \in Surjection(1..(i - 1), B)
      BY <2>3, <2>4, <2>5 DEF Injection, IsInjective, Surjection
    <2>7. ExistsBijection(1..(i - 1), B)
      BY <2>6 DEF ExistsBijection, Bijection
    <2>8. IsFiniteSet(1..(i - 1)) /\ Cardinality(1..(i - 1)) = i - 1
      <3>1. PICK m \in Nat : m = i - 1
        OBVIOUS
      <3>2. IsFiniteSet(1..m) /\ Cardinality(1..m) = m
        BY FS_Interval
      <3>3. QED
        BY <3>1, <3>2
    <2>9. Cardinality(B) = i - 1
      BY <2>7, <2>8, FS_Bijection
    <2>10. QED
      BY <2>9 DEF B
  <1>8. QED
    BY <1>0, <1>1, <1>2, <1>6, <1>7

LEMMA LeastType ==
    ASSUME NEW a \in Nat, NEW b \in Nat
    PROVE  Least(a, b) \in Nat /\ Least(a, b) <= a /\ Least(a, b) <= b
  BY DEF Least

\* What is known of the first n of a list that is in order
IsFirst(l, k, n, S, R) ==
    /\ k \in Nat /\ l \in Seq(S) /\ Len(l) = k /\ DOMAIN l = 1..k
    /\ \A i, j \in 1..k : i < j => <<l[i], l[j]>> \in R
    /\ \A i, j \in 1..k : l[i] = l[j] => i = j
    /\ Range(l) = {a \in S : Cardinality({b \in S : <<b, a>> \in R}) < n}
    /\ Cardinality(S) <= n => Range(l) = S
    /\ IsFiniteSet(Range(l)) /\ Cardinality(Range(l)) = k

\* They are those that fewer than n others precede.
LEMMA FirstOfOrder ==
    ASSUME NEW S, IsFiniteSet(S), NEW R, IsOrder(R, S), NEW s, InOrder(s, S, R),
           NEW n \in Nat
    PROVE  IsFirst(FirstOf(s, n), Least(n, Cardinality(S)), n, S, R)
  <1>0. PICK N \in Nat, k \in Nat :
            N = Cardinality(S) /\ k = Least(n, Cardinality(S)) /\ k <= n /\ k <= N
    BY FS_CardinalityType, LeastType
  <1>1. /\ DOMAIN s = 1..N
        /\ {s[i] : i \in 1..N} = S
        /\ \A i, j \in 1..N : s[i] = s[j] => i = j
        /\ \A i \in 1..N : Cardinality({b \in S : <<b, s[i]>> \in R}) = i - 1
    BY <1>0, OrderIsRank
  <1>2. s \in [1..N -> S] /\ \A i, j \in 1..N : i < j => <<s[i], s[j]>> \in R
    BY <1>0 DEF InOrder
  <1>3. Len(s) = N
    BY <1>2
  <1> DEFINE l == FirstOf(s, n)
  <1>4. l = SubSeq(s, 1, k)
    BY <1>0, <1>3 DEF FirstOf
  <1>5. \A i \in 1..k : i \in 1..N /\ s[i] \in S
    BY <1>0, <1>2
  <1>6. /\ SubSeq(s, 1, k) \in Seq(S)
        /\ Len(SubSeq(s, 1, k)) = IF 1 <= k THEN k - 1 + 1 ELSE 0
        /\ \A i \in 1..(k - 1 + 1) : SubSeq(s, 1, k)[i] = s[1 + i - 1]
    BY <1>0, <1>5, SubSeqProperties
  <1>7. l \in Seq(S) /\ Len(l) = k /\ DOMAIN l = 1..k
    <2> HIDE DEF l
    <2>1. l \in Seq(S) /\ Len(l) = k
      BY <1>0, <1>4, <1>6
    <2>2. QED
      BY <2>1
  <1>8. \A i \in 1..k : l[i] = s[i]
    <2> HIDE DEF l
    <2>1. QED
      BY <1>0, <1>4, <1>6
  <1> HIDE DEF l
  <1>9. \A i, j \in 1..k : /\ i < j => <<l[i], l[j]>> \in R
                           /\ l[i] = l[j] => i = j
    BY <1>1, <1>2, <1>5, <1>8
  <1>10. Range(l) = {l[i] : i \in 1..k}
    BY <1>7 DEF Range
  <1>11. Range(l) = {a \in S : Cardinality({b \in S : <<b, a>> \in R}) < n}
    <2>1. ASSUME NEW i \in 1..k
          PROVE  l[i] \in S /\ Cardinality({b \in S : <<b, l[i]>> \in R}) < n
      <3>1. Cardinality({b \in S : <<b, s[i]>> \in R}) = i - 1 /\ i - 1 < n
        BY <1>0, <1>1, <1>5
      <3>2. QED
        BY <1>5, <1>8, <3>1
    <2>2. ASSUME NEW a \in S, Cardinality({b \in S : <<b, a>> \in R}) < n
          PROVE  \E i \in 1..k : l[i] = a
      <3>1. PICK i \in 1..N : s[i] = a
        BY <1>1
      <3>2. i - 1 < n
        BY <1>1, <2>2, <3>1
      <3>3. i \in 1..k
        BY <1>0, <3>2 DEF Least
      <3>4. QED
        BY <1>8, <3>1, <3>3
    <2>3. QED
      BY <1>10, <2>1, <2>2
  <1>12. N <= n => Range(l) = S
    <2>1. ASSUME N <= n
          PROVE  k = N
      BY <1>0, <2>1 DEF Least
    <2>2. QED
      BY <1>1, <1>8, <1>10, <2>1
  <1>13. IsFiniteSet(Range(l)) /\ Cardinality(Range(l)) = k
    <2>1. l \in [1..k -> Range(l)]
      BY <1>7, <1>10
    <2>2. l \in Injection(1..k, Range(l)) /\ l \in Surjection(1..k, Range(l))
      BY <1>9, <1>10, <2>1 DEF Injection, IsInjective, Surjection
    <2>3. ExistsBijection(1..k, Range(l))
      BY <2>2 DEF ExistsBijection, Bijection
    <2>4. IsFiniteSet(1..k) /\ Cardinality(1..k) = k
      BY <1>0, FS_Interval
    <2>5. QED
      BY <2>3, <2>4, FS_Bijection
  <1>14. QED
    BY <1>0, <1>7, <1>9, <1>11, <1>12, <1>13 DEF l, IsFirst

-----------------------------------------------------------------------------
(* Searches: how many a feed sends off, and how many answers it waits for *)

LEMMA SearchesFinite ==
    /\ IsFiniteSet(Search)
    /\ \A w : Searches(w) \subseteq Search /\ IsFiniteSet(Searches(w)) /\ IsFiniteSet(Top(w))
  <1>1. IsFiniteSet(Tags) /\ IsFiniteSet(Providers) /\ IsFiniteSet(Tags \cup {0})
    <2>1. IsFiniteSet(Tags)
      BY InterestAssumption
    <2>2. IsFiniteSet(Tags \cup {0})
      BY <2>1, FS_AddElement
    <2>3. IsFiniteSet({}) /\ IsFiniteSet({"qiita"})
      BY FS_EmptySet, FS_Singleton
    <2>4. IsFiniteSet({"qiita"} \cup {"zenn"})
      BY <2>3, FS_AddElement
    <2>5. {"qiita"} \cup {"zenn"} = Providers
      BY DEF Providers
    <2>6. QED
      BY <2>1, <2>2, <2>4, <2>5
  <1>2. IsFiniteSet(Search)
    BY <1>1, FS_Product DEF Search
  <1>3. \A w : Searches(w) \subseteq Search /\ Top(w) \subseteq Tags
    BY DEF Searches, Search, Top
  <1>4. QED
    BY <1>1, <1>2, <1>3, FS_Subset, Zenon

LEMMA StrongerIsOrder ==
    ASSUME NEW w \in Weights, NEW t \in Tags, NEW u \in Tags, NEW v \in Tags
    PROVE  /\ ~Stronger(w, t, t)
           /\ t = u \/ Stronger(w, t, u) \/ Stronger(w, u, t)
           /\ Stronger(w, t, u) /\ Stronger(w, u, v) => Stronger(w, t, v)
  <1>1. /\ w[t] \in Nat /\ w[u] \in Nat /\ w[v] \in Nat
        /\ t \in Nat /\ u \in Nat /\ v \in Nat
    BY InterestAssumption DEF Weights
  <1>2. QED
    BY <1>1 DEF Stronger

\* A finite set of tags has a weakest one.
LEMMA WeakestExists ==
    ASSUME NEW w \in Weights, NEW T, T \subseteq Tags, T # {}
    PROVE  \E x \in T : \A y \in T : y = x \/ Stronger(w, y, x)
  <1>0. IsFiniteSet(T)
    BY InterestAssumption, FS_Subset, Zenon
  <1> DEFINE R == {p \in T \X T : Stronger(w, p[1], p[2])}
  <1>1. \A x, y \in T : <<x, y>> \in R <=> Stronger(w, x, y)
    OBVIOUS
  <1>2. \A x, y, z \in T : /\ ~Stronger(w, x, x)
                           /\ x = y \/ Stronger(w, x, y) \/ Stronger(w, y, x)
                           /\ Stronger(w, x, y) /\ Stronger(w, y, z) => Stronger(w, x, z)
    BY StrongerIsOrder
  <1> HIDE DEF R
  <1>3. IsOrder(R, T)
    BY <1>1, <1>2 DEF IsOrder
  <1>4. PICK x \in T : \A y \in T : y = x \/ <<y, x>> \in R
    BY <1>0, <1>3, LastExists
  <1>5. QED
    BY <1>1, <1>4

\* The cut keeps at most TopTagLimit tags: all of them but the weakest are stronger than
\* the weakest one, which has been kept since fewer than TopTagLimit tags are.
LEMMA TopIsCut ==
    ASSUME NEW w \in Weights
    PROVE  Cardinality(Top(w)) \in Nat /\ Cardinality(Top(w)) <= TopTagLimit
  <1>0. /\ IsFiniteSet(Top(w)) /\ TopTagLimit \in Nat /\ Top(w) \subseteq Tags
        /\ Cardinality(Top(w)) \in Nat
    BY SearchesFinite, InterestAssumption, FS_CardinalityType DEF Top
  <1>1. CASE Top(w) = {}
    BY <1>0, <1>1, FS_EmptySet
  <1>2. CASE Top(w) # {}
    <2>1. PICK x \in Top(w) : \A y \in Top(w) : y = x \/ Stronger(w, y, x)
      BY <1>0, <1>2, WeakestExists
    <2> DEFINE S == {u \in Tags : Stronger(w, u, x)}
    <2>2. Top(w) \ {x} \subseteq S /\ S \subseteq Tags
      BY <1>0, <2>1
    <2>3. Cardinality(S) < TopTagLimit
      BY <2>1 DEF Top
    <2>4. IsFiniteSet(S)
      BY <2>2, InterestAssumption, FS_Subset, Zenon
    <2> HIDE DEF S
    <2>5. Cardinality(Top(w) \ {x}) <= Cardinality(S) /\ Cardinality(S) \in Nat
      BY <2>2, <2>4, FS_Subset, FS_CardinalityType
    <2>6. Cardinality(Top(w) \ {x}) = Cardinality(Top(w)) - 1
      BY <1>0, <2>1, FS_RemoveElement
    <2>7. QED
      BY <1>0, <2>3, <2>5, <2>6
  <1>3. QED
    BY <1>1, <1>2

\* A feed makes at most TopTagLimit searches of each provider, whatever the weights:
\* the popular articles are searched for only in the place of a tag (service.go, Get).
THEOREM SearchesBounded ==
    ASSUME NEW w \in Weights
    PROVE  Cardinality(Searches(w)) <= 2 * TopTagLimit
  <1> DEFINE E == IF Cardinality(Top(w)) < TopTagLimit THEN {0} ELSE {}
             T == Top(w) \cup E
  <1>0. /\ IsFiniteSet(Top(w)) /\ TopTagLimit \in Nat
        /\ Cardinality(Top(w)) \in Nat /\ Cardinality(Top(w)) <= TopTagLimit
    BY SearchesFinite, InterestAssumption, TopIsCut
  <1>1. IsFiniteSet(T) /\ Cardinality(T) \in Nat /\ Cardinality(T) <= TopTagLimit
    <2>1. CASE Cardinality(Top(w)) < TopTagLimit
      <3>1. 0 \notin Top(w)
        BY RecommendationAssumption DEF Top
      <3>2. T = Top(w) \cup {0}
        BY <2>1
      <3>3. IsFiniteSet(Top(w) \cup {0})
            /\ Cardinality(Top(w) \cup {0}) = Cardinality(Top(w)) + 1
        BY <1>0, <3>1, FS_AddElement
      <3> HIDE DEF T
      <3>4. QED
        BY <1>0, <2>1, <3>2, <3>3
    <2>2. CASE ~(Cardinality(Top(w)) < TopTagLimit)
      <3>1. T = Top(w)
        BY <2>2
      <3> HIDE DEF T
      <3>2. QED
        BY <1>0, <3>1
    <2>3. QED
      BY <2>1, <2>2
  <1>2. IsFiniteSet(Providers) /\ Cardinality(Providers) = 2
    <2>1. IsFiniteSet({"qiita"}) /\ Cardinality({"qiita"}) = 1
      BY FS_Singleton
    <2>2. "zenn" \notin {"qiita"} /\ Providers = {"qiita"} \cup {"zenn"}
      BY DEF Providers
    <2>3. QED
      BY <2>1, <2>2, FS_AddElement
  <1>3. Searches(w) = Providers \X T
    BY DEF Searches
  <1> HIDE DEF T
  <1>4. Cardinality(Providers \X T) = Cardinality(Providers) * Cardinality(T)
    BY <1>1, <1>2, FS_Product
  <1>5. QED
    BY <1>0, <1>1, <1>2, <1>3, <1>4

\* While Get reads the channel, every search that was sent off has either put its answer
\* there or is still going to.
AnswersCounted ==
    \A r \in Requests, w \in Weights :
        pc[r] = "search" /\ seen[r] = w =>
            Len(collected[r]) + Cardinality(pending[r]) = Cardinality(Searches(w))

\* Outside, nothing is under way.
Expecting ==
    /\ AnswersCounted
    /\ \A r \in Requests : pc[r] # "search" =>
          pending[r] = {} /\ (pc[r] # "done" => collected[r] = <<>>)

\* When Get has read as many answers as it has sent searches, none is left.
LEMMA AllAnswered ==
    ASSUME TypeOK, Expecting, NEW r \in Requests, Assemble(r)
    PROVE  pending[r] = {}
  <1>0. /\ seen \in [Requests -> Weights] /\ pending \in [Requests -> SUBSET Search]
        /\ collected \in [Requests -> Seq(Answers)]
    BY DEF TypeOK
  <1>1. pending[r] \subseteq Search
    BY <1>0
  <1>2. IsFiniteSet(pending[r])
    BY <1>1, SearchesFinite, FS_Subset, Zenon
  <1>3. Cardinality(pending[r]) \in Nat /\ Len(collected[r]) \in Nat
    BY <1>0, <1>2, FS_CardinalityType
  <1>4. Cardinality(pending[r]) = 0
    BY <1>0, <1>3 DEF Assemble, Expecting, AnswersCounted
  <1>5. QED
    BY <1>2, <1>4, FS_EmptySet

LEMMA ExpectingKept ==
    ASSUME TypeOK, TypeOK', Expecting, NEW r \in Requests, pc[r] # "search",
           NEW to, to # "search", Go(r, to), pending' = pending,
           to = "done" \/ collected'[r] = <<>>,
           \A q \in Requests : q # r => seen'[q] = seen[q] /\ collected'[q] = collected[q]
    PROVE  Expecting'
  <1>1. \A q \in Requests : pc'[q] = IF q = r THEN to ELSE pc[q]
    BY DEF Go, TypeOK
  <1>2. ASSUME NEW q \in Requests, pc'[q] = "search"
        PROVE  /\ q # r /\ pc[q] = "search" /\ seen'[q] = seen[q]
               /\ collected'[q] = collected[q] /\ pending'[q] = pending[q]
    BY <1>1, <1>2
  <1>3. AnswersCounted'
    BY <1>2 DEF Expecting, AnswersCounted
  <1>4. QED
    BY <1>1, <1>3 DEF Expecting

LEMMA ExpectingStep == TypeOK /\ TypeOK' /\ Expecting /\ [Next]_vars => Expecting'
  <1> SUFFICES ASSUME TypeOK, TypeOK', Expecting, [Next]_vars
               PROVE  Expecting'
    OBVIOUS
  <1>0. /\ seen \in [Requests -> Weights] /\ pending \in [Requests -> SUBSET Search]
        /\ collected \in [Requests -> Seq(Answers)] /\ DOMAIN pc = Requests
    BY DEF TypeOK
  <1>1. ASSUME NEW r \in Requests, FeedBegin(r) \/ CheckDue(r)
        PROVE  Expecting'
    BY <1>1, ExpectingKept DEF FeedBegin, CheckDue, Expecting
  <1>2. ASSUME NEW r \in Requests, LockAndRead(r) \/ Commit(r)
        PROVE  Expecting'
    <2>1. \A q \in Requests : q # r => seen'[q] = seen[q]
      BY <1>0, <1>2 DEF LockAndRead, Commit
    <2>2. pc[r] \in {"lock", "commit"} /\ pending' = pending /\ collected' = collected
      BY <1>2 DEF LockAndRead, Commit
    <2>3. Go(r, "commit") \/ Go(r, "idle") \/ Go(r, "list")
      BY <1>2 DEF LockAndRead, Commit
    <2>4. collected[r] = <<>>
      BY <2>2 DEF Expecting
    <2>5. QED
      BY <2>1, <2>2, <2>3, <2>4, ExpectingKept
  <1>3. ASSUME NEW r \in Requests, Break(r)
        PROVE  Expecting'
    <2>1. \A q \in Requests : q # r => seen'[q] = seen[q]
      BY <1>0, <1>3 DEF Break
    <2>2. /\ pc[r] \notin {"search", "done"} /\ pending' = pending
          /\ collected' = collected
      BY <1>3 DEF Break
    <2>3. Go(r, "idle") \/ Go(r, "done")
      BY <1>3 DEF Break
    <2>4. collected[r] = <<>>
      BY <2>2 DEF Expecting
    <2>5. QED
      BY <2>1, <2>2, <2>3, <2>4, ExpectingKept
  <1>4. ASSUME NEW r \in Requests, ReadTagged(r) \/ FillQiita(r) \/ FillZenn(r)
        PROVE  Expecting'
    <2>1. /\ pc[r] \notin {"search", "done"} /\ pending' = pending
          /\ collected' = collected /\ seen' = seen
      BY <1>4 DEF ReadTagged, FillQiita, FillZenn
    <2>2. Go(r, "popularQiita") \/ Go(r, "popularZenn") \/ Go(r, "done")
      BY <1>4 DEF ReadTagged, FillQiita, FillZenn
    <2>3. collected[r] = <<>>
      BY <2>1 DEF Expecting
    <2>4. QED
      BY <2>1, <2>2, <2>3, ExpectingKept
  <1>5. ASSUME NEW r \in Requests, Reply(r)
        PROVE  Expecting'
    <2>1. \A q \in Requests : q # r => seen'[q] = seen[q] /\ collected'[q] = collected[q]
      BY <1>0, <1>5 DEF Reply
    <2>2. collected'[r] = <<>>
      BY <1>0, <1>5 DEF Reply
    <2>3. QED
      BY <1>5, <2>1, <2>2, ExpectingKept DEF Reply
  <1>6. ASSUME NEW r \in Requests, ListWeights(r)
        PROVE  Expecting'
    <2>1. \A q \in Requests : q # r => /\ seen'[q] = seen[q] /\ pending'[q] = pending[q]
                                       /\ pc'[q] = pc[q]
      BY <1>0, <1>6 DEF ListWeights, Go
    <2>2. collected' = collected /\ collected[r] = <<>> /\ pending[r] = {}
      BY <1>6 DEF ListWeights, Expecting
    <2>3. CASE Go(r, "tagged") /\ pending' = pending
      <3>1. \A q \in Requests : q # r => seen'[q] = seen[q] /\ collected'[q] = collected[q]
        BY <2>1, <2>2
      <3>2. pc[r] = "list"
        BY <1>6 DEF ListWeights
      <3>3. QED
        BY <2>2, <2>3, <3>1, <3>2, ExpectingKept
    <2>4. CASE Go(r, "search") /\ pending' = [pending EXCEPT ![r] = Searches(weights)]
      <3>1. pc'[r] = "search" /\ pending'[r] = Searches(weights) /\ seen'[r] = weights
        BY <1>0, <1>6, <2>4 DEF ListWeights, Go
      <3>2. PICK n \in Nat : n = Cardinality(Searches(weights))
        BY SearchesFinite, FS_CardinalityType
      <3>3. Cardinality(pending'[r]) = n /\ Len(collected'[r]) = 0
        BY <2>2, <3>1, <3>2
      <3>4. ASSUME NEW q \in Requests, NEW w \in Weights, pc'[q] = "search", seen'[q] = w
            PROVE  Len(collected'[q]) + Cardinality(pending'[q]) = Cardinality(Searches(w))
        <4>1. CASE q = r
          BY <3>1, <3>2, <3>3, <3>4, <4>1
        <4>2. CASE q # r
          BY <2>1, <2>2, <3>4, <4>2 DEF Expecting, AnswersCounted
        <4>3. QED
          BY <4>1, <4>2
      <3>5. AnswersCounted'
        BY <3>4 DEF AnswersCounted
      <3>6. QED
        BY <2>1, <2>2, <3>1, <3>5 DEF Expecting
    <2>5. QED
      BY <1>6, <2>3, <2>4 DEF ListWeights
  <1>7. ASSUME NEW r \in Requests, Answer(r)
        PROVE  Expecting'
    <2>1. PICK search \in pending[r], ok \in BOOLEAN :
              /\ pending' = [pending EXCEPT ![r] = @ \ {search}]
              /\ collected' = [collected EXCEPT ![r] =
                     Append(@, [search |-> search, ok |-> ok])]
      BY <1>7 DEF Answer
    <2>2. PICK a : a = [search |-> search, ok |-> ok]
      OBVIOUS
    <2>3. /\ pc' = pc /\ seen' = seen /\ pc[r] = "search"
          /\ \A q \in Requests : q # r => /\ pending'[q] = pending[q]
                                          /\ collected'[q] = collected[q]
      BY <1>0, <1>7, <2>1 DEF Answer
    <2>4. /\ pending'[r] = pending[r] \ {search}
          /\ collected'[r] = Append(collected[r], a)
      BY <1>0, <2>1, <2>2
    <2>5. pending[r] \subseteq Search
      BY <1>0
    <2>6. IsFiniteSet(pending[r])
      BY <2>5, SearchesFinite, FS_Subset, Zenon
    <2>7. /\ Cardinality(pending[r]) \in Nat
          /\ Cardinality(pending[r] \ {search}) = Cardinality(pending[r]) - 1
      BY <2>6, FS_CardinalityType, FS_RemoveElement
    <2>8. Len(Append(collected[r], a)) = Len(collected[r]) + 1 /\ Len(collected[r]) \in Nat
      BY <1>0
    <2>9. AnswersCounted'
      <3> SUFFICES ASSUME NEW q \in Requests, NEW w \in Weights,
                          pc[q] = "search", seen[q] = w
                   PROVE  Len(collected'[q]) + Cardinality(pending'[q])
                             = Cardinality(Searches(w))
        BY <2>3 DEF AnswersCounted
      <3>1. Len(collected[q]) + Cardinality(pending[q]) = Cardinality(Searches(w))
        BY DEF Expecting, AnswersCounted
      <3>2. CASE q = r
        <4>1. Len(collected'[r]) = Len(collected[r]) + 1
          BY <2>4, <2>8
        <4>2. Cardinality(pending'[r]) = Cardinality(pending[r]) - 1
          BY <2>4, <2>7
        <4>3. PICK m \in Nat, n \in Nat : m = Len(collected[r]) /\ n = Cardinality(pending[r])
          BY <2>7, <2>8
        <4>4. m + n = Cardinality(Searches(w)) /\ (m + 1) + (n - 1) = m + n
          BY <3>1, <3>2, <4>3
        <4>5. QED
          BY <3>2, <4>1, <4>2, <4>3, <4>4
      <3>3. CASE q # r
        BY <2>3, <3>1, <3>3
      <3>4. QED
        BY <3>2, <3>3
    <2>10. QED
      BY <2>3, <2>9 DEF Expecting
  <1>8. ASSUME NEW r \in Requests, Assemble(r)
        PROVE  Expecting'
    <2>1. pending[r] = {}
      BY <1>8, AllAnswered
    <2>2. \A q \in Requests : pc'[q] = IF q = r THEN "done" ELSE pc[q]
      BY <1>0, <1>8 DEF Assemble, Go
    <2>3. pending' = pending /\ collected' = collected /\ seen' = seen
      BY <1>8 DEF Assemble
    <2>4. AnswersCounted'
      BY <2>2, <2>3 DEF Expecting, AnswersCounted
    <2>5. QED
      BY <2>1, <2>2, <2>3, <2>4 DEF Expecting
  <1>9. ASSUME NEW r \in Requests, NEW tags \in Clicks, ClickBegin(r, tags)
        PROVE  Expecting'
    BY <1>9, ExpectingKept DEF ClickBegin, Expecting
  <1>10. ASSUME UNCHANGED <<pc, seen, pending, collected>>
         PROVE  Expecting'
    BY <1>10 DEF Expecting, AnswersCounted
  <1>11. ASSUME \/ \E s \in Saves : Ripen(s)
                \/ \E a \in Articles : ChangeStored(a)
                \/ UNCHANGED vars
         PROVE  Expecting'
    BY <1>10, <1>11 DEF Ripen, ChangeStored, vars, own
  <1>12. QED
    BY <1>1, <1>2, <1>3, <1>4, <1>5, <1>6, <1>7, <1>8, <1>9, <1>11
       DEF Next, Learning, Reading

\* Get is never left waiting for an answer that nobody is going to send: as long as it
\* has not read as many as there were searches, one is under way (service.go, Get).
THEOREM AnswersHold == Spec => []AnswersCounted
  <1>1. Init => Expecting
    BY DEF Init, Expecting, AnswersCounted
  <1>2. Expecting => AnswersCounted
    BY DEF Expecting
  <1>3. QED
    BY <1>1, <1>2, TypesInit, TypesStep, ExpectingStep, PTL DEF Spec

-----------------------------------------------------------------------------
(* Folds *)

\* What a fold over the subsets of a finite set computes: step by step, an element that
\* is chosen is taken away.  Steps are known for the values in V.
Folds(f, S, V, v0, c, g) ==
    \A s \in SUBSET S :
        IF s = {} THEN f[s] = v0
        ELSE f[s \ {c[s]}] \in V => f[s] = g[c[s]][f[s \ {c[s]}]]

LEMMA FoldExists ==
    ASSUME NEW S, IsFiniteSet(S), NEW V, NEW v0 \in V, NEW c, NEW g \in [S -> [V -> V]],
           \A s \in SUBSET S : s # {} => c[s] \in s
    PROVE  \E f \in [SUBSET S -> V] : Folds(f, S, V, v0, c, g)
  <1> DEFINE Right(f, n) ==
                 \A s \in SUBSET S : Cardinality(s) <= n =>
                     f[s] = IF s = {} THEN v0 ELSE g[c[s]][f[s \ {c[s]}]]
             A == {n \in Nat : \E f \in [SUBSET S -> V] : Right(f, n)}
  <1>0. \A s \in SUBSET S : IsFiniteSet(s) /\ Cardinality(s) \in Nat
                            /\ (Cardinality(s) = 0 <=> s = {})
    BY FS_Subset, FS_CardinalityType, FS_EmptySet
  <1>1. 0 \in A
    <2> DEFINE f == [s \in SUBSET S |-> v0]
    <2>1. f \in [SUBSET S -> V]
      OBVIOUS
    <2>2. Right(f, 0)
      BY <1>0
    <2> HIDE DEF f, Right
    <2>3. QED
      BY <2>1, <2>2
  <1>2. ASSUME NEW n \in A
        PROVE  n + 1 \in A
    <2>1. n \in Nat
      OBVIOUS
    <2>2. PICK f \in [SUBSET S -> V] : Right(f, n)
      OBVIOUS
    <2> DEFINE h == [s \in SUBSET S |->
                        IF Cardinality(s) <= n THEN f[s]
                        ELSE IF s = {} THEN v0 ELSE g[c[s]][f[s \ {c[s]}]]]
    <2>3. ASSUME NEW s \in SUBSET S, s # {}
          PROVE  /\ c[s] \in s /\ s \ {c[s]} \in SUBSET S
                 /\ Cardinality(s \ {c[s]}) = Cardinality(s) - 1
      BY <1>0, <2>3, FS_RemoveElement
    <2>4. h \in [SUBSET S -> V]
      <3>1. ASSUME NEW s \in SUBSET S, s # {}
            PROVE  g[c[s]][f[s \ {c[s]}]] \in V
        <4>1. c[s] \in S /\ f[s \ {c[s]}] \in V
          BY <2>3, <3>1
        <4>2. QED
          BY <4>1
      <3>2. QED
        BY <3>1
    <2>5. Right(h, n + 1)
      <3> SUFFICES ASSUME NEW s \in SUBSET S, Cardinality(s) <= n + 1
                   PROVE  h[s] = IF s = {} THEN v0 ELSE g[c[s]][h[s \ {c[s]}]]
        OBVIOUS
      <3>1. CASE s = {}
        <4>1. Cardinality(s) <= n
          BY <1>0, <2>1, <3>1
        <4>2. f[s] = v0
          BY <2>2, <3>1, <4>1
        <4>3. QED
          BY <3>1, <4>1, <4>2
      <3>2. CASE s # {}
        <4>1. Cardinality(s \ {c[s]}) <= n /\ s \ {c[s]} \in SUBSET S
          BY <1>0, <2>1, <2>3, <3>2
        <4>2. h[s \ {c[s]}] = f[s \ {c[s]}]
          BY <4>1
        <4>3. CASE Cardinality(s) <= n
          <5>1. h[s] = f[s]
            BY <4>3
          <5>2. f[s] = g[c[s]][f[s \ {c[s]}]]
            BY <2>2, <3>2, <4>3
          <5>3. QED
            BY <3>2, <4>2, <5>1, <5>2
        <4>4. CASE ~(Cardinality(s) <= n)
          <5>1. h[s] = g[c[s]][f[s \ {c[s]}]]
            BY <3>2, <4>4
          <5>2. QED
            BY <3>2, <4>2, <5>1
        <4>5. QED
          BY <4>3, <4>4
      <3>3. QED
        BY <3>1, <3>2
    <2> HIDE DEF h, Right
    <2>6. QED
      BY <2>1, <2>4, <2>5
  <1>3. Cardinality(S) \in A
    <2> HIDE DEF A
    <2>1. Nat \subseteq A
      BY <1>1, <1>2, CountingUp
    <2>2. QED
      BY <2>1, FS_CardinalityType
  <1>4. PICK f \in [SUBSET S -> V] : Right(f, Cardinality(S))
    BY <1>3
  <1>5. \A s \in SUBSET S : f[s] = IF s = {} THEN v0 ELSE g[c[s]][f[s \ {c[s]}]]
    BY <1>4, FS_Subset
  <1> HIDE DEF Right, A
  <1>6. QED
    BY <1>4, <1>5 DEF Folds

\* Each value of a fold is one that a step may give.
LEMMA FoldType ==
    ASSUME NEW S, IsFiniteSet(S), NEW V, NEW v0 \in V, NEW c, NEW g \in [S -> [V -> V]],
           \A s \in SUBSET S : s # {} => c[s] \in s,
           NEW f, Folds(f, S, V, v0, c, g)
    PROVE  \A s \in SUBSET S : f[s] \in V
  <1> DEFINE A == {n \in Nat : \A s \in SUBSET S : Cardinality(s) <= n => f[s] \in V}
  <1>0. \A s \in SUBSET S : IsFiniteSet(s) /\ Cardinality(s) \in Nat
                            /\ (Cardinality(s) = 0 <=> s = {})
    BY FS_Subset, FS_CardinalityType, FS_EmptySet
  <1>1. \A s \in SUBSET S :
            /\ s = {} => f[s] = v0
            /\ s # {} /\ f[s \ {c[s]}] \in V => f[s] = g[c[s]][f[s \ {c[s]}]]
    BY DEF Folds
  <1>2. 0 \in A
    <2>1. ASSUME NEW s \in SUBSET S, Cardinality(s) <= 0
          PROVE  f[s] \in V
      <3>1. s = {}
        BY <1>0, <2>1
      <3>2. QED
        BY <1>1, <3>1
    <2>2. QED
      BY <2>1
  <1>3. ASSUME NEW n \in A
        PROVE  n + 1 \in A
    <2>1. n \in Nat /\ n + 1 \in Nat
      OBVIOUS
    <2>2. ASSUME NEW s \in SUBSET S, Cardinality(s) <= n + 1, s # {}
          PROVE  f[s] \in V
      <3>1. c[s] \in S /\ s \ {c[s]} \in SUBSET S
        BY <2>2
      <3>2. Cardinality(s \ {c[s]}) = Cardinality(s) - 1
        BY <1>0, <2>2, FS_RemoveElement
      <3>3. Cardinality(s \ {c[s]}) <= n
        BY <1>0, <2>1, <2>2, <3>2
      <3>4. f[s \ {c[s]}] \in V
        BY <3>1, <3>3
      <3>5. g[c[s]] \in [V -> V] /\ f[s] = g[c[s]][f[s \ {c[s]}]]
        BY <1>1, <2>2, <3>1, <3>4
      <3>6. QED
        BY <3>4, <3>5
    <2>3. \A s \in SUBSET S : Cardinality(s) <= n + 1 => f[s] \in V
      BY <1>1, <2>2
    <2>4. QED
      BY <2>1, <2>3
  <1>4. Cardinality(S) \in A
    <2> HIDE DEF A
    <2>1. Nat \subseteq A
      BY <1>2, <1>3, CountingUp
    <2>2. QED
      BY <2>1, FS_CardinalityType
  <1>5. QED
    BY <1>4, FS_Subset

LEMMA TotalType ==
    ASSUME NEW w \in Weights, NEW a, a.tags \subseteq Tags
    PROVE  Total(w, a) \in Nat
  <1> DEFINE S == a.tags
             F == [t \in S |-> w[t]]
             c == [s \in SUBSET S |-> CHOOSE x \in s : TRUE]
             g == [x \in S |-> [v \in Nat |-> Least(MaxInt64, w[x] + v)]]
             Step(f) == [s \in SUBSET S |->
                            IF s = {} THEN 0
                            ELSE Least(MaxInt64, F[CHOOSE x \in s : TRUE]
                                                   + f[s \ {CHOOSE x \in s : TRUE}])]
  <1>0. IsFiniteSet(S)
    BY InterestAssumption, FS_Subset
  <1>1. \A s \in SUBSET S : s # {} => c[s] \in s
    OBVIOUS
  <1>2. \A x \in S : w[x] \in Nat /\ F[x] = w[x]
    <2>1. \A x \in Tags : w[x] \in 0..Scale
      BY DEF Weights
    <2>2. \A x \in S : x \in Tags
      OBVIOUS
    <2>3. Scale \in Nat
      BY InterestAssumption
    <2>4. \A x \in S : w[x] \in Nat
      BY <2>1, <2>2, <2>3
    <2>5. QED
      BY <2>4
  <1>3. g \in [S -> [Nat -> Nat]]
    <2>1. ASSUME NEW x \in S, NEW v \in Nat
          PROVE  Least(MaxInt64, w[x] + v) \in Nat
      <3>1. PICK y \in Nat : y = w[x]
        BY <1>2
      <3>2. MaxInt64 \in Nat
        BY RecommendationAssumption
      <3>3. QED
        BY <3>1, <3>2 DEF Least
    <2>2. QED
      BY <2>1
  <1>4. \A f : \A s \in SUBSET S : s # {} /\ f[s \ {c[s]}] \in Nat =>
            Step(f)[s] = g[c[s]][f[s \ {c[s]}]]
    BY <1>1, <1>2
  <1>5. \A f : f = Step(f) => Folds(f, S, Nat, 0, c, g)
    <2> SUFFICES ASSUME NEW f, f = Step(f), NEW s \in SUBSET S
                 PROVE  IF s = {} THEN f[s] = 0
                        ELSE f[s \ {c[s]}] \in Nat => f[s] = g[c[s]][f[s \ {c[s]}]]
      BY DEF Folds
    <2>1. s = {} => Step(f)[s] = 0
      OBVIOUS
    <2> HIDE DEF Step, c, g
    <2>2. QED
      BY <1>4, <2>1
  <1>6. \E f : f = Step(f)
    <2>1. PICK f \in [SUBSET S -> Nat] : Folds(f, S, Nat, 0, c, g)
      <3> HIDE DEF S, c, g
      <3>1. QED
        BY <1>0, <1>1, <1>3, FoldExists
    <2>2. \A s \in SUBSET S : f[s] = Step(f)[s]
      <3>1. \A s \in SUBSET S : s = {} => Step(f)[s] = 0
        OBVIOUS
      <3>2. \A s \in SUBSET S : s # {} => f[s \ {c[s]}] \in Nat
        BY <1>1
      <3> HIDE DEF Step, c, g, S
      <3>3. QED
        BY <1>4, <2>1, <3>1, <3>2 DEF Folds
    <2>3. Step(f) = [s \in SUBSET S |-> Step(f)[s]]
      OBVIOUS
    <2> HIDE DEF Step
    <2>4. f = [s \in SUBSET S |-> f[s]]
      OBVIOUS
    <2>5. QED
      BY <2>2, <2>3, <2>4
  <1>7. PICK f : f = (CHOOSE h : h = Step(h))
    OBVIOUS
  <1>8. Total(w, a) = f[S]
    BY <1>7 DEF Total, FoldFunction, FoldFunctionOnSet, MapThenFoldSet
  <1>9. f = Step(f)
    <2> HIDE DEF Step
    <2>1. QED
      BY <1>6, <1>7
  <1>10. Folds(f, S, Nat, 0, c, g)
    BY <1>5, <1>9
  <1> HIDE DEF S, c, g, Step
  <1>11. \A s \in SUBSET S : f[s] \in Nat
    BY <1>0, <1>1, <1>3, <1>10, FoldType
  <1>12. QED
    BY <1>8, <1>11

\* What a feed may list: an article as it is stored, or with the tags by which it was found
LEMMA ArticleType ==
    ASSUME NEW a \in Article
    PROVE  /\ a.url \in Nat /\ a.source \in Providers /\ a.tags \subseteq Tags
           /\ a.likes \in Nat /\ a.age \in Nat
  BY DEF Article

LEMMA ScoreType ==
    ASSUME NEW w \in Weights, NEW a \in Article
    PROVE  Score(w, a) \in Nat
  <1>1. PICK n \in Nat : n = Total(w, a)
    BY TotalType, ArticleType
  <1>2. PICK k \in Nat \ {0} : k = a.likes + 1
    BY ArticleType
  <1>3. n * k \in Nat /\ MaxInt64 \in Nat
    BY <1>2, RecommendationAssumption
  <1>4. QED
    BY <1>1, <1>2, <1>3 DEF Score

Ranking(w, S) == {p \in S \X S : Before(w, p[1], p[2])}

Distinct(S) == \A a, b \in S : a.url = b.url => a = b

\* Articles with different addresses are never equal in rank (ScoreArticles).
LEMMA BeforeIsOrder ==
    ASSUME NEW w \in Weights, NEW S, S \subseteq Article, Distinct(S)
    PROVE  IsOrder(Ranking(w, S), S)
  <1>1. \A a \in S : /\ Score(w, a) \in Nat /\ a.likes \in Nat
                     /\ a.age \in Nat /\ a.url \in Nat
    BY ScoreType, ArticleType
  <1>2. \A a \in S : ~Before(w, a, a)
    BY <1>1 DEF Before
  <1>3. \A a, b \in S : a = b \/ Before(w, a, b) \/ Before(w, b, a)
    BY <1>1 DEF Before, Distinct
  <1>4. \A a, b, c \in S : Before(w, a, b) /\ Before(w, b, c) => Before(w, a, c)
    BY <1>1 DEF Before
  <1>5. QED
    BY <1>2, <1>3, <1>4 DEF IsOrder, Ranking

-----------------------------------------------------------------------------
(* rankLimit and the popular articles *)

LEMMA SortedIs ==
    ASSUME NEW S, IsFiniteSet(S), NEW R, IsOrder(R, S), NEW s,
           s = CHOOSE t \in [1..Cardinality(S) -> S] :
                   \A i, j \in DOMAIN t : i < j => <<t[i], t[j]>> \in R
    PROVE  InOrder(s, S, R)
  <1>1. PICK t : InOrder(t, S, R)
    BY OrderExists
  <1>2. /\ t \in [1..Cardinality(S) -> S]
        /\ \A i, j \in DOMAIN t : i < j => <<t[i], t[j]>> \in R
    BY <1>1 DEF InOrder
  <1>3. /\ s \in [1..Cardinality(S) -> S]
        /\ \A i, j \in DOMAIN s : i < j => <<s[i], s[j]>> \in R
    BY <1>2
  <1>4. QED
    BY <1>3 DEF InOrder

\* What is known of the n best of S
IsRanked(l, k, n, S, w) ==
    /\ k \in Nat /\ l \in Seq(S) /\ Len(l) = k /\ DOMAIN l = 1..k
    /\ \A i, j \in 1..k : i < j => Before(w, l[i], l[j])
    /\ \A i, j \in 1..k : l[i] = l[j] => i = j
    /\ Range(l) = {a \in S : Cardinality({b \in S : Before(w, b, a)}) < n}
    /\ Cardinality(S) <= n => Range(l) = S
    /\ IsFiniteSet(Range(l)) /\ Cardinality(Range(l)) = k

LEMMA RankLimitIs ==
    ASSUME NEW w \in Weights, NEW S, IsFiniteSet(S), S \subseteq Article, Distinct(S),
           NEW n \in Nat
    PROVE  IsRanked(rankLimit(w, S, n), Least(n, Cardinality(S)), n, S, w)
  <1> DEFINE R == Ranking(w, S)
             s == CHOOSE t \in [1..Cardinality(S) -> S] :
                      \A i, j \in DOMAIN t : i < j => Before(w, t[i], t[j])
             l == rankLimit(w, S, n)
             k == Least(n, Cardinality(S))
  <1>1. IsOrder(R, S)
    BY BeforeIsOrder
  <1>2. \A a, b \in S : <<a, b>> \in R <=> Before(w, a, b)
    BY DEF Ranking
  <1>3. \A t \in [1..Cardinality(S) -> S] :
            (\A i, j \in DOMAIN t : i < j => Before(w, t[i], t[j]))
            <=> (\A i, j \in DOMAIN t : i < j => <<t[i], t[j]>> \in R)
    <2> SUFFICES ASSUME NEW t \in [1..Cardinality(S) -> S]
                 PROVE  \A i, j \in DOMAIN t : Before(w, t[i], t[j]) <=> <<t[i], t[j]>> \in R
      OBVIOUS
    <2> HIDE DEF R
    <2>1. QED
      BY <1>2
  <1>4. s = CHOOSE t \in [1..Cardinality(S) -> S] :
                \A i, j \in DOMAIN t : i < j => <<t[i], t[j]>> \in R
    <2> HIDE DEF R
    <2>1. QED
      BY <1>3
  <1>5. l = FirstOf(s, n)
    BY DEF rankLimit, Sorted
  <1> HIDE DEF R, s, l
  <1>6. InOrder(s, S, R)
    BY <1>1, <1>4, SortedIs
  <1>7. /\ k \in Nat /\ l \in Seq(S) /\ Len(l) = k /\ DOMAIN l = 1..k
        /\ \A i, j \in 1..k : i < j => <<l[i], l[j]>> \in R
        /\ \A i, j \in 1..k : l[i] = l[j] => i = j
        /\ Range(l) = {a \in S : Cardinality({b \in S : <<b, a>> \in R}) < n}
        /\ Cardinality(S) <= n => Range(l) = S
        /\ IsFiniteSet(Range(l)) /\ Cardinality(Range(l)) = k
    <2>1. IsFirst(l, k, n, S, R)
      BY <1>1, <1>5, <1>6, FirstOfOrder
    <2> HIDE DEF k
    <2>2. QED
      BY <2>1 DEF IsFirst
  <1>8. \A a \in S : {b \in S : <<b, a>> \in R} = {b \in S : Before(w, b, a)}
    BY <1>2
  <1>9. {a \in S : Cardinality({b \in S : <<b, a>> \in R}) < n}
            = {a \in S : Cardinality({b \in S : Before(w, b, a)}) < n}
    BY <1>8
  <1>10. \A i, j \in 1..k : i < j => Before(w, l[i], l[j])
    <2>1. \A i \in 1..k : l[i] \in S
      BY <1>7
    <2> HIDE DEF k
    <2>2. QED
      BY <1>2, <1>7, <2>1
  <1> HIDE DEF k
  <1>11. IsRanked(l, k, n, S, w)
    BY <1>7, <1>9, <1>10 DEF IsRanked
  <1>12. QED
    BY <1>11 DEF k, l

Window(source, window) == {a \in stored : a.source = source /\ a.age <= window}

\* ListPopular gives all articles of its window, or as many as it was asked for.
LEMMA PopularIs ==
    ASSUME stored \in SUBSET Articles, NEW source, NEW window
    PROVE  LET P == Popular(source, window)
               W == Window(source, window)
           IN  /\ P \subseteq W /\ W \subseteq Articles
               /\ IsFiniteSet(W) /\ IsFiniteSet(P)
               /\ Cardinality(W) \in Nat
               /\ Cardinality(P) = Least(PopularLimit, Cardinality(W))
               /\ Cardinality(W) <= PopularLimit => P = W
  <1> DEFINE W == Window(source, window)
             Liked(a, b) == IF a.likes # b.likes THEN a.likes > b.likes
                            ELSE IF a.age # b.age THEN a.age < b.age ELSE a.url > b.url
             R == {p \in W \X W : Liked(p[1], p[2])}
             s == CHOOSE t \in [1..Cardinality(W) -> W] :
                      \A i, j \in DOMAIN t : i < j => Liked(t[i], t[j])
  <1>0. /\ IsFiniteSet(Articles) /\ Articles \subseteq Article
        /\ \A a, b \in Articles : a.url = b.url => a = b
        /\ PopularLimit \in Nat
    BY RecommendationAssumption
  <1>1. W \subseteq Articles
    BY DEF Window
  <1>2. IsFiniteSet(W) /\ Cardinality(W) \in Nat
    BY <1>0, <1>1, FS_Subset, FS_CardinalityType
  <1>3. \A a \in W : a.likes \in Nat /\ a.age \in Nat /\ a.url \in Nat
    BY <1>0, <1>1, ArticleType
  <1>4. \A a, b \in W : <<a, b>> \in R <=> Liked(a, b)
    OBVIOUS
  <1>5. IsOrder(R, W)
    <2>1. \A a \in W : ~Liked(a, a)
      BY <1>3
    <2>2. \A a, b \in W : a = b \/ Liked(a, b) \/ Liked(b, a)
      BY <1>0, <1>1, <1>3
    <2>3. \A a, b, c \in W : Liked(a, b) /\ Liked(b, c) => Liked(a, c)
      BY <1>3
    <2> HIDE DEF R, Liked, W
    <2>4. QED
      BY <1>4, <2>1, <2>2, <2>3 DEF IsOrder
  <1>6. Popular(source, window) = Range(FirstOf(s, PopularLimit))
    BY DEF Popular, Sorted, Window
  <1> HIDE DEF Liked, W
  <1>7. \A t \in [1..Cardinality(W) -> W] :
            (\A i, j \in DOMAIN t : i < j => Liked(t[i], t[j]))
            <=> (\A i, j \in DOMAIN t : i < j => <<t[i], t[j]>> \in R)
    <2> SUFFICES ASSUME NEW t \in [1..Cardinality(W) -> W]
                 PROVE  \A i, j \in DOMAIN t : Liked(t[i], t[j]) <=> <<t[i], t[j]>> \in R
      OBVIOUS
    <2> HIDE DEF R
    <2>1. QED
      BY <1>4
  <1> HIDE DEF R
  <1>8. s = CHOOSE t \in [1..Cardinality(W) -> W] :
                \A i, j \in DOMAIN t : i < j => <<t[i], t[j]>> \in R
    BY <1>7
  <1> HIDE DEF s
  <1>9. InOrder(s, W, R)
    BY <1>2, <1>5, <1>8, SortedIs
  <1> DEFINE l == FirstOf(s, PopularLimit)
             k == Least(PopularLimit, Cardinality(W))
  <1>10. /\ k \in Nat /\ l \in Seq(W) /\ Len(l) = k /\ DOMAIN l = 1..k
         /\ \A i, j \in 1..k : i < j => <<l[i], l[j]>> \in R
         /\ \A i, j \in 1..k : l[i] = l[j] => i = j
         /\ Range(l) = {a \in W : Cardinality({b \in W : <<b, a>> \in R}) < PopularLimit}
         /\ Cardinality(W) <= PopularLimit => Range(l) = W
         /\ IsFiniteSet(Range(l)) /\ Cardinality(Range(l)) = k
    <2>1. IsFirst(l, k, PopularLimit, W, R)
      BY <1>0, <1>2, <1>5, <1>9, FirstOfOrder
    <2> HIDE DEF k, l
    <2>2. QED
      BY <2>1 DEF IsFirst
  <1>11. Popular(source, window) \subseteq W
    BY <1>6, <1>10
  <1>12. QED
    BY <1>1, <1>2, <1>6, <1>10, <1>11 DEF W

\* Stored articles have addresses of their own.
LEMMA StoredDistinct ==
    ASSUME NEW T, T \subseteq Articles
    PROVE  IsFiniteSet(T) /\ T \subseteq Article /\ Distinct(T) /\ Cardinality(T) \in Nat
  <1>1. /\ IsFiniteSet(Articles) /\ Articles \subseteq Article
        /\ \A a, b \in Articles : a.url = b.url => a = b
    BY RecommendationAssumption
  <1>2. IsFiniteSet(T) /\ Cardinality(T) \in Nat
    BY <1>1, FS_Subset, FS_CardinalityType
  <1>3. QED
    BY <1>1, <1>2 DEF Distinct

\* How many articles a list has: the room that the tagged ones T leave is filled, since
\* the popular ones that are read are enough even if all of T are among them.
LEMMA RoomIsFilled ==
    ASSUME NEW T, NEW W, NEW P, IsFiniteSet(T), IsFiniteSet(W), IsFiniteSet(P), P \subseteq W,
           Cardinality(P) = Least(PopularLimit, Cardinality(W)),
           Cardinality(W) <= PopularLimit => P = W,
           NEW k \in Nat, k = Cardinality(T), k < FeedLimit
    PROVE  k + Least(FeedLimit - k, Cardinality(P \ T)) = Least(FeedLimit, Cardinality(T \cup W))
  <1>0. PICK F \in Nat, L \in Nat : F = FeedLimit /\ L = PopularLimit /\ L >= 2 * F - 1
    BY RecommendationAssumption
  <1>1. PICK nW \in Nat, nP \in Nat, nR \in Nat, nA \in Nat, nU \in Nat, nV \in Nat :
            /\ nW = Cardinality(W) /\ nP = Cardinality(P) /\ nR = Cardinality(P \ T)
            /\ nA = Cardinality(T \cup W) /\ nU = Cardinality(P \cap T)
            /\ nV = Cardinality(W \ T)
    <2>1. /\ IsFiniteSet(P \ T) /\ IsFiniteSet(T \cup W) /\ IsFiniteSet(P \cap T)
          /\ IsFiniteSet(W \ T)
      BY FS_Subset, FS_Union, FS_Difference, FS_Intersection
    <2>2. QED
      BY <2>1, FS_CardinalityType
  <1>2. nR = nP - nU /\ nU <= k
    BY <1>1, FS_Difference, FS_Intersection
  <1>3. nA = k + nV
    <2> DEFINE V == W \ T
    <2>1. T \cup W = T \cup V /\ T \cap V = {}
      OBVIOUS
    <2>2. IsFiniteSet(V) /\ Cardinality({}) = 0
      BY FS_Difference, FS_EmptySet
    <2>3. Cardinality(V) = nV
      BY <1>1
    <2> HIDE DEF V
    <2>4. Cardinality(T \cup V) = Cardinality(T) + Cardinality(V) - Cardinality(T \cap V)
      BY <2>2, FS_Union
    <2>5. Cardinality(T \cup V) = k + nV - 0
      BY <2>1, <2>2, <2>3, <2>4
    <2>6. Cardinality(T \cup W) = Cardinality(T \cup V)
      BY <2>1, Zenon
    <2>7. QED
      BY <1>1, <2>5, <2>6
  <1>4. nW <= nA
    BY <1>1, FS_Union, FS_Subset
  <1>5. CASE nW <= L
    <2>1. nR = nV
      BY <1>0, <1>1, <1>5
    <2>2. QED
      BY <1>0, <1>1, <1>3, <2>1 DEF Least
  <1>6. CASE ~(nW <= L)
    <2>1. nP = L
      BY <1>0, <1>1, <1>6 DEF Least
    <2>2. nR >= F /\ nA >= F
      BY <1>0, <1>2, <1>4, <1>6, <2>1
    <2>3. QED
      BY <1>0, <1>1, <2>2 DEF Least
  <1>7. QED
    BY <1>5, <1>6

\* fillWithPopular: the tagged articles come first, then popular ones, and no article twice.
LEMMA FilledIs ==
    ASSUME stored \in SUBSET Articles, NEW source, NEW window,
           NEW w \in Weights, NEW T, T \subseteq Articles
    PROVE  LET l   == Filled(w, rankLimit(w, T, FeedLimit), source, window)
               all == T \cup Window(source, window)
           IN  /\ l \in Seq(all) /\ Len(l) = Least(FeedLimit, Cardinality(all))
               /\ \A i \in DOMAIN l : i <= Cardinality(T) <=> l[i] \in T
               /\ \A i, j \in DOMAIN l : l[i] = l[j] => i = j
  <1> DEFINE r   == rankLimit(w, T, FeedLimit)
             P   == Popular(source, window)
             W   == Window(source, window)
             Q   == {a \in P : a.url \notin {r[i].url : i \in DOMAIN r}}
             q   == rankLimit(w, Q, FeedLimit - Len(r))
             all == T \cup W
  <1>0. /\ FeedLimit \in Nat /\ Articles \subseteq Article
        /\ \A a, b \in Articles : a.url = b.url => a = b
    BY RecommendationAssumption
  <1>1. /\ P \subseteq W /\ W \subseteq Articles /\ IsFiniteSet(W) /\ IsFiniteSet(P)
        /\ Cardinality(W) \in Nat /\ Cardinality(P) = Least(PopularLimit, Cardinality(W))
        /\ Cardinality(W) <= PopularLimit => P = W
    BY PopularIs
  <1>2. PICK k \in Nat : k = Least(FeedLimit, Cardinality(T))
    BY <1>0, StoredDistinct, LeastType
  <1>3. IsRanked(r, k, FeedLimit, T, w)
    BY <1>0, <1>2, StoredDistinct, RankLimitIs
  <1>4. Filled(w, r, source, window) = r \o q
    BY DEF Filled
  <1> HIDE DEF r, P, W, q
  <1>5. /\ r \in Seq(T) /\ Len(r) = k /\ DOMAIN r = 1..k
        /\ \A i, j \in 1..k : r[i] = r[j] => i = j
        /\ Cardinality(T) <= FeedLimit => Range(r) = T
    BY <1>3 DEF IsRanked
  <1>6. k <= FeedLimit
    BY <1>0, <1>2, StoredDistinct, LeastType
  <1>7. Q = P \ Range(r)
    <2>1. ASSUME NEW a \in P, NEW i \in DOMAIN r, a.url = r[i].url
          PROVE  a = r[i]
      BY <1>0, <1>1, <1>5, <2>1
    <2>2. QED
      BY <2>1 DEF Range
  <1> HIDE DEF Q
  <1>8. PICK m \in Nat : m = Least(FeedLimit - k, Cardinality(Q))
    <2>1. Q \subseteq Articles
      BY <1>1, <1>7
    <2>2. FeedLimit - k \in Nat
      BY <1>0, <1>6
    <2>3. QED
      BY <2>1, <2>2, StoredDistinct, LeastType
  <1>9. IsRanked(q, m, FeedLimit - k, Q, w)
    <2>1. Q \subseteq Articles
      BY <1>1, <1>7
    <2>2. FeedLimit - k \in Nat
      BY <1>0, <1>6
    <2>3. q = rankLimit(w, Q, FeedLimit - k)
      BY <1>5 DEF q
    <2>4. QED
      BY <1>8, <2>1, <2>2, <2>3, StoredDistinct, RankLimitIs
  <1>10. /\ q \in Seq(Q) /\ Len(q) = m /\ DOMAIN q = 1..m
         /\ \A i, j \in 1..m : q[i] = q[j] => i = j
    BY <1>9 DEF IsRanked
  <1> DEFINE l == r \o q
  <1>11. /\ l \in Seq(all) /\ Len(l) = k + m /\ DOMAIN l = 1..(k + m)
         /\ \A i \in 1..k : l[i] = r[i] /\ r[i] \in T /\ r[i] \in Range(r)
         /\ \A i \in 1..(k + m) : i > k => l[i] = q[i - k] /\ i - k \in 1..m /\ q[i - k] \in Q
    <2>1. r \in Seq(all) /\ q \in Seq(all)
      BY <1>1, <1>5, <1>7, <1>10
    <2>2. \A i \in 1..k : r[i] \in T /\ r[i] \in Range(r)
      BY <1>5 DEF Range
    <2>3. \A i \in 1..m : q[i] \in Q
      BY <1>10
    <2> HIDE DEF all
    <2>4. l \in Seq(all) /\ Len(l) = k + m
      BY <1>5, <1>10, <2>1
    <2>5. \A i \in 1..(k + m) : l[i] = IF i <= k THEN r[i] ELSE q[i - k]
      BY <1>5, <1>10, <2>1
    <2> HIDE DEF l
    <2>6. QED
      BY <2>2, <2>3, <2>4, <2>5
  <1> HIDE DEF l
  <1>12. k + m = Least(FeedLimit, Cardinality(all))
    <2>1. PICK nT \in Nat, nA \in Nat, F \in Nat :
              /\ nT = Cardinality(T) /\ nA = Cardinality(all) /\ nT <= nA /\ F = FeedLimit
      <3>1. all \subseteq Articles /\ T \in SUBSET all
        BY <1>1
      <3>2. IsFiniteSet(all) /\ Cardinality(all) \in Nat /\ Cardinality(T) \in Nat
        BY <3>1, StoredDistinct
      <3>3. QED
        BY <1>0, <3>1, <3>2, FS_Subset
    <2>2. CASE nT < F
      <3>1. k = nT
        BY <1>2, <2>1, <2>2 DEF Least
      <3>2. Range(r) = T /\ Q = P \ T
        BY <1>5, <1>7, <2>1, <2>2
      <3>3. IsFiniteSet(T)
        BY StoredDistinct
      <3>4. k + Least(FeedLimit - k, Cardinality(P \ T))
                = Least(FeedLimit, Cardinality(T \cup W))
        BY <1>1, <2>1, <2>2, <3>1, <3>3, RoomIsFilled
      <3>5. QED
        BY <1>8, <3>2, <3>4
    <2>3. CASE ~(nT < F)
      <3>1. k = F
        BY <1>2, <2>1, <2>3 DEF Least
      <3>2. PICK nQ \in Nat : nQ = Cardinality(Q)
        <4>1. Q \subseteq Articles
          BY <1>1, <1>7
        <4>2. QED
          BY <4>1, StoredDistinct
      <3>3. m = 0
        BY <1>8, <2>1, <3>1, <3>2 DEF Least
      <3>4. QED
        BY <2>1, <2>3, <3>1, <3>3 DEF Least
    <2>4. QED
      BY <2>2, <2>3
  <1>13. ASSUME NEW i \in 1..(k + m), i > k
         PROVE  Range(r) = T /\ k = Cardinality(T)
    <2>1. PICK nT \in Nat, F \in Nat, nQ \in Nat :
              nT = Cardinality(T) /\ F = FeedLimit /\ nQ = Cardinality(Q)
      <3>1. Q \subseteq Articles
        BY <1>1, <1>7
      <3>2. QED
        BY <1>0, <3>1, StoredDistinct
    <2>2. m > 0
      BY <1>13
    <2>3. k < F
      BY <1>6, <1>8, <2>1, <2>2 DEF Least
    <2>4. nT = k
      BY <1>2, <2>1, <2>3 DEF Least
    <2>5. QED
      BY <1>5, <2>1, <2>3, <2>4
  <1>14. \A i \in DOMAIN l : i <= Cardinality(T) <=> l[i] \in T
    <2> SUFFICES ASSUME NEW i \in 1..(k + m)
                 PROVE  i <= Cardinality(T) <=> l[i] \in T
      BY <1>11
    <2>0. Cardinality(T) \in Nat /\ k <= Cardinality(T)
      BY <1>0, <1>2, StoredDistinct, LeastType
    <2>1. CASE i <= k
      BY <1>11, <2>0, <2>1
    <2>2. CASE i > k
      <3>1. Range(r) = T /\ k = Cardinality(T)
        BY <1>13, <2>2
      <3>2. l[i] \in Q
        BY <1>11, <2>2
      <3>3. l[i] \notin T
        BY <1>7, <3>1, <3>2
      <3>4. QED
        BY <2>0, <2>2, <3>1, <3>3
    <2>3. QED
      BY <2>1, <2>2
  <1>15. \A i, j \in DOMAIN l : l[i] = l[j] => i = j
    <2> SUFFICES ASSUME NEW i \in 1..(k + m), NEW j \in 1..(k + m), l[i] = l[j]
                 PROVE  i = j
      BY <1>11
    <2>1. CASE i <= k /\ j <= k
      BY <1>5, <1>11, <2>1
    <2>2. CASE i > k /\ j > k
      <3>1. i - k = j - k
        BY <1>10, <1>11, <2>2
      <3>2. QED
        BY <3>1
    <2>3. ASSUME NEW x \in 1..(k + m), NEW y \in 1..(k + m), x <= k, y > k
          PROVE  l[x] # l[y]
      <3>1. l[x] \in Range(r)
        BY <1>11, <2>3
      <3>2. l[y] \in Q
        BY <1>11, <2>3
      <3>3. QED
        BY <1>7, <3>1, <3>2
    <2>4. QED
      BY <2>1, <2>2, <2>3
  <1>16. QED
    BY <1>4, <1>11, <1>12, <1>14, <1>15 DEF l, r, W

-----------------------------------------------------------------------------
(* What has been found *)

Good(batches) == {batches[i].search : i \in {j \in DOMAIN batches : batches[j].ok}}

Telling(a, Q) == {q \in Q : q[1] = a.source /\ (q[2] # 0 => q[2] \in a.tags)}

\* The tags of an article, as far as the searches Q tell them
ToldTags(a, Q) ==
    IF a.source = "qiita" THEN a.tags ELSE {q[2] : q \in Telling(a, Q)} \ {0}

ToldOf(a, Q) ==
    IF a.source = "qiita" THEN a ELSE [a EXCEPT !.tags = {q[2] : q \in Telling(a, Q)} \ {0}]

Collected(Q, ages) ==
    {ToldOf(a, Q) : a \in {b \in Articles : b.age \in ages /\ Telling(b, Q) # {}}}

LEMMA SameArticle ==
    ASSUME NEW a \in Article, NEW b \in Article,
           a.url = b.url, a.source = b.source, a.tags = b.tags, a.likes = b.likes, a.age = b.age
    PROVE  a = b
  BY DEF Article

LEMMA RetagType ==
    ASSUME NEW a \in Article, NEW T \in SUBSET Tags
    PROVE  LET b == [a EXCEPT !.tags = T]
           IN  /\ b \in Article /\ b.tags = T /\ b.url = a.url /\ b.source = a.source
               /\ b.likes = a.likes /\ b.age = a.age
  BY DEF Article

LEMMA ToldIs ==
    ASSUME NEW a \in Article, NEW Q, Q \subseteq Search
    PROVE  /\ ToldOf(a, Q) \in Article /\ ToldOf(a, Q).tags = ToldTags(a, Q)
           /\ ToldOf(a, Q).url = a.url /\ ToldOf(a, Q).source = a.source
           /\ ToldOf(a, Q).likes = a.likes /\ ToldOf(a, Q).age = a.age
           /\ ToldTags(a, Q) \in SUBSET Tags
  <1>1. \A q \in Q : q[2] \in Tags \cup {0}
    BY DEF Search
  <1>2. {q[2] : q \in Telling(a, Q)} \ {0} \in SUBSET Tags
    BY <1>1 DEF Telling
  <1>3. CASE a.source = "qiita"
    BY <1>3, ArticleType DEF ToldOf, ToldTags
  <1>4. CASE a.source # "qiita"
    <2> DEFINE T == {q[2] : q \in Telling(a, Q)} \ {0}
    <2>1. ToldOf(a, Q) = [a EXCEPT !.tags = T] /\ ToldTags(a, Q) = T /\ T \in SUBSET Tags
      BY <1>2, <1>4 DEF ToldOf, ToldTags
    <2> HIDE DEF T
    <2>2. QED
      BY <2>1, RetagType
  <1>5. QED
    BY <1>3, <1>4

LEMMA ArticlesType ==
    Articles \subseteq Article /\ \A a, b \in Articles : a.url = b.url => a = b
  BY RecommendationAssumption

LEMMA CollectedType ==
    ASSUME NEW Q, Q \subseteq Search, NEW ages
    PROVE  Collected(Q, ages) \subseteq Article
  BY ToldIs, ArticlesType DEF Collected

LEMMA DedupeType ==
    ASSUME NEW kept, NEW items, kept \subseteq Article, items \subseteq Article
    PROVE  Dedupe(kept, items) \subseteq Article
  <1>1. ASSUME NEW a \in kept
        PROVE  [a EXCEPT !.tags = @ \cup UNION {b.tags : b \in {c \in items : c.url = a.url}}]
                   \in Article
    <2> DEFINE T == a.tags \cup UNION {b.tags : b \in {c \in items : c.url = a.url}}
    <2>1. T \in SUBSET Tags
      BY ArticleType
    <2> HIDE DEF T
    <2>2. [a EXCEPT !.tags = T] \in Article
      BY <2>1, RetagType
    <2>3. QED
      BY <2>2 DEF T
  <1>2. QED
    BY <1>1 DEF Dedupe

\* dedupe puts together what two sets of searches have found.
LEMMA DedupeCollected ==
    ASSUME NEW Q, NEW K, Q \subseteq Search, K \subseteq Search, NEW ages
    PROVE  Dedupe(Collected(Q, ages), Collected(K, ages)) = Collected(Q \cup K, ages)
  <1> DEFINE kept  == Collected(Q, ages)
             items == Collected(K, ages)
             both  == Collected(Q \cup K, ages)
             Merged(a) == [a EXCEPT !.tags = @ \cup UNION {b.tags : b \in {c \in items : c.url = a.url}}]
  <1>0. Q \cup K \subseteq Search
    OBVIOUS
  <1>1. ASSUME NEW a \in Article
        PROVE  /\ Telling(a, Q \cup K) = Telling(a, Q) \cup Telling(a, K)
               /\ ToldTags(a, Q \cup K) = ToldTags(a, Q) \cup ToldTags(a, K)
               /\ Telling(a, K) = {} => ToldTags(a, Q \cup K) = ToldTags(a, Q)
               /\ Telling(a, Q) = {} => ToldTags(a, Q \cup K) = ToldTags(a, K)
    <2>1. Telling(a, Q \cup K) = Telling(a, Q) \cup Telling(a, K)
      BY DEF Telling
    <2>2. QED
      BY <2>1 DEF ToldTags
  <1>2. ASSUME NEW x \in Articles, x.age \in ages, Telling(x, Q) # {}
        PROVE  Merged(ToldOf(x, Q)) = ToldOf(x, Q \cup K)
    <2> DEFINE a == ToldOf(x, Q)
               U == UNION {b.tags : b \in {c \in items : c.url = a.url}}
    <2>0. x \in Article
      BY ArticlesType
    <2>1. a \in Article /\ a.url = x.url /\ a.tags = ToldTags(x, Q) /\ a.source = x.source
          /\ a.likes = x.likes /\ a.age = x.age
      BY <2>0, ToldIs
    <2>2. \A c \in items : c.url = x.url => c = ToldOf(x, K) /\ Telling(x, K) # {}
      BY <2>0, ToldIs, ArticlesType DEF Collected
    <2>3. Telling(x, K) # {} => ToldOf(x, K) \in items /\ ToldOf(x, K).url = x.url
                                /\ ToldOf(x, K).tags = ToldTags(x, K)
      BY <1>2, <2>0, ToldIs DEF Collected
    <2>4. a.tags \cup U = ToldTags(x, Q \cup K)
      <3>1. CASE Telling(x, K) = {}
        <4>1. U = {}
          BY <2>1, <2>2, <3>1
        <4> HIDE DEF U, a
        <4>2. QED
          BY <2>0, <2>1, <3>1, <4>1, <1>1
      <3>2. CASE Telling(x, K) # {}
        <4>1. {c \in items : c.url = a.url} = {ToldOf(x, K)}
          <5> HIDE DEF a, items
          <5>1. QED
            BY <2>1, <2>2, <2>3, <3>2
        <4>2. U = ToldTags(x, K)
          <5>1. U = UNION {b.tags : b \in {ToldOf(x, K)}}
            BY <4>1
          <5> HIDE DEF U
          <5>2. QED
            BY <2>3, <3>2, <5>1
        <4> HIDE DEF U, a
        <4>3. QED
          BY <2>0, <2>1, <4>2, <1>1
      <3>3. QED
        BY <3>1, <3>2
    <2>5. ToldTags(x, Q \cup K) \in SUBSET Tags
      BY <1>0, <2>0, ToldIs
    <2>6. Merged(a) = [a EXCEPT !.tags = ToldTags(x, Q \cup K)]
      <3>1. Merged(a) = [a EXCEPT !.tags = a.tags \cup U]
        OBVIOUS
      <3> HIDE DEF Merged, U, a
      <3>2. QED
        BY <2>4, <3>1
    <2>7. PICK m : m = ToldOf(x, Q \cup K)
      OBVIOUS
    <2>8. /\ m \in Article /\ m.tags = ToldTags(x, Q \cup K)
          /\ m.url = x.url /\ m.source = x.source /\ m.likes = x.likes /\ m.age = x.age
      BY <1>0, <2>0, <2>7, ToldIs
    <2> HIDE DEF Merged, a
    <2>9. PICK n : n = [a EXCEPT !.tags = ToldTags(x, Q \cup K)]
      OBVIOUS
    <2>10. n \in Article /\ n.tags = ToldTags(x, Q \cup K) /\ n.url = a.url /\ n.source = a.source
           /\ n.likes = a.likes /\ n.age = a.age
      BY <2>1, <2>5, <2>9, RetagType
    <2>11. n = m
      BY <2>1, <2>8, <2>10, SameArticle
    <2>12. QED
      BY <2>6, <2>7, <2>9, <2>11 DEF a
  <1>3. ASSUME NEW y \in Articles, y.age \in ages, Telling(y, K) # {}
        PROVE  (~\E b \in kept : b.url = y.url) <=> Telling(y, Q) = {}
    BY <1>3, ToldIs, ArticlesType DEF Collected
  <1>4. ASSUME NEW y \in Articles, Telling(y, Q) = {}
        PROVE  ToldOf(y, K) = ToldOf(y, Q \cup K)
    <2>1. y \in Article /\ ToldTags(y, Q \cup K) = ToldTags(y, K)
      BY <1>4, ArticlesType, <1>1
    <2>2. PICK m, n : m = ToldOf(y, K) /\ n = ToldOf(y, Q \cup K)
      OBVIOUS
    <2>3. /\ m \in Article /\ m.tags = ToldTags(y, K)
          /\ m.url = y.url /\ m.source = y.source /\ m.likes = y.likes /\ m.age = y.age
      BY <2>1, <2>2, ToldIs
    <2>4. /\ n \in Article /\ n.tags = ToldTags(y, Q \cup K)
          /\ n.url = y.url /\ n.source = y.source /\ n.likes = y.likes /\ n.age = y.age
      BY <1>0, <2>1, <2>2, ToldIs
    <2>5. QED
      BY <2>1, <2>2, <2>3, <2>4, SameArticle
  <1>5. \A x \in Articles : Telling(x, Q \cup K) # {} <=> Telling(x, Q) # {} \/ Telling(x, K) # {}
    BY ArticlesType, <1>1
  <1>6. Dedupe(kept, items) = {Merged(a) : a \in kept}
                                  \cup {a \in items : ~\E b \in kept : b.url = a.url}
    BY DEF Dedupe
  <1>7. \A x \in Articles, J \in {Q, K} : ToldOf(x, J).url = x.url
    BY ToldIs, ArticlesType
  <1> HIDE DEF Merged
  <1>8. ASSUME NEW d \in both
        PROVE  d \in Dedupe(kept, items)
    <2>1. PICK x \in Articles : /\ x.age \in ages /\ Telling(x, Q \cup K) # {}
                                /\ d = ToldOf(x, Q \cup K)
      BY <1>8 DEF Collected
    <2>2. CASE Telling(x, Q) # {}
      <3>1. ToldOf(x, Q) \in kept
        BY <2>1, <2>2 DEF Collected
      <3>2. d = Merged(ToldOf(x, Q))
        BY <1>2, <2>1, <2>2
      <3> HIDE DEF kept, items
      <3>3. QED
        BY <1>6, <3>1, <3>2
    <2>3. CASE Telling(x, Q) = {}
      <3>1. Telling(x, K) # {}
        BY <1>5, <2>1, <2>3
      <3>2. ToldOf(x, K) \in items /\ ToldOf(x, K).url = x.url
        BY <1>7, <2>1, <3>1 DEF Collected
      <3>3. d = ToldOf(x, K)
        BY <1>4, <2>1, <2>3
      <3>4. ~\E b \in kept : b.url = x.url
        BY <1>3, <2>1, <2>3, <3>1
      <3> HIDE DEF kept, items
      <3>5. QED
        BY <1>6, <3>2, <3>3, <3>4
    <2>4. QED
      BY <2>2, <2>3
  <1>9. ASSUME NEW d \in Dedupe(kept, items)
        PROVE  d \in both
    <2>1. CASE \E a \in kept : d = Merged(a)
      <3>1. PICK a \in kept : d = Merged(a)
        BY <2>1
      <3>2. PICK x \in Articles : x.age \in ages /\ Telling(x, Q) # {} /\ a = ToldOf(x, Q)
        BY DEF Collected
      <3>3. d = ToldOf(x, Q \cup K) /\ Telling(x, Q \cup K) # {}
        BY <1>2, <1>5, <3>1, <3>2
      <3>4. QED
        BY <3>2, <3>3 DEF Collected
    <2>2. CASE d \in items /\ ~\E b \in kept : b.url = d.url
      <3>1. PICK x \in Articles : x.age \in ages /\ Telling(x, K) # {} /\ d = ToldOf(x, K)
        BY <2>2 DEF Collected
      <3>2. d.url = x.url
        BY <1>7, <3>1
      <3>3. Telling(x, Q) = {}
        <4> HIDE DEF kept
        <4>1. QED
          BY <1>3, <2>2, <3>1, <3>2
      <3>4. d = ToldOf(x, Q \cup K) /\ Telling(x, Q \cup K) # {}
        BY <1>4, <1>5, <3>1, <3>3
      <3>5. QED
        BY <3>1, <3>4 DEF Collected
    <2>3. QED
      <3> HIDE DEF kept, items
      <3>1. QED
        BY <1>6, <1>9, <2>1, <2>2
  <1>10. QED
    BY <1>8, <1>9

\* What one search has found
LEMMA FoundIs ==
    ASSUME NEW q \in Search, NEW ages
    PROVE  {a \in Found(q) : a.age \in ages} = Collected({q}, ages)
  <1> DEFINE Known(a) == IF a.source = "qiita" THEN a
                         ELSE [a EXCEPT !.tags = IF q[2] = 0 THEN {} ELSE {q[2]}]
             B == {b \in Articles : b.source = q[1] /\ (q[2] # 0 => q[2] \in b.tags)}
  <1>1. Found(q) = {Known(a) : a \in B}
    BY DEF Found
  <1>2. \A a \in Articles : a \in B <=> Telling(a, {q}) # {}
    BY DEF Telling
  <1>3. \A a \in B : Telling(a, {q}) = {q}
    BY DEF Telling
  <1>4. ASSUME NEW a \in B
        PROVE  Known(a) = ToldOf(a, {q}) /\ Known(a).age = a.age
    <2>1. {p[2] : p \in Telling(a, {q})} \ {0} = IF q[2] = 0 THEN {} ELSE {q[2]}
      BY <1>3
    <2>2. Known(a) = ToldOf(a, {q})
      BY <2>1 DEF ToldOf
    <2>3. a \in Article
      BY ArticlesType
    <2>4. QED
      BY <2>2, <2>3, ToldIs
  <1> HIDE DEF Known, B
  <1>5. {a \in Found(q) : a.age \in ages} = {Known(a) : a \in {b \in B : b.age \in ages}}
    BY <1>1, <1>4
  <1>6. {b \in B : b.age \in ages} = {b \in Articles : b.age \in ages /\ Telling(b, {q}) # {}}
    BY <1>2 DEF B
  <1>7. {Known(a) : a \in {b \in B : b.age \in ages}}
            = {ToldOf(a, {q}) : a \in {b \in B : b.age \in ages}}
    BY <1>4
  <1>8. QED
    BY <1>5, <1>6, <1>7 DEF Collected

LEMMA MaxIs ==
    ASSUME NEW S, IsFiniteSet(S), S # {}, S \subseteq Nat
    PROVE  Max(S) \in S /\ \A x \in S : Max(S) >= x
  <1> DEFINE R == {p \in Nat \X Nat : p[1] < p[2]}
  <1>1. IsOrder(R, S)
    BY DEF IsOrder
  <1>2. \A x, y \in S : <<x, y>> \in R <=> x < y
    OBVIOUS
  <1> HIDE DEF R
  <1>3. PICK x \in S : \A y \in S : y = x \/ <<y, x>> \in R
    BY <1>1, LastExists
  <1>4. ASSUME NEW y \in S
        PROVE  x >= y
    <2>1. x \in Nat /\ y \in Nat
      OBVIOUS
    <2>2. y = x \/ y < x
      BY <1>2, <1>3
    <2>3. QED
      BY <2>1, <2>2
  <1>5. QED
    BY <1>4 DEF Max

\* The answers are put together one after the other, and what has been gathered is what
\* the good ones among them tell: their order is of no account (collect of service.go).
LEMMA GatheredIs ==
    ASSUME NEW batches \in Seq(Answers), NEW searches, NEW ages
    PROVE  Gathered(batches, searches, ages) = Collected(Good(batches) \cap searches, ages)
  <1> DEFINE S == DOMAIN batches
             V == SUBSET Article
             op(v, b) == IF b.ok /\ b.search \in searches
                         THEN Dedupe(v, {a \in Found(b.search) : a.age \in ages}) ELSE v
             c == [s \in SUBSET S |-> Max(s)]
             g == [i \in S |-> [v \in V |-> op(v, batches[i])]]
             Step(f) == [s \in SUBSET S |->
                            IF s = {} THEN {} ELSE op(f[s \ {Max(s)}], batches[Max(s)])]
             Q(n) == {batches[i].search : i \in {j \in 1..n : batches[j].ok}} \cap searches
  <1>0. PICK L \in Nat : L = Len(batches) /\ S = 1..L
    OBVIOUS
  <1>1. IsFiniteSet(S) /\ S \subseteq Nat
    <2>1. IsFiniteSet(1..L)
      BY FS_Interval
    <2>2. QED
      BY <1>0, <2>1
  <1>2. \A i \in S : batches[i].search \in Search
    <2>1. \A i \in S : batches[i] \in Answers
      OBVIOUS
    <2>2. QED
      BY <2>1 DEF Answers
  <1>3. \A s \in SUBSET S : s # {} => c[s] \in s /\ c[s] = Max(s)
    BY <1>1, MaxIs, FS_Subset
  <1>4. g \in [S -> [V -> V]]
    <2>1. ASSUME NEW i \in S, NEW v \in V
          PROVE  op(v, batches[i]) \in V
      <3>0. PICK q \in Search : q = batches[i].search
        BY <1>2
      <3>1. {a \in Found(q) : a.age \in ages} \subseteq Article
        <4>1. {q} \subseteq Search
          OBVIOUS
        <4>2. QED
          BY <4>1, FoundIs, CollectedType
      <3>2. QED
        BY <3>0, <3>1, DedupeType
    <2> HIDE DEF op, S, V
    <2>2. QED
      BY <2>1
  <1> HIDE DEF op
  <1>5. \A f : \A s \in SUBSET S : s # {} /\ f[s \ {c[s]}] \in V =>
            Step(f)[s] = g[c[s]][f[s \ {c[s]}]]
    <2> HIDE DEF V
    <2>1. QED
      BY <1>3
  <1>6. \A f : f = Step(f) => Folds(f, S, V, {}, c, g)
    <2> SUFFICES ASSUME NEW f, f = Step(f), NEW s \in SUBSET S
                 PROVE  IF s = {} THEN f[s] = {}
                        ELSE f[s \ {c[s]}] \in V => f[s] = g[c[s]][f[s \ {c[s]}]]
      BY DEF Folds
    <2>1. s = {} => Step(f)[s] = {}
      OBVIOUS
    <2> HIDE DEF Step, c, g, V
    <2>2. QED
      BY <1>5, <2>1
  <1>7. \E f : f = Step(f)
    <2>1. PICK f \in [SUBSET S -> V] : Folds(f, S, V, {}, c, g)
      <3>1. {} \in V
        OBVIOUS
      <3> HIDE DEF S, c, g, V
      <3>2. QED
        BY <1>1, <1>3, <1>4, <3>1, FoldExists
    <2>2. \A s \in SUBSET S : f[s] = Step(f)[s]
      <3>1. \A s \in SUBSET S : s = {} => Step(f)[s] = {}
        OBVIOUS
      <3>2. \A s \in SUBSET S : s # {} => f[s \ {c[s]}] \in V
        BY <1>3
      <3>3. \A s \in SUBSET S : s # {} => f[s] = g[c[s]][f[s \ {c[s]}]]
        <4> HIDE DEF Step, c, g, S, V
        <4>1. QED
          BY <2>1, <3>2 DEF Folds
      <3>4. f[{}] = {}
        <4> HIDE DEF Step, c, g, V
        <4>1. QED
          BY <2>1 DEF Folds
      <3> HIDE DEF Step, c, g, S, V
      <3>5. QED
        BY <1>5, <3>1, <3>2, <3>3, <3>4
    <2>3. Step(f) = [s \in SUBSET S |-> Step(f)[s]]
      OBVIOUS
    <2> HIDE DEF Step, V
    <2>4. f = [s \in SUBSET S |-> f[s]]
      OBVIOUS
    <2>5. QED
      BY <2>2, <2>3, <2>4
  <1>8. PICK f : f = (CHOOSE h : h = Step(h))
    OBVIOUS
  <1>9. Gathered(batches, searches, ages) = f[S]
    BY <1>8 DEF Gathered, FoldLeft, MapThenFoldSet, op
  <1>10. f = Step(f)
    <2> HIDE DEF Step
    <2>1. QED
      BY <1>7, <1>8
  <1>11. Folds(f, S, V, {}, c, g)
    BY <1>6, <1>10
  <1>12. \A s \in SUBSET S : f[s] \in V
    <2>1. {} \in V
      OBVIOUS
    <2> HIDE DEF S, c, g, V
    <2>2. QED
      BY <1>1, <1>3, <1>4, <1>11, <2>1, FoldType
  <1>13. /\ f[{}] = {}
         /\ \A s \in SUBSET S : s # {} => f[s] = op(f[s \ {Max(s)}], batches[Max(s)])
    <2>1. /\ Step(f)[{}] = {}
          /\ \A s \in SUBSET S : s # {} => Step(f)[s] = op(f[s \ {Max(s)}], batches[Max(s)])
      OBVIOUS
    <2> HIDE DEF Step
    <2>2. QED
      BY <1>10, <2>1
  <1> HIDE DEF S, V, c, g, Step
  <1> DEFINE A == {n \in Nat : n <= L => f[1..n] = Collected(Q(n), ages)}
  <1>14. 0 \in A
    <2>1. 1..0 = {}
      OBVIOUS
    <2>2. Collected(Q(0), ages) = {}
      BY <2>1 DEF Collected, Telling
    <2>3. f[1..0] = {}
      BY <1>13, <2>1
    <2>4. QED
      BY <2>2, <2>3
  <1>15. ASSUME NEW n \in A
         PROVE  n + 1 \in A
    <2> SUFFICES ASSUME n + 1 <= L
                 PROVE  f[1..(n + 1)] = Collected(Q(n + 1), ages)
      OBVIOUS
    <2>1. n \in Nat /\ f[1..n] = Collected(Q(n), ages)
      <3> HIDE DEF Q
      <3>1. n \in Nat /\ (n <= L => f[1..n] = Collected(Q(n), ages))
        OBVIOUS
      <3>2. n <= L
        BY <1>0, <3>1
      <3>3. QED
        BY <3>1, <3>2
    <2> HIDE DEF A
    <2>2. 1..(n + 1) \in SUBSET S /\ n + 1 \in S /\ n + 1 \in 1..(n + 1)
      BY <1>0, <2>1
    <2>3. Max(1..(n + 1)) = n + 1
      <3>1. PICK m \in Nat : m = Max(1..(n + 1)) /\ m \in 1..(n + 1)
                             /\ \A x \in 1..(n + 1) : m >= x
        BY <1>1, <2>1, <2>2, MaxIs, FS_Subset
      <3>2. QED
        BY <2>1, <2>2, <3>1
    <2>4. 1..(n + 1) \ {n + 1} = 1..n
      BY <2>1
    <2>5. f[1..(n + 1)] = op(f[1..n], batches[n + 1])
      BY <1>13, <2>2, <2>3, <2>4
    <2>6. PICK b : b = batches[n + 1] /\ b.search \in Search
      BY <1>2, <2>2
    <2>7. Q(n) \subseteq Search
      <3>1. \A j \in 1..n : batches[j].search \in Search
        BY <1>0, <1>2, <2>1
      <3>2. QED
        BY <3>1
    <2>8. CASE b.ok /\ b.search \in searches
      <3>1. Q(n + 1) = Q(n) \cup {b.search}
        BY <2>1, <2>4, <2>6, <2>8
      <3>2. op(f[1..n], b)
                = Dedupe(f[1..n], {a \in Found(b.search) : a.age \in ages})
        BY <2>8 DEF op
      <3> HIDE DEF Q
      <3>3. {a \in Found(b.search) : a.age \in ages} = Collected({b.search}, ages)
        BY <2>6, FoundIs
      <3>4. Dedupe(Collected(Q(n), ages), Collected({b.search}, ages))
                = Collected(Q(n) \cup {b.search}, ages)
        BY <2>6, <2>7, DedupeCollected
      <3>5. QED
        BY <2>1, <2>5, <2>6, <3>1, <3>2, <3>3, <3>4
    <2>9. CASE ~(b.ok /\ b.search \in searches)
      <3>1. Q(n + 1) = Q(n)
        BY <2>1, <2>4, <2>6, <2>9
      <3>2. op(f[1..n], b) = f[1..n]
        BY <2>9 DEF op
      <3>3. QED
        BY <2>1, <2>5, <2>6, <3>1, <3>2
    <2>10. QED
      BY <2>8, <2>9
  <1>16. L \in A
    <2> HIDE DEF A
    <2>1. Nat \subseteq A
      BY <1>14, <1>15, CountingUp
    <2>2. QED
      BY <2>1
  <1>17. Q(L) = Good(batches) \cap searches
    BY <1>0 DEF Good, S
  <1> HIDE DEF Q
  <1>18. f[1..L] = Collected(Q(L), ages)
    BY <1>16
  <1>19. QED
    BY <1>0, <1>9, <1>17, <1>18

-----------------------------------------------------------------------------
(* The candidates of a feed *)

LEMMA ToldIsCollected ==
    ASSUME NEW batches
    PROVE  Told(batches) = Collected(Good(batches), Nat)
  <1>1. \A a \in Articles : a.age \in Nat
    BY ArticlesType, ArticleType
  <1>2. QED
    BY <1>1 DEF Told, Collected, Good, Telling, ToldOf

LEMMA GoodType ==
    ASSUME NEW batches \in Seq(Answers)
    PROVE  Good(batches) \subseteq Search
  <1>1. \A i \in DOMAIN batches : batches[i] \in Answers
    OBVIOUS
  <1>2. QED
    BY <1>1 DEF Good, Answers

\* Searches of Qiita tell of articles of Qiita.
LEMMA QiitaTold ==
    ASSUME NEW G, G \subseteq Search, NEW a \in Articles
    PROVE  /\ Telling(a, G \cap OfQiita) # {} <=> a.source = "qiita" /\ Telling(a, G) # {}
           /\ a.source = "qiita" => ToldOf(a, G \cap OfQiita) = ToldOf(a, G)
  <1>1. \A q \in G : q[1] = "qiita" <=> q \in OfQiita
    BY DEF OfQiita, Search, Providers
  <1>2. QED
    BY <1>1 DEF Telling, ToldOf

\* Searches of Zenn tell of articles of Zenn, and those with a tag of its tags.
LEMMA ZennTold ==
    ASSUME NEW G, G \subseteq Search, NEW a \in Articles
    PROVE  LET T == G \cap TaggedZenn
               P == G \cap PopularZenn
           IN  /\ a.source # "zenn" => Telling(a, T) = {} /\ Telling(a, T \cup P) = {}
               /\ a.source = "zenn" =>
                      /\ ToldOf(a, T) = ToldOf(a, G) /\ ToldOf(a, T \cup P) = ToldOf(a, G)
                      /\ Telling(a, T) # {} <=> ToldOf(a, G).tags # {}
                      /\ Telling(a, T \cup P) # {} <=> Telling(a, G) # {}
  <1> DEFINE T == G \cap TaggedZenn
             P == G \cap PopularZenn
  <1>1. \A q \in G : /\ q[1] = "zenn" <=> q \in T \cup P
                     /\ q \in T <=> q[1] = "zenn" /\ q[2] # 0
                     /\ q \in P => q[1] = "zenn"
    BY RecommendationAssumption DEF TaggedZenn, PopularZenn, Search, Providers
  <1>2. T \subseteq G /\ P \subseteq G
    OBVIOUS
  <1> HIDE DEF T, P
  <1>3. CASE a.source # "zenn"
    BY <1>1, <1>2, <1>3 DEF Telling, T, P
  <1>4. CASE a.source = "zenn"
    <2>1. Telling(a, T \cup P) = Telling(a, G)
      BY <1>1, <1>2, <1>4 DEF Telling
    <2>2. Telling(a, T) = {q \in Telling(a, G) : q[2] # 0}
      BY <1>1, <1>2, <1>4 DEF Telling
    <2>3. {q[2] : q \in Telling(a, T)} \ {0} = {q[2] : q \in Telling(a, G)} \ {0}
      BY <2>2
    <2>4. ToldOf(a, T) = ToldOf(a, G) /\ ToldOf(a, T \cup P) = ToldOf(a, G)
      BY <1>4, <2>1, <2>3 DEF ToldOf
    <2>5. ToldOf(a, G).tags = {q[2] : q \in Telling(a, G)} \ {0}
      BY <1>4, ToldIs, ArticlesType DEF ToldTags
    <2>6. Telling(a, T) # {} <=> ToldOf(a, G).tags # {}
      BY <2>2, <2>5
    <2>7. QED
      BY <1>4, <2>1, <2>4, <2>6 DEF T, P
  <1>5. QED
    BY <1>3, <1>4 DEF T, P

LEMMA QiitaCandidates ==
    ASSUME NEW G, G \subseteq Search
    PROVE  Collected(G \cap OfQiita, 0..QiitaWindow)
               = {a \in Collected(G, Nat) : a.source = "qiita" /\ a.age <= QiitaWindow}
  <1>1. \A a \in Articles : a.age \in 0..QiitaWindow <=> a.age \in Nat /\ a.age <= QiitaWindow
    BY ArticlesType, ArticleType, RecommendationAssumption
  <1>2. \A a \in Articles : ToldOf(a, G).source = a.source /\ ToldOf(a, G).age = a.age
                            /\ a.age \in Nat
    BY ToldIs, ArticlesType, ArticleType
  <1>3. ASSUME NEW x \in Collected(G \cap OfQiita, 0..QiitaWindow)
        PROVE  x \in {a \in Collected(G, Nat) : a.source = "qiita" /\ a.age <= QiitaWindow}
    <2>1. PICK a \in Articles : /\ a.age \in 0..QiitaWindow
                                /\ Telling(a, G \cap OfQiita) # {} /\ x = ToldOf(a, G \cap OfQiita)
      BY <1>3 DEF Collected
    <2>2. a.source = "qiita" /\ Telling(a, G) # {} /\ x = ToldOf(a, G)
      BY <2>1, QiitaTold
    <2>3. x \in Collected(G, Nat)
      BY <1>2, <2>2 DEF Collected
    <2>4. QED
      BY <1>1, <1>2, <2>1, <2>2, <2>3
  <1>4. ASSUME NEW x \in Collected(G, Nat), x.source = "qiita", x.age <= QiitaWindow
        PROVE  x \in Collected(G \cap OfQiita, 0..QiitaWindow)
    <2>1. PICK a \in Articles : Telling(a, G) # {} /\ x = ToldOf(a, G)
      BY <1>4 DEF Collected
    <2>2. a.source = "qiita" /\ a.age \in 0..QiitaWindow
      BY <1>1, <1>2, <1>4, <2>1
    <2>3. Telling(a, G \cap OfQiita) # {} /\ x = ToldOf(a, G \cap OfQiita)
      BY <2>1, <2>2, QiitaTold
    <2>4. QED
      BY <2>2, <2>3 DEF Collected
  <1>5. QED
    BY <1>3, <1>4

\* The articles of Zenn that are listed, if none is fresh among those that a tag has found
ZennListed(all) ==
    LET zenn  == {a \in all : a.source = "zenn"}
        old   == {a \in zenn : a.age > ZennWindow /\ a.tags # {}}
        fresh == {a \in zenn : a.age <= ZennWindow}
        byTag == {a \in fresh : a.tags # {}}
    IN  IF byTag = {} THEN old \cup fresh ELSE fresh

LEMMA ZennCandidatesAre ==
    ASSUME NEW batches \in Seq(Answers)
    PROVE  ZennCandidates(batches) = ZennListed(Told(batches))
  <1> DEFINE G == Good(batches)
             T == G \cap TaggedZenn
             P == G \cap PopularZenn
             all == Collected(G, Nat)
             zenn == {a \in all : a.source = "zenn"}
             fresh == {a \in zenn : a.age <= ZennWindow}
             byTag == {a \in fresh : a.tags # {}}
             old == {a \in zenn : a.age > ZennWindow /\ a.tags # {}}
  <1>0. G \subseteq Search
    BY GoodType
  <1> HIDE DEF G
  <1>1. /\ Gathered(batches, TaggedZenn, FreshAges) = Collected(T, FreshAges)
        /\ Gathered(batches, TaggedZenn, OldAges) = Collected(T, OldAges)
        /\ Gathered(batches, PopularZenn, FreshAges) = Collected(P, FreshAges)
    BY GatheredIs DEF G
  <1>2. \A a \in Articles : /\ ToldOf(a, G).source = a.source /\ ToldOf(a, G).age = a.age
                            /\ ToldOf(a, G).url = a.url
                            /\ a.age \in Nat
    BY <1>0, ToldIs, ArticlesType, ArticleType
  <1>3. \A a \in Articles : /\ a.age \in FreshAges <=> a.age <= ZennWindow
                            /\ a.age \in OldAges <=> a.age > ZennWindow
    BY <1>2, RecommendationAssumption DEF FreshAges, OldAges
  <1>4. \A a \in Articles :
            /\ a.source # "zenn" => Telling(a, T) = {} /\ Telling(a, T \cup P) = {}
            /\ a.source = "zenn" =>
                   /\ ToldOf(a, T) = ToldOf(a, G) /\ ToldOf(a, T \cup P) = ToldOf(a, G)
                   /\ Telling(a, T) # {} <=> ToldOf(a, G).tags # {}
                   /\ Telling(a, T \cup P) # {} <=> Telling(a, G) # {}
    BY <1>0, ZennTold
  <1>5. T \subseteq Search /\ P \subseteq Search
    BY <1>0
  <1> HIDE DEF T, P
  <1>6. ASSUME NEW x
        PROVE  x \in Collected(T \cup P, FreshAges) <=> x \in fresh
    <2>1. x \in Collected(T \cup P, FreshAges)
              <=> \E a \in Articles : a.age \in FreshAges /\ Telling(a, T \cup P) # {}
                                      /\ x = ToldOf(a, T \cup P)
      BY DEF Collected
    <2>2. x \in fresh
              <=> \E a \in Articles : /\ a.age \in Nat /\ Telling(a, G) # {} /\ x = ToldOf(a, G)
                                      /\ x.source = "zenn" /\ x.age <= ZennWindow
      BY DEF Collected
    <2>3. QED
      BY <1>2, <1>3, <1>4, <2>1, <2>2
  <1>7. ASSUME NEW x
        PROVE  x \in Collected(T, FreshAges) <=> x \in byTag
    <2>1. x \in Collected(T, FreshAges)
              <=> \E a \in Articles : a.age \in FreshAges /\ Telling(a, T) # {}
                                      /\ x = ToldOf(a, T)
      BY DEF Collected
    <2>2. x \in byTag
              <=> \E a \in Articles : /\ a.age \in Nat /\ Telling(a, G) # {} /\ x = ToldOf(a, G)
                                      /\ x.source = "zenn" /\ x.age <= ZennWindow /\ x.tags # {}
      BY DEF Collected
    <2>3. \A a \in Articles : Telling(a, T) # {} => Telling(a, G) # {}
      BY DEF Telling, T
    <2>4. QED
      BY <1>2, <1>3, <1>4, <2>1, <2>2, <2>3
  <1>8. ASSUME NEW x
        PROVE  x \in Collected(T, OldAges) <=> x \in old
    <2>1. x \in Collected(T, OldAges)
              <=> \E a \in Articles : a.age \in OldAges /\ Telling(a, T) # {}
                                      /\ x = ToldOf(a, T)
      BY DEF Collected
    <2>2. x \in old
              <=> \E a \in Articles : /\ a.age \in Nat /\ Telling(a, G) # {} /\ x = ToldOf(a, G)
                                      /\ x.source = "zenn" /\ x.age > ZennWindow /\ x.tags # {}
      BY DEF Collected
    <2>3. \A a \in Articles : Telling(a, T) # {} => Telling(a, G) # {}
      BY DEF Telling, T
    <2>4. QED
      BY <1>2, <1>3, <1>4, <2>1, <2>2, <2>3
  <1>9. Dedupe(Collected(T, FreshAges), Collected(P, FreshAges)) = fresh
    <2>1. Dedupe(Collected(T, FreshAges), Collected(P, FreshAges))
              = Collected(T \cup P, FreshAges)
      BY <1>5, DedupeCollected
    <2> HIDE DEF fresh
    <2>2. QED
      BY <1>6, <2>1
  <1>10. Collected(T, FreshAges) = byTag /\ Collected(T, OldAges) = old
    <2> HIDE DEF byTag, old
    <2>1. QED
      BY <1>7, <1>8
  <1>11. ASSUME byTag = {}
         PROVE  Dedupe(old, Collected(P, FreshAges)) = old \cup fresh
    <2>1. Collected(P, FreshAges) = fresh
      <3>1. Dedupe({}, Collected(P, FreshAges)) = Collected(P, FreshAges)
        BY DEF Dedupe
      <3> HIDE DEF byTag, fresh
      <3>2. QED
        BY <1>9, <1>10, <1>11, <3>1
    <2>2. old \subseteq Article /\ fresh \subseteq Article
      BY <1>0, CollectedType
    <2>3. \A a \in old, b \in fresh : a.url # b.url
      <3>1. ASSUME NEW a \in old, NEW b \in fresh, a.url = b.url
            PROVE  FALSE
        <4>1. PICK x \in Articles : a = ToldOf(x, G)
          BY DEF Collected
        <4>2. PICK y \in Articles : b = ToldOf(y, G)
          BY DEF Collected
        <4>3. x = y
          BY <1>2, <3>1, <4>1, <4>2, ArticlesType
        <4>4. a.age > ZennWindow /\ b.age <= ZennWindow
          OBVIOUS
        <4>5. QED
          BY <1>2, <4>1, <4>2, <4>3, <4>4, RecommendationAssumption
      <3>2. QED
        BY <3>1
    <2> HIDE DEF old, fresh
    <2>4. ASSUME NEW a \in old
          PROVE  [a EXCEPT !.tags = @ \cup UNION {b.tags : b \in {c \in fresh : c.url = a.url}}] = a
      <3>1. UNION {b.tags : b \in {c \in fresh : c.url = a.url}} = {}
        BY <2>3
      <3>2. [a EXCEPT !.tags = a.tags \cup {}] = a
        BY <2>2 DEF Article
      <3>3. QED
        BY <3>1, <3>2
    <2>5. {[a EXCEPT !.tags = @ \cup UNION {b.tags : b \in {c \in fresh : c.url = a.url}}] : a \in old}
              = old
      BY <2>4
    <2>6. {a \in fresh : ~\E b \in old : b.url = a.url} = fresh
      BY <2>3
    <2>7. QED
      BY <2>1, <2>5, <2>6 DEF Dedupe
  <1>12. ZennCandidates(batches) = IF byTag = {} THEN old \cup fresh ELSE fresh
    <2> HIDE DEF byTag, old, fresh
    <2>1. ZennCandidates(batches)
              = Dedupe(IF byTag = {} THEN old ELSE byTag, Collected(P, FreshAges))
      BY <1>1, <1>10 DEF ZennCandidates
    <2>2. QED
      BY <1>9, <1>10, <1>11, <2>1
  <1>13. all = Told(batches)
    BY ToldIsCollected DEF G
  <1>14. QED
    BY <1>12, <1>13 DEF ZennListed

-----------------------------------------------------------------------------
(* The feeds *)

UrlsDiffer(list) == \A i, j \in DOMAIN list : list[i].url = list[j].url => i = j

\* A list that was ranked has the best and no address twice.
LEMMA RankedIsBest ==
    ASSUME NEW w \in Weights, NEW S, IsFiniteSet(S), S \subseteq Article, Distinct(S)
    PROVE  LET l == rankLimit(w, S, FeedLimit)
           IN  Best(l, S, w) /\ UrlsDiffer(l) /\ l \in Seq(S) /\ Len(l) \in Nat /\ Len(l) <= FeedLimit
  <1> DEFINE l == rankLimit(w, S, FeedLimit)
  <1>0. FeedLimit \in Nat /\ Cardinality(S) \in Nat
    BY RecommendationAssumption, FS_CardinalityType
  <1>1. PICK k \in Nat : k = Least(FeedLimit, Cardinality(S)) /\ k <= FeedLimit
    BY <1>0, LeastType
  <1>2. IsRanked(l, k, FeedLimit, S, w)
    BY <1>0, <1>1, RankLimitIs
  <1> HIDE DEF l
  <1>3. /\ l \in Seq(S) /\ Len(l) = k /\ DOMAIN l = 1..k
        /\ \A i, j \in 1..k : i < j => Before(w, l[i], l[j])
        /\ \A i, j \in 1..k : l[i] = l[j] => i = j
        /\ Range(l) = {a \in S : Cardinality({b \in S : Before(w, b, a)}) < FeedLimit}
    BY <1>2 DEF IsRanked
  <1>4. Best(l, S, w)
    BY <1>3 DEF Best
  <1>5. UrlsDiffer(l)
    <2>1. \A i \in 1..k : l[i] \in S
      BY <1>3
    <2>2. QED
      BY <1>3, <2>1 DEF UrlsDiffer, Distinct
  <1>6. QED
    BY <1>1, <1>3, <1>4, <1>5 DEF l

LEMMA ToldType ==
    ASSUME NEW batches \in Seq(Answers)
    PROVE  IsFiniteSet(Told(batches)) /\ Told(batches) \subseteq Article /\ Distinct(Told(batches))
  <1> DEFINE G == Good(batches)
             A == {b \in Articles : b.age \in Nat /\ Telling(b, G) # {}}
  <1>1. G \subseteq Search
    BY GoodType
  <1> HIDE DEF G
  <1>2. Told(batches) = {ToldOf(a, G) : a \in A}
    BY ToldIsCollected DEF Collected, G
  <1>3. IsFiniteSet(A)
    BY RecommendationAssumption, FS_Subset
  <1>4. IsFiniteSet({ToldOf(a, G) : a \in A})
    <2> DEFINE F == [a \in A |-> ToldOf(a, G)]
    <2>1. {ToldOf(a, G) : a \in A} = {F[a] : a \in A}
      OBVIOUS
    <2> DEFINE B == {F[a] : a \in A}
    <2>2. F \in Surjection(A, B)
      BY DEF Surjection
    <2> HIDE DEF A, F
    <2>3. IsFiniteSet(B)
      BY <1>3, <2>2, FS_Surjection
    <2>4. QED
      BY <2>1, <2>3
  <1>5. \A a \in Articles : ToldOf(a, G) \in Article /\ ToldOf(a, G).url = a.url
    BY <1>1, ToldIs, ArticlesType
  <1>6. QED
    BY <1>2, <1>4, <1>5, ArticlesType DEF Distinct

FoundFits(f, batches, w) ==
    /\ Best(f.qiita, {a \in Told(batches) : a.source = "qiita" /\ a.age <= QiitaWindow}, w)
    /\ Best(f.zenn, ZennListed(Told(batches)), w)
    /\ f.warnings = {b.search[1] : b \in {c \in Range(batches) : ~c.ok}}
    /\ \E b \in Range(batches) : b.ok

Feeds == [status : {"none", "ok", "unavailable", "broken"},
          qiita : Seq(Article), zenn : Seq(Article), warnings : SUBSET Providers]

ShortFeed(f) == f \in Feeds /\ Len(f.qiita) <= FeedLimit /\ Len(f.zenn) <= FeedLimit

\* What Get puts together when all of the answers have come
LEMMA AssembledFits ==
    ASSUME NEW w \in Weights, NEW batches \in Seq(Answers),
           \E i \in DOMAIN batches : batches[i].ok
    PROVE  LET f == Assembled(w, batches)
           IN  /\ FoundFits(f, batches, w) /\ ShortFeed(f)
               /\ UrlsDiffer(f.qiita) /\ UrlsDiffer(f.zenn)
  <1> DEFINE f == Assembled(w, batches)
             Q == {a \in Told(batches) : a.source = "qiita" /\ a.age <= QiitaWindow}
             Z == ZennListed(Told(batches))
             q == rankLimit(w, Q, FeedLimit)
             z == rankLimit(w, Z, FeedLimit)
  <1>1. Gathered(batches, OfQiita, 0..QiitaWindow) = Q
    BY GatheredIs, GoodType, QiitaCandidates, ToldIsCollected
  <1>2. ZennCandidates(batches) = Z
    BY ZennCandidatesAre
  <1>3. Failed(batches) \subseteq Providers
    BY FailedType
  <1>4. f = [status |-> "ok", qiita |-> q, zenn |-> z, warnings |-> Failed(batches)]
    BY <1>1, <1>2 DEF Assembled
  <1>5. Failed(batches) = {b.search[1] : b \in {c \in Range(batches) : ~c.ok}}
    BY DEF Failed, Range
  <1>6. \E b \in Range(batches) : b.ok
    BY DEF Range
  <1>7. \A S \in SUBSET Told(batches) : IsFiniteSet(S) /\ S \subseteq Article /\ Distinct(S)
    BY ToldType, FS_Subset DEF Distinct
  <1>8. Q \in SUBSET Told(batches) /\ Z \in SUBSET Told(batches)
    BY DEF ZennListed
  <1> HIDE DEF Q, Z
  <1>9. /\ Best(q, Q, w) /\ UrlsDiffer(q) /\ q \in Seq(Q) /\ Len(q) <= FeedLimit
        /\ Best(z, Z, w) /\ UrlsDiffer(z) /\ z \in Seq(Z) /\ Len(z) <= FeedLimit
    BY <1>7, <1>8, RankedIsBest
  <1>10. q \in Seq(Article) /\ z \in Seq(Article)
    <2>1. Q \subseteq Article /\ Z \subseteq Article
      BY <1>7, <1>8
    <2>2. QED
      BY <1>9, <2>1
  <1> HIDE DEF q, z, f
  <1>11. f \in Feeds /\ f.qiita = q /\ f.zenn = z /\ f.warnings = Failed(batches)
    BY <1>3, <1>4, <1>10 DEF Feeds
  <1>12. QED
    BY <1>5, <1>6, <1>9, <1>11 DEF FoundFits, ShortFeed, Q, Z, f

\* The articles with the tags of a user, the old ones only if none of them is fresh
TaggedFirst(S, w, source, window, oldWindow) ==
    LET Tagging(W) == {a \in W : a.tags \cap Top(w) # {}}
        inWindow == {a \in S : a.source = source /\ a.age <= window}
    IN  IF Tagging(inWindow) # {} THEN Tagging(inWindow)
        ELSE Tagging({a \in S : a.source = source /\ a.age <= oldWindow})

ListFits(S, list, w, source, window, oldWindow) ==
    LET inWindow == {a \in S : a.source = source /\ a.age <= window}
        tagged   == TaggedFirst(S, w, source, window, oldWindow)
    IN  /\ Len(list) = Least(FeedLimit, Cardinality(tagged \cup inWindow))
        /\ Range(list) \subseteq tagged \cup inWindow
        /\ \A i \in DOMAIN list : i <= Cardinality(tagged) <=> list[i] \in tagged

LEMMA SameFits ==
    ASSUME NEW list, NEW w, NEW source, NEW window, NEW oldWindow
    PROVE  StoredListFits(list, w, source, window, oldWindow)
               <=> ListFits(stored, list, w, source, window, oldWindow)
  BY DEF StoredListFits, ListFits, TaggedFirst

\* A list is filled up with popular articles.
LEMMA FilledFits ==
    ASSUME stored \in SUBSET Articles, NEW w \in Weights, NEW source, NEW window, NEW oldWindow,
           NEW T \in SUBSET Articles
    PROVE  LET l == Filled(w, rankLimit(w, T, FeedLimit), source, window)
           IN  /\ l \in Seq(Article) /\ Len(l) <= FeedLimit /\ UrlsDiffer(l)
               /\ T = TaggedFirst(stored, w, source, window, oldWindow) =>
                      ListFits(stored, l, w, source, window, oldWindow)
  <1> DEFINE l == Filled(w, rankLimit(w, T, FeedLimit), source, window)
             W == Window(source, window)
             all == T \cup W
  <1>1. /\ l \in Seq(all) /\ Len(l) = Least(FeedLimit, Cardinality(all))
        /\ \A i \in DOMAIN l : i <= Cardinality(T) <=> l[i] \in T
        /\ \A i, j \in DOMAIN l : l[i] = l[j] => i = j
    BY FilledIs
  <1>2. W \subseteq Articles /\ W = {a \in stored : a.source = source /\ a.age <= window}
    BY DEF Window
  <1>3. all \subseteq Articles
    BY <1>2
  <1> HIDE DEF l, all, W
  <1>4. FeedLimit \in Nat /\ Cardinality(all) \in Nat
    BY <1>3, StoredDistinct, RecommendationAssumption
  <1>5. Len(l) <= FeedLimit
    BY <1>1, <1>4, LeastType
  <1>6. \A i \in DOMAIN l : l[i] \in all
    BY <1>1
  <1>7. UrlsDiffer(l)
    BY <1>1, <1>3, <1>6, ArticlesType DEF UrlsDiffer
  <1>8. l \in Seq(Article)
    BY <1>1, <1>3, ArticlesType
  <1>9. ASSUME T = TaggedFirst(stored, w, source, window, oldWindow)
        PROVE  ListFits(stored, l, w, source, window, oldWindow)
    <2>1. all = TaggedFirst(stored, w, source, window, oldWindow)
                    \cup {a \in stored : a.source = source /\ a.age <= window}
      BY <1>2, <1>9 DEF all
    <2>2. Range(l) \subseteq all
      BY <1>6 DEF Range
    <2>3. QED
      BY <1>1, <1>9, <2>1, <2>2 DEF ListFits
  <1>10. QED
    BY <1>5, <1>7, <1>8, <1>9 DEF l

\* What holds of a request at p, which has read w and got the answers c, has pend to wait
\* for and has put f together; db tells where articles are from, and S are those stored,
\* changed ch times.
Right(p, db, ch, S, w, pend, c, f) ==
    /\ ShortFeed(f)
    /\ p = "search" => ~db /\ Searches(w) \subseteq pend \cup {c[i].search : i \in DOMAIN c}
    /\ p \in {"tagged", "popularQiita", "popularZenn"} => db
    /\ p = "popularQiita" => \E T \in SUBSET Articles :
           /\ f.qiita = rankLimit(w, T, FeedLimit)
           /\ ch = 0 => T = TaggedFirst(S, w, "qiita", QiitaWindow, QiitaWindow)
    /\ p \in {"popularQiita", "popularZenn"} => \E T \in SUBSET Articles :
           /\ f.zenn = rankLimit(w, T, FeedLimit)
           /\ ch = 0 => T = TaggedFirst(S, w, "zenn", ZennWindow, ZennStoredWindow)
    /\ p = "popularZenn" =>
           /\ UrlsDiffer(f.qiita)
           /\ ch = 0 => ListFits(S, f.qiita, w, "qiita", QiitaWindow, QiitaWindow)
    /\ p = "done" =>
           /\ f.status = "ok" => UrlsDiffer(f.qiita) /\ UrlsDiffer(f.zenn)
           /\ f.status = "ok" /\ ~db => FoundFits(f, c, w)
           /\ f.status = "ok" /\ db /\ ch = 0 =>
                  /\ ListFits(S, f.qiita, w, "qiita", QiitaWindow, QiitaWindow)
                  /\ ListFits(S, f.zenn, w, "zenn", ZennWindow, ZennStoredWindow)
           /\ f.status = "unavailable" => \A b \in Range(c) : ~b.ok

Feeding ==
    /\ changes \in Nat
    /\ \A r \in Requests : Right(pc[r], fromDB, changes, stored,
                                 seen[r], pending[r], collected[r], feed[r])

LEMMA FeedingFits == Feeding => FeedFits
  <1> SUFFICES ASSUME Feeding
               PROVE  FeedFits
    OBVIOUS
  <1>1. ASSUME NEW r \in Requests
        PROVE  Len(feed[r].qiita) <= FeedLimit /\ Len(feed[r].zenn) <= FeedLimit
    BY <1>1 DEF Feeding, Right, ShortFeed
  <1>2. ASSUME NEW r \in Readers, pc[r] = "done"
        PROVE  /\ feed[r].status = "ok" => UrlsDiffer(feed[r].qiita) /\ UrlsDiffer(feed[r].zenn)
               /\ feed[r].status = "ok" /\ ~fromDB => FoundFits(feed[r], collected[r], seen[r])
               /\ feed[r].status = "ok" /\ fromDB /\ changes = 0 =>
                      /\ ListFits(stored, feed[r].qiita, seen[r], "qiita", QiitaWindow, QiitaWindow)
                      /\ ListFits(stored, feed[r].zenn, seen[r], "zenn", ZennWindow,
                                  ZennStoredWindow)
               /\ feed[r].status = "unavailable" => \A b \in Range(collected[r]) : ~b.ok
    BY <1>2 DEF Feeding, Right, Requests
  <1>3. ASSUME NEW r \in Readers, FoundFits(feed[r], collected[r], seen[r])
        PROVE  FoundFeedFits(r)
    BY <1>3 DEF FoundFits, FoundFeedFits, ZennListed
  <1>4. QED
    BY <1>1, <1>2, <1>3, SameFits DEF FeedFits, UrlsDiffer

\* A request that has no articles yet
LEMMA EarlyRight ==
    ASSUME NEW p \in {"idle", "check", "lock", "commit", "list"},
           NEW db, NEW ch, NEW S, NEW w, NEW pend, NEW c, NEW f, ShortFeed(f)
    PROVE  Right(p, db, ch, S, w, pend, c, f)
  BY DEF Right

LEMMA NoFeedShort ==
    /\ ShortFeed(NoFeed) /\ ShortFeed([NoFeed EXCEPT !.status = "unavailable"])
    /\ ShortFeed([NoFeed EXCEPT !.status = "broken"])
    /\ [NoFeed EXCEPT !.status = "unavailable"].status = "unavailable"
    /\ [NoFeed EXCEPT !.status = "broken"].status = "broken"
  <1>1. <<>> \in Seq(Article) /\ Len(<<>>) = 0 /\ FeedLimit \in Nat
    BY RecommendationAssumption
  <1>2. ASSUME NEW st \in {"none", "ok", "unavailable", "broken"}
        PROVE  LET f == [status |-> st, qiita |-> <<>>, zenn |-> <<>>, warnings |-> {}]
               IN  ShortFeed(f) /\ f.status = st
    <2> DEFINE f == [status |-> st, qiita |-> <<>>, zenn |-> <<>>, warnings |-> {}]
    <2>1. f \in Feeds /\ f.qiita = <<>> /\ f.zenn = <<>> /\ f.status = st
      BY <1>1 DEF Feeds
    <2> HIDE DEF f
    <2>2. ShortFeed(f) /\ f.status = st
      BY <1>1, <2>1 DEF ShortFeed
    <2>3. QED
      BY <2>2 DEF f
  <1>3. ASSUME NEW st
        PROVE  [NoFeed EXCEPT !.status = st]
                   = [status |-> st, qiita |-> <<>>, zenn |-> <<>>, warnings |-> {}]
    BY DEF NoFeed
  <1>4. NoFeed = [status |-> "none", qiita |-> <<>>, zenn |-> <<>>, warnings |-> {}]
    BY DEF NoFeed
  <1>5. QED
    BY <1>2, <1>3, <1>4

\* Both providers are searched, so that answers that are all bad fail both of them.
LEMMA AllBadFailsBoth ==
    ASSUME NEW w \in Weights, NEW c \in Seq(Answers),
           Searches(w) \subseteq {c[i].search : i \in DOMAIN c},
           \A i \in DOMAIN c : ~c[i].ok
    PROVE  Failed(c) = Providers /\ Succeeded(c) = {}
  <1> DEFINE T == Top(w) \cup (IF Cardinality(Top(w)) < TopTagLimit THEN {0} ELSE {})
  <1>1. PICK t : t \in T
    <2>1. CASE Top(w) = {}
      <3>1. Cardinality({}) = 0 /\ TopTagLimit > 0
        BY FS_EmptySet, RecommendationAssumption
      <3>2. 0 \in T
        BY <2>1, <3>1
      <3>3. QED
        BY <3>2
    <2>2. CASE Top(w) # {}
      BY <2>2
    <2>3. QED
      BY <2>1, <2>2
  <1>2. \A p \in Providers : <<p, t>> \in Searches(w)
    BY <1>1 DEF Searches
  <1>3. \A p \in Providers : \E i \in DOMAIN c : c[i].search[1] = p
    <2> SUFFICES ASSUME NEW p \in Providers
                 PROVE  \E i \in DOMAIN c : c[i].search[1] = p
      OBVIOUS
    <2>1. PICK i \in DOMAIN c : c[i].search = <<p, t>>
      BY <1>2
    <2>2. QED
      BY <2>1
  <1>4. Providers \subseteq Failed(c)
    BY <1>3 DEF Failed
  <1>5. QED
    BY <1>4, FailedType DEF Succeeded

LEMMA AssembledRight ==
    ASSUME NEW w \in Weights, NEW c \in Seq(Answers), NEW ch, NEW S, NEW pend,
           Searches(w) \subseteq {c[i].search : i \in DOMAIN c}
    PROVE  Right("done", FALSE, ch, S, w, pend, c,
                 IF Failed(c) = Providers /\ Succeeded(c) = {}
                 THEN [NoFeed EXCEPT !.status = "unavailable"] ELSE Assembled(w, c))
  <1>1. CASE Failed(c) = Providers /\ Succeeded(c) = {}
    <2>1. \A i \in DOMAIN c : ~c[i].ok
      BY <1>1 DEF Succeeded
    <2>2. \A b \in Range(c) : ~b.ok
      BY <2>1 DEF Range
    <2>3. PICK f : f = [NoFeed EXCEPT !.status = "unavailable"]
      OBVIOUS
    <2>4. ShortFeed(f) /\ f.status = "unavailable"
      BY <2>3, NoFeedShort
    <2>5. Right("done", FALSE, ch, S, w, pend, c, f)
      BY <2>2, <2>4 DEF Right
    <2>6. QED
      BY <1>1, <2>3, <2>5
  <1>2. CASE ~(Failed(c) = Providers /\ Succeeded(c) = {})
    <2>1. \E i \in DOMAIN c : c[i].ok
      BY <1>2, AllBadFailsBoth
    <2>2. PICK f : f = Assembled(w, c)
      OBVIOUS
    <2>3. FoundFits(f, c, w) /\ ShortFeed(f) /\ UrlsDiffer(f.qiita) /\ UrlsDiffer(f.zenn)
      BY <2>1, <2>2, AssembledFits
    <2>4. f.status = "ok"
      BY <2>2 DEF Assembled
    <2>5. Right("done", FALSE, ch, S, w, pend, c, f)
      BY <2>3, <2>4 DEF Right
    <2>6. QED
      BY <1>2, <2>2, <2>5
  <1>3. QED
    BY <1>1, <1>2

LEMMA TaggedRight ==
    ASSUME stored \in SUBSET Articles, NEW w \in Weights, NEW ch, NEW pend, NEW c
    PROVE  LET zenn  == Tagged("zenn", w, ZennStoredWindow)
               fresh == {a \in zenn : a.age <= ZennWindow}
               f == [NoFeed EXCEPT
                        !.qiita = rankLimit(w, Tagged("qiita", w, QiitaWindow), FeedLimit),
                        !.zenn  = rankLimit(w, IF fresh = {} THEN zenn ELSE fresh, FeedLimit)]
           IN  Right("popularQiita", TRUE, ch, stored, w, pend, c, f)
  <1> DEFINE Q == Tagged("qiita", w, QiitaWindow)
             zenn == Tagged("zenn", w, ZennStoredWindow)
             fresh == {a \in zenn : a.age <= ZennWindow}
             Z == IF fresh = {} THEN zenn ELSE fresh
             q == rankLimit(w, Q, FeedLimit)
             z == rankLimit(w, Z, FeedLimit)
             f == [NoFeed EXCEPT !.qiita = q, !.zenn = z]
  <1>1. Q \in SUBSET Articles /\ zenn \in SUBSET Articles /\ Z \in SUBSET Articles
    BY DEF Tagged
  <1>2. Q = TaggedFirst(stored, w, "qiita", QiitaWindow, QiitaWindow)
    BY DEF Tagged, TaggedFirst
  <1>3. Z = TaggedFirst(stored, w, "zenn", ZennWindow, ZennStoredWindow)
    <2>1. \A a \in stored : a.age <= ZennWindow => a.age <= ZennStoredWindow
      BY ArticlesType, ArticleType, RecommendationAssumption
    <2>2. fresh = {a \in {b \in stored : b.source = "zenn" /\ b.age <= ZennWindow} :
                       a.tags \cap Top(w) # {}}
      BY <2>1 DEF Tagged
    <2>3. zenn = {a \in {b \in stored : b.source = "zenn" /\ b.age <= ZennStoredWindow} :
                      a.tags \cap Top(w) # {}}
      BY DEF Tagged
    <2> HIDE DEF fresh, zenn
    <2>4. QED
      BY <2>2, <2>3 DEF TaggedFirst
  <1> HIDE DEF Q, Z
  <1>4. /\ q \in Seq(Q) /\ Len(q) <= FeedLimit
        /\ z \in Seq(Z) /\ Len(z) <= FeedLimit
    BY <1>1, StoredDistinct, RankedIsBest
  <1>5. q \in Seq(Article) /\ z \in Seq(Article)
    <2>1. Q \subseteq Article /\ Z \subseteq Article
      BY <1>1, ArticlesType
    <2>2. QED
      BY <1>4, <2>1
  <1> HIDE DEF q, z
  <1>6. f \in Feeds /\ f.qiita = q /\ f.zenn = z
    BY <1>5 DEF Feeds, NoFeed
  <1> HIDE DEF f
  <1>7. ShortFeed(f)
    BY <1>4, <1>6 DEF ShortFeed
  <1>8. Right("popularQiita", TRUE, ch, stored, w, pend, c, f)
    BY <1>1, <1>2, <1>3, <1>6, <1>7 DEF Right, q, z
  <1>9. QED
    BY <1>8 DEF f, q, z, Q, Z

LEMMA QiitaRight ==
    ASSUME stored \in SUBSET Articles, NEW w \in Weights, NEW ch, NEW pend, NEW c, NEW f,
           Right("popularQiita", TRUE, ch, stored, w, pend, c, f)
    PROVE  Right("popularZenn", TRUE, ch, stored, w, pend, c,
                 [f EXCEPT !.qiita = Filled(w, f.qiita, "qiita", QiitaWindow)])
  <1>1. PICK T \in SUBSET Articles :
            /\ f.qiita = rankLimit(w, T, FeedLimit)
            /\ ch = 0 => T = TaggedFirst(stored, w, "qiita", QiitaWindow, QiitaWindow)
    BY DEF Right
  <1>2. PICK l : l = Filled(w, f.qiita, "qiita", QiitaWindow)
    OBVIOUS
  <1>3. /\ l \in Seq(Article) /\ Len(l) <= FeedLimit /\ UrlsDiffer(l)
        /\ ch = 0 => ListFits(stored, l, w, "qiita", QiitaWindow, QiitaWindow)
    BY <1>1, <1>2, FilledFits
  <1>4. f \in Feeds /\ Len(f.zenn) <= FeedLimit
    BY DEF Right, ShortFeed
  <1>5. PICK g : g = [f EXCEPT !.qiita = l]
    OBVIOUS
  <1>6. g \in Feeds /\ g.qiita = l /\ g.zenn = f.zenn
    BY <1>3, <1>4, <1>5 DEF Feeds
  <1>7. ShortFeed(g)
    BY <1>3, <1>4, <1>6 DEF ShortFeed
  <1>8. \E Z \in SUBSET Articles :
            /\ g.zenn = rankLimit(w, Z, FeedLimit)
            /\ ch = 0 => Z = TaggedFirst(stored, w, "zenn", ZennWindow, ZennStoredWindow)
    BY <1>6 DEF Right
  <1>9. Right("popularZenn", TRUE, ch, stored, w, pend, c, g)
    BY <1>3, <1>6, <1>7, <1>8 DEF Right
  <1>10. QED
    BY <1>2, <1>5, <1>9

LEMMA ZennRight ==
    ASSUME stored \in SUBSET Articles, NEW w \in Weights, NEW ch, NEW pend, NEW c, NEW f,
           Right("popularZenn", TRUE, ch, stored, w, pend, c, f)
    PROVE  Right("done", TRUE, ch, stored, w, pend, c,
                 [f EXCEPT !.zenn = Filled(w, f.zenn, "zenn", ZennWindow), !.status = "ok"])
  <1>1. PICK T \in SUBSET Articles :
            /\ f.zenn = rankLimit(w, T, FeedLimit)
            /\ ch = 0 => T = TaggedFirst(stored, w, "zenn", ZennWindow, ZennStoredWindow)
    BY DEF Right
  <1>2. PICK l : l = Filled(w, f.zenn, "zenn", ZennWindow)
    OBVIOUS
  <1>3. /\ l \in Seq(Article) /\ Len(l) <= FeedLimit /\ UrlsDiffer(l)
        /\ ch = 0 => ListFits(stored, l, w, "zenn", ZennWindow, ZennStoredWindow)
    BY <1>1, <1>2, FilledFits
  <1>4. /\ f \in Feeds /\ Len(f.qiita) <= FeedLimit /\ UrlsDiffer(f.qiita)
        /\ ch = 0 => ListFits(stored, f.qiita, w, "qiita", QiitaWindow, QiitaWindow)
    BY DEF Right, ShortFeed
  <1>5. PICK g : g = [f EXCEPT !.zenn = l, !.status = "ok"]
    OBVIOUS
  <1>6. g \in Feeds /\ g.zenn = l /\ g.qiita = f.qiita /\ g.status = "ok"
    BY <1>3, <1>4, <1>5 DEF Feeds
  <1>7. ShortFeed(g)
    BY <1>3, <1>4, <1>6 DEF ShortFeed
  <1>8. Right("done", TRUE, ch, stored, w, pend, c, g)
    BY <1>3, <1>4, <1>6, <1>7 DEF Right
  <1>9. QED
    BY <1>2, <1>5, <1>8

\* A bad or a good answer: the search is no longer waited for.
LEMMA AnswerRight ==
    ASSUME NEW db, NEW ch, NEW S, NEW w, NEW pend, NEW c \in Seq(Answers), NEW f,
           Right("search", db, ch, S, w, pend, c, f), NEW a \in Answers
    PROVE  Right("search", db, ch, S, w, pend \ {a.search}, Append(c, a), f)
  <1>1. /\ DOMAIN Append(c, a) = DOMAIN c \cup {Len(c) + 1}
        /\ \A i \in DOMAIN c : Append(c, a)[i] = c[i]
        /\ Append(c, a)[Len(c) + 1] = a
    OBVIOUS
  <1>2. PICK d : d = Append(c, a)
    OBVIOUS
  <1>3. {c[i].search : i \in DOMAIN c} \cup {a.search} \subseteq {d[i].search : i \in DOMAIN d}
    BY <1>1, <1>2
  <1>4. Searches(w) \subseteq pend \cup {c[i].search : i \in DOMAIN c} /\ ~db /\ ShortFeed(f)
    BY DEF Right
  <1>5. Searches(w) \subseteq (pend \ {a.search}) \cup {d[i].search : i \in DOMAIN d}
    BY <1>3, <1>4
  <1>6. QED
    BY <1>2, <1>4, <1>5 DEF Right

LEMMA FeedingKept ==
    ASSUME Feeding, NEW r \in Requests, changes' = changes, stored' = stored, fromDB' = fromDB,
           \A q \in Requests : q # r =>
               /\ pc'[q] = pc[q] /\ seen'[q] = seen[q] /\ pending'[q] = pending[q]
               /\ collected'[q] = collected[q] /\ feed'[q] = feed[q],
           Right(pc'[r], fromDB, changes, stored, seen'[r], pending'[r], collected'[r], feed'[r])
    PROVE  Feeding'
  <1>1. ASSUME NEW q \in Requests
        PROVE  Right(pc'[q], fromDB', changes', stored', seen'[q], pending'[q], collected'[q],
                     feed'[q])
    <2>1. CASE q = r
      BY <2>1
    <2>2. CASE q # r
      BY <2>2 DEF Feeding
    <2>3. QED
      BY <2>1, <2>2
  <1>2. QED
    BY <1>1 DEF Feeding

LEMMA FeedingInit == Init => Feeding
  <1> SUFFICES ASSUME Init
               PROVE  Feeding
    OBVIOUS
  <1>1. \A r \in Requests : pc[r] = "idle" /\ feed[r] = NoFeed
    BY DEF Init
  <1>2. \A r \in Requests : Right(pc[r], fromDB, changes, stored,
                                  seen[r], pending[r], collected[r], feed[r])
    BY <1>1, EarlyRight, NoFeedShort
  <1>3. QED
    BY <1>2 DEF Feeding, Init

LEMMA FeedingStep ==
    TypeOK /\ Expecting /\ Feeding /\ [Next]_vars => Feeding'
  <1> SUFFICES ASSUME TypeOK, Expecting, Feeding, [Next]_vars
               PROVE  Feeding'
    OBVIOUS
  <1>0. /\ DOMAIN pc = Requests /\ DOMAIN feed = Requests /\ stored \in SUBSET Articles
        /\ fromDB \in BOOLEAN
        /\ seen \in [Requests -> Weights] /\ pending \in [Requests -> SUBSET Search]
        /\ collected \in [Requests -> Seq(Answers)]
    BY DEF TypeOK
  <1>1. ASSUME NEW r \in Requests
         PROVE  Right(pc[r], fromDB, changes, stored, seen[r], pending[r], collected[r], feed[r])
    BY DEF Feeding
  <1>2. ASSUME NEW r \in Requests, NEW to \in {"idle", "check", "lock", "commit", "list"},
               Go(r, to), changes' = changes, stored' = stored, fromDB' = fromDB,
               \A q \in Requests : q # r => /\ seen'[q] = seen[q] /\ feed'[q] = feed[q]
                                            /\ collected'[q] = collected[q],
               pending' = pending, ShortFeed(feed'[r])
        PROVE  Feeding'
    <2>1. pc'[r] = to /\ \A q \in Requests : q # r => pc'[q] = pc[q]
      BY <1>0, <1>2 DEF Go
    <2>2. Right(pc'[r], fromDB, changes, stored, seen'[r], pending'[r], collected'[r], feed'[r])
      BY <1>2, <2>1, EarlyRight
    <2>3. QED
      BY <1>2, <2>1, <2>2, FeedingKept
  <1>3. ASSUME NEW r \in Requests, FeedBegin(r) \/ CheckDue(r)
        PROVE  Feeding'
    <2>1. PICK to \in {"check", "lock", "list"} : Go(r, to)
      BY <1>3 DEF FeedBegin, CheckDue
    <2>2. ShortFeed(feed[r])
      BY <1>1 DEF Right
    <2>3. QED
      BY <1>2, <1>3, <2>1, <2>2 DEF FeedBegin, CheckDue, data
  <1>4. ASSUME NEW r \in Requests, NEW tags \in Clicks, ClickBegin(r, tags)
        PROVE  Feeding'
    <2>1. ShortFeed(feed[r])
      BY <1>1 DEF Right
    <2>2. QED
      BY <1>2, <1>4, <2>1 DEF ClickBegin
  <1>5. ASSUME NEW r \in Requests, LockAndRead(r) \/ Commit(r)
        PROVE  Feeding'
    <2>1. PICK to \in {"commit", "idle", "list"} : Go(r, to)
      BY <1>5 DEF LockAndRead, Commit
    <2>2. ShortFeed(feed[r])
      BY <1>1 DEF Right
    <2>3. \A q \in Requests : q # r => seen'[q] = seen[q]
      BY <1>0, <1>5 DEF LockAndRead, Commit
    <2>4. QED
      BY <1>2, <1>5, <2>1, <2>2, <2>3 DEF LockAndRead, Commit, data
  <1>6. ASSUME NEW r \in Requests, Break(r)
        PROVE  Feeding'
    <2>1. /\ \A q \in Requests : q # r => seen'[q] = seen[q] /\ feed'[q] = feed[q]
          /\ feed'[r] = [NoFeed EXCEPT !.status = "broken"]
          /\ UNCHANGED <<data, pending, collected>>
      BY <1>0, <1>6 DEF Break
    <2>2. PICK f : f = [NoFeed EXCEPT !.status = "broken"]
      OBVIOUS
    <2>3. ShortFeed(f) /\ f.status = "broken" /\ feed'[r] = f
      BY <2>1, <2>2, NoFeedShort
    <2>4. CASE Go(r, "idle")
      BY <1>2, <2>1, <2>3, <2>4 DEF data
    <2>5. CASE Go(r, "done")
      <3>1. pc'[r] = "done" /\ \A q \in Requests : q # r => pc'[q] = pc[q]
        BY <1>0, <2>5 DEF Go
      <3>2. Right("done", fromDB, changes, stored, seen'[r], pending'[r], collected'[r], f)
        BY <2>3 DEF Right
      <3>3. QED
        BY <2>1, <2>3, <3>1, <3>2, FeedingKept DEF data
    <2>6. QED
      BY <1>6, <2>4, <2>5 DEF Break
  <1>7. ASSUME NEW r \in Requests, ListWeights(r)
        PROVE  Feeding'
    <2>1. /\ \A q \in Requests : q # r => seen'[q] = seen[q]
          /\ seen'[r] = weights /\ UNCHANGED <<data, collected, feed>>
      BY <1>0, <1>7 DEF ListWeights
    <2>2. ShortFeed(feed[r])
      BY <1>1 DEF Right
    <2>3. CASE fromDB
      <3>1. Go(r, "tagged") /\ pending' = pending
        BY <1>7, <2>3 DEF ListWeights
      <3>2. pc'[r] = "tagged" /\ \A q \in Requests : q # r => pc'[q] = pc[q]
        BY <1>0, <3>1 DEF Go
      <3>3. Right("tagged", fromDB, changes, stored, seen'[r], pending'[r], collected'[r], feed[r])
        BY <2>2, <2>3 DEF Right
      <3>4. QED
        BY <2>1, <3>1, <3>2, <3>3, FeedingKept DEF data
    <2>4. CASE ~fromDB
      <3>1. Go(r, "search") /\ pending' = [pending EXCEPT ![r] = Searches(weights)]
        BY <1>7, <2>4 DEF ListWeights
      <3>2. /\ pc'[r] = "search" /\ pending'[r] = Searches(weights)
            /\ \A q \in Requests : q # r => pc'[q] = pc[q] /\ pending'[q] = pending[q]
        BY <1>0, <3>1 DEF Go
      <3>3. Right("search", fromDB, changes, stored, weights, Searches(weights), collected'[r],
                  feed[r])
        BY <2>2, <2>4 DEF Right
      <3>4. QED
        BY <2>1, <3>2, <3>3, FeedingKept DEF data
    <2>5. QED
      BY <2>3, <2>4
  <1>8. ASSUME NEW r \in Requests, Answer(r)
        PROVE  Feeding'
    <2>1. PICK search \in pending[r], ok \in BOOLEAN :
              /\ pending' = [pending EXCEPT ![r] = @ \ {search}]
              /\ collected' = [collected EXCEPT ![r] =
                     Append(@, [search |-> search, ok |-> ok])]
      BY <1>8 DEF Answer
    <2>2. PICK a \in Answers : a = [search |-> search, ok |-> ok]
      <3>1. search \in Search
        BY <1>0
      <3>2. QED
        BY <3>1 DEF Answers
    <2>3. a.search = search
      BY <2>2
    <2>4. /\ pending'[r] = pending[r] \ {a.search} /\ collected'[r] = Append(collected[r], a)
          /\ \A q \in Requests : q # r => /\ pending'[q] = pending[q]
                                          /\ collected'[q] = collected[q]
      BY <1>0, <2>1, <2>2, <2>3
    <2>5. UNCHANGED <<data, pc, seen, feed>> /\ pc[r] = "search"
      BY <1>8 DEF Answer
    <2>6. Right("search", fromDB, changes, stored, seen[r], pending[r], collected[r], feed[r])
      BY <1>1, <2>5
    <2>7. PICK pend \in SUBSET Search, c \in Seq(Answers) :
              pend = pending[r] /\ c = collected[r]
      BY <1>0
    <2>8. Right("search", fromDB, changes, stored, seen[r], pend \ {a.search}, Append(c, a), feed[r])
      BY <2>6, <2>7, AnswerRight
    <2>9. QED
      BY <2>4, <2>5, <2>7, <2>8, FeedingKept DEF data
  <1>9. ASSUME NEW r \in Requests, Assemble(r)
        PROVE  Feeding'
    <2>1. PICK w \in Weights, c \in Seq(Answers) : w = seen[r] /\ c = collected[r]
      BY <1>0
    <2>2. /\ pc[r] = "search" /\ Go(r, "done") /\ UNCHANGED <<data, seen, pending, collected>>
          /\ feed' = [feed EXCEPT ![r] =
                          IF Failed(c) = Providers /\ Succeeded(c) = {}
                          THEN [NoFeed EXCEPT !.status = "unavailable"] ELSE Assembled(w, c)]
      BY <1>9, <2>1 DEF Assemble
    <2>3. pending[r] = {}
      BY <1>9, AllAnswered
    <2>4. ~fromDB /\ Searches(w) \subseteq {c[i].search : i \in DOMAIN c}
      BY <1>1, <2>1, <2>2, <2>3 DEF Right
    <2>5. PICK f : f = IF Failed(c) = Providers /\ Succeeded(c) = {}
                       THEN [NoFeed EXCEPT !.status = "unavailable"] ELSE Assembled(w, c)
      OBVIOUS
    <2>6. Right("done", FALSE, changes, stored, w, pending[r], c, f)
      BY <2>4, <2>5, AssembledRight
    <2>7. Right("done", fromDB, changes, stored, w, pending[r], c, f)
      BY <1>0, <2>4, <2>6
    <2>8. /\ pc'[r] = "done" /\ feed'[r] = f
          /\ \A q \in Requests : q # r => pc'[q] = pc[q] /\ feed'[q] = feed[q]
      BY <1>0, <2>2, <2>5 DEF Go
    <2>9. QED
      BY <2>1, <2>2, <2>7, <2>8, FeedingKept DEF data
  <1>10. ASSUME NEW r \in Requests, NEW to, NEW f, Go(r, to), feed' = [feed EXCEPT ![r] = f],
               UNCHANGED <<data, seen, pending, collected>>,
               Right(to, TRUE, changes, stored, seen[r], pending[r], collected[r], f), fromDB = TRUE
        PROVE  Feeding'
    <2>1. /\ pc'[r] = to /\ feed'[r] = f
          /\ \A q \in Requests : q # r => pc'[q] = pc[q] /\ feed'[q] = feed[q]
      BY <1>0, <1>10 DEF Go
    <2>2. QED
      BY <1>10, <2>1, FeedingKept DEF data
  <1>11. ASSUME NEW r \in Requests, pc[r] \in {"tagged", "popularQiita", "popularZenn"}
         PROVE  fromDB = TRUE
    BY <1>0, <1>1, <1>11 DEF Right
  <1>12. ASSUME NEW r \in Requests, ReadTagged(r)
         PROVE  Feeding'
    <2>1. PICK w \in Weights : w = seen[r]
      BY <1>0
    <2> DEFINE zenn  == Tagged("zenn", w, ZennStoredWindow)
               fresh == {a \in zenn : a.age <= ZennWindow}
               f == [NoFeed EXCEPT
                        !.qiita = rankLimit(w, Tagged("qiita", w, QiitaWindow), FeedLimit),
                        !.zenn  = rankLimit(w, IF fresh = {} THEN zenn ELSE fresh, FeedLimit)]
    <2>2. /\ pc[r] = "tagged" /\ Go(r, "popularQiita") /\ feed' = [feed EXCEPT ![r] = f]
          /\ UNCHANGED <<data, seen, pending, collected>>
      BY <1>12, <2>1 DEF ReadTagged
    <2>3. Right("popularQiita", TRUE, changes, stored, w, pending[r], collected[r], f)
      BY <1>0, TaggedRight
    <2> HIDE DEF f
    <2>4. QED
      BY <1>10, <1>11, <2>1, <2>2, <2>3
  <1>13. ASSUME NEW r \in Requests, FillQiita(r)
         PROVE  Feeding'
    <2>1. PICK w, f : w \in Weights /\ w = seen[r] /\ f = feed[r]
      BY <1>0
    <2>2. /\ pc[r] = "popularQiita" /\ Go(r, "popularZenn")
          /\ feed' = [feed EXCEPT ![r].qiita = Filled(w, @, "qiita", QiitaWindow)]
          /\ UNCHANGED <<data, seen, pending, collected>>
      BY <1>13, <2>1 DEF FillQiita
    <2>3. fromDB = TRUE
      BY <1>11, <2>2
    <2>4. Right("popularQiita", TRUE, changes, stored, w, pending[r], collected[r], f)
      BY <1>1, <2>1, <2>2, <2>3
    <2> DEFINE g == [f EXCEPT !.qiita = Filled(w, f.qiita, "qiita", QiitaWindow)]
    <2>5. Right("popularZenn", TRUE, changes, stored, w, pending[r], collected[r], g)
      BY <1>0, <2>1, <2>4, QiitaRight
    <2>6. feed' = [feed EXCEPT ![r] = g]
      BY <2>1, <2>2
    <2> HIDE DEF g
    <2>7. QED
      BY <1>10, <2>1, <2>2, <2>3, <2>5, <2>6
  <1>14. ASSUME NEW r \in Requests, FillZenn(r)
         PROVE  Feeding'
    <2>1. PICK w, f : w \in Weights /\ w = seen[r] /\ f = feed[r]
      BY <1>0
    <2>2. /\ pc[r] = "popularZenn" /\ Go(r, "done")
          /\ feed' = [feed EXCEPT ![r].zenn = Filled(w, @, "zenn", ZennWindow),
                                  ![r].status = "ok"]
          /\ UNCHANGED <<data, seen, pending, collected>>
      BY <1>14, <2>1 DEF FillZenn
    <2>3. fromDB = TRUE
      BY <1>11, <2>2
    <2>4. Right("popularZenn", TRUE, changes, stored, w, pending[r], collected[r], f)
      BY <1>1, <2>1, <2>2, <2>3
    <2> DEFINE g == [f EXCEPT !.zenn = Filled(w, f.zenn, "zenn", ZennWindow), !.status = "ok"]
    <2>5. Right("done", TRUE, changes, stored, w, pending[r], collected[r], g)
      BY <1>0, <2>1, <2>4, ZennRight
    <2>6. feed' = [feed EXCEPT ![r] = g]
      BY <1>0, <2>1, <2>2
    <2> HIDE DEF g
    <2>7. QED
      BY <1>10, <2>1, <2>2, <2>3, <2>5, <2>6
  <1>15. ASSUME NEW r \in Requests, Reply(r)
         PROVE  Feeding'
    <2>1. /\ \A q \in Requests : q # r => /\ seen'[q] = seen[q] /\ feed'[q] = feed[q]
                                          /\ collected'[q] = collected[q]
          /\ feed'[r] = NoFeed /\ Go(r, "idle") /\ pending' = pending
      BY <1>0, <1>15 DEF Reply
    <2>2. changes' = changes /\ stored' = stored /\ fromDB' = fromDB
      BY <1>15 DEF Reply, data
    <2>3. QED
      BY <1>2, <2>1, <2>2, NoFeedShort
  <1>16. ASSUME NEW a \in Articles, ChangeStored(a)
         PROVE  Feeding'
    <2>1. /\ changes \in Nat /\ changes' = changes + 1 /\ fromDB' = fromDB
          /\ UNCHANGED <<pc, seen, pending, collected, feed>>
      BY <1>16 DEF ChangeStored, own, Feeding
    <2>2. changes' \in Nat /\ changes' # 0
      BY <2>1
    <2>3. ASSUME NEW p, NEW db, NEW ch, NEW S, NEW w, NEW pend, NEW c, NEW f, NEW k, NEW R,
                 Right(p, db, ch, S, w, pend, c, f), k # 0
          PROVE  Right(p, db, k, R, w, pend, c, f)
      BY <2>3 DEF Right
    <2>4. \A r \in Requests : Right(pc[r], fromDB, changes', stored', seen[r], pending[r],
                                    collected[r], feed[r])
      BY <1>1, <2>2, <2>3
    <2>5. QED
      BY <2>1, <2>2, <2>4 DEF Feeding
  <1>17. ASSUME (\E s \in Saves : Ripen(s)) \/ UNCHANGED vars
         PROVE  Feeding'
    <2>1. UNCHANGED <<pc, fromDB, changes, stored, seen, pending, collected, feed>>
      BY <1>17 DEF Ripen, vars, data, own
    <2>2. QED
      BY <2>1 DEF Feeding
  <1>18. QED
    BY <1>3, <1>4, <1>5, <1>6, <1>7, <1>8, <1>9, <1>12, <1>13, <1>14, <1>15, <1>16, <1>17
       DEF Next, Learning, Reading

\* A feed has what it should: of what was found, the best, each once and in order, old
\* articles of Zenn only if no tag has found a fresh one, and a warning for each provider
\* one of whose searches failed; from the database, the articles with the user's tags and
\* then popular ones as long as there is room (Get, getFromDB, fillWithPopular).  This is
\* so in whatever order the searches answer, and however many of them fail.
THEOREM FeedHolds == Spec => []FeedFits
  <1>1. Init => Expecting
    BY DEF Init, Expecting, AnswersCounted
  <1>2. QED
    BY <1>1, TypesInit, TypesStep, ExpectingStep, FeedingInit, FeedingStep, FeedingFits, PTL
       DEF Spec
===============================================================================
