------------------------- MODULE SavedArticlesProofs -------------------------
(***************************************************************************)
(* Proofs about SavedArticles, for every number of users, articles and     *)
(* concurrent requests.                                                    *)
(***************************************************************************)
EXTENDS SavedArticles, FiniteSetTheorems, TLAPS

-----------------------------------------------------------------------------
(* Types *)

\* An open transaction works for a user, and a Save for an article.
OpenTransactionsNamed ==
    /\ \A p \in Requests : pc[p] # "idle" => who[p] \in Users
    /\ \A s \in Savers : pc[s] # "idle" => what[s] \in Articles

Typing == TypeOK /\ OpenTransactionsNamed

LEMMA InitTyping == Init => Typing
  BY ConstantsAssumption
  DEF Init, Typing, TypeOK, OpenTransactionsNamed, SaverPC, LearnerPC,
      RetainerPC, Procs, Requests

\* A statement of a transaction: its pc moves, and what it keeps is kept or, when
\* the transaction ends, forgotten.
LEMMA StepTyping ==
    ASSUME Typing, NEW p \in Procs, NEW from, NEW to, Step(p, from, to),
           p \in Savers => to \in SaverPC,
           p \in Learners => to \in LearnerPC,
           p = Retainer => to \in RetainerPC,
           to # "idle" /\ p # Retainer => from # "idle"
    PROVE  /\ pc' \in [Procs -> SaverPC \cup LearnerPC \cup RetainerPC]
           /\ \A s \in Savers : pc'[s] \in SaverPC
           /\ \A l \in Learners : pc'[l] \in LearnerPC
           /\ pc'[Retainer] \in RetainerPC
           /\ who' \in [Requests -> Users \cup {None}]
           /\ what' \in [Savers -> Articles \cup {None}]
           /\ begun' \in [Requests -> Nat]
           /\ OpenTransactionsNamed'
  <1>1. /\ pc' \in [Procs -> SaverPC \cup LearnerPC \cup RetainerPC]
        /\ \A s \in Savers : pc'[s] \in SaverPC
        /\ \A l \in Learners : pc'[l] \in LearnerPC
        /\ pc'[Retainer] \in RetainerPC
    BY ConstantsAssumption DEF Typing, TypeOK, Step, Procs, Requests
  <1>2. CASE to = "idle"
    BY <1>1, <1>2, ConstantsAssumption
    DEF Typing, TypeOK, Step, Forget, OpenTransactionsNamed, Procs, Requests
  <1>3. CASE to # "idle"
    BY <1>1, <1>3, ConstantsAssumption
    DEF Typing, TypeOK, Step, OpenTransactionsNamed, Procs, Requests
  <1>4. QED
    BY <1>2, <1>3

LEMMA NextTyping == Typing /\ [Next]_vars => Typing'
  <1> SUFFICES ASSUME Typing, [Next]_vars
               PROVE  Typing'
    OBVIOUS
  <1> USE DEF SaverPC, LearnerPC, RetainerPC
  <1>1. ASSUME NEW s \in Savers, SaveStep(s)
        PROVE  Typing'
    <2>1. s \in Procs /\ s \notin Learners /\ s # Retainer
      BY ConstantsAssumption DEF Procs, Requests
    <2>2. CASE SaveLockUser(s)
      BY <2>1, <2>2, StepTyping DEF SaveLockUser, Typing, TypeOK, rows
    <2>3. CASE SaveCheckSaved(s)
      BY <2>1, <2>3, StepTyping DEF SaveCheckSaved, Typing, TypeOK, rows
    <2>4. CASE SaveCheckArticle(s)
      BY <2>1, <2>4, StepTyping DEF SaveCheckArticle, Typing, TypeOK, rows
    <2>5. CASE SaveCount(s)
      BY <2>1, <2>5, StepTyping DEF SaveCount, Typing, TypeOK, rows
    <2>6. CASE SaveInsert(s)
      BY <2>1, <2>6, StepTyping DEF SaveInsert, Typing, TypeOK, rows
    <2>7. CASE SaveCommit(s)
      <3>1. who[s] \in Users /\ what[s] \in Articles /\ begun[s] \in Nat
        BY <2>7 DEF SaveCommit, Step, Typing, TypeOK, OpenTransactionsNamed, Requests
      <3>2. /\ saved' \in [Users -> SUBSET Articles]
            /\ savedAt' \in [Users -> [Articles -> Nat]]
        BY <2>7, <3>1 DEF SaveCommit, Typing, TypeOK
      <3>3. QED
        BY <2>1, <2>7, <3>2, StepTyping DEF SaveCommit, Typing, TypeOK
    <2>8. QED
      BY <1>1, <2>2, <2>3, <2>4, <2>5, <2>6, <2>7 DEF SaveStep
  <1>2. ASSUME NEW s \in Savers, NEW u \in Users, NEW a \in Articles,
               SaveBegin(s, u, a)
        PROVE  Typing'
    BY <1>2, ConstantsAssumption
    DEF SaveBegin, Typing, TypeOK, OpenTransactionsNamed, rows, Procs, Requests
  <1>3. ASSUME NEW u \in Users, NEW a \in Articles, Unsave(u, a)
        PROVE  Typing'
    BY <1>3 DEF Unsave, Typing, TypeOK, OpenTransactionsNamed, txs
  <1>4. ASSUME NEW l \in Learners, LearnStep(l)
        PROVE  Typing'
    <2>1. l \in Procs /\ l \notin Savers /\ l # Retainer
      BY ConstantsAssumption DEF Procs, Requests
    <2>2. CASE LearnLockUser(l)
      BY <2>1, <2>2, StepTyping DEF LearnLockUser, Typing, TypeOK, rows
    <2>3. CASE LearnMark(l)
      <3>1. who[l] \in Users
        BY <2>3 DEF LearnMark, Step, Typing, OpenTransactionsNamed, Requests
      <3>2. Due(who[l], begun[l]) \in SUBSET Articles
        BY <3>1 DEF Due, Typing, TypeOK
      <3>3. QED
        BY <2>1, <2>3, <3>2, StepTyping DEF LearnMark, Typing, TypeOK, rows
    <2>4. CASE LearnRecord(l)
      BY <2>1, <2>4, StepTyping DEF LearnRecord, Typing, TypeOK, rows
    <2>5. CASE LearnCommit(l)
      <3>1. who[l] \in Users /\ batch[l] \in SUBSET Articles
        BY <2>5 DEF LearnCommit, Step, Typing, TypeOK, OpenTransactionsNamed, Requests
      <3>2. /\ marked' \in [Users -> SUBSET Articles]
            /\ learnings' \subseteq Users \X Articles
            /\ batch' \in [Learners \cup {Retainer} -> SUBSET Articles]
        BY <2>5, <3>1 DEF LearnCommit, Typing, TypeOK
      <3>3. boosts' \in [Users -> [Articles -> Nat]]
        BY <2>5, <3>1 DEF LearnCommit, Typing, TypeOK
      <3>4. QED
        BY <2>1, <2>5, <3>2, <3>3, StepTyping DEF LearnCommit, Typing, TypeOK
    <2>6. QED
      BY <1>4, <2>2, <2>3, <2>4, <2>5 DEF LearnStep
  <1>5. ASSUME NEW l \in Learners, NEW u \in Users, LearnBegin(l, u)
        PROVE  Typing'
    BY <1>5, ConstantsAssumption
    DEF LearnBegin, Typing, TypeOK, OpenTransactionsNamed, rows, Procs, Requests
  <1>6. CASE RetainStep
    <2>1. Retainer \in Procs /\ Retainer \notin Savers /\ Retainer \notin Learners
      BY ConstantsAssumption DEF Procs, Requests
    <2>2. CASE RetainList
      <3> DEFINE listed == {a \in articles \cap Old :
                               \A p \in Requests : ~SharesArticle(p, a)}
      <3>1. listed \in SUBSET Articles
        BY DEF Typing, TypeOK
      <3>2. batch' = [batch EXCEPT ![Retainer] = listed]
        BY <2>2 DEF RetainList
      <3> HIDE DEF listed
      <3>3. batch' \in [Learners \cup {Retainer} -> SUBSET Articles]
        BY <3>1, <3>2 DEF Typing, TypeOK
      <3>4. Step(Retainer, "idle", "listed") /\ UNCHANGED <<now, rows, doomed>>
        BY <2>2 DEF RetainList
      <3>5. QED
        BY <2>1, <3>3, <3>4, StepTyping DEF Typing, TypeOK, rows
    <2>3. CASE RetainDelete
      BY <2>1, <2>3, StepTyping DEF RetainDelete, Typing, TypeOK, rows
    <2>4. CASE RetainCommit
      <3>1. /\ articles' \subseteq Articles
            /\ saved' \in [Users -> SUBSET Articles]
            /\ savedAt' \in [Users -> [Articles -> Nat]]
            /\ marked' \in [Users -> SUBSET Articles]
            /\ learnings' \subseteq Users \X Articles
            /\ batch' \in [Learners \cup {Retainer} -> SUBSET Articles]
            /\ doomed' \subseteq Articles
        BY <2>4 DEF RetainCommit, Typing, TypeOK
      <3>2. QED
        BY <2>1, <2>4, <3>1, StepTyping DEF RetainCommit, Typing, TypeOK
    <2>5. QED
      BY <1>6, <2>2, <2>3, <2>4 DEF RetainStep
  <1>7. ASSUME NEW p \in Procs, Rollback(p)
        PROVE  Typing'
    <2>1. /\ batch' \in [Learners \cup {Retainer} -> SUBSET Articles]
          /\ doomed' \subseteq Articles
      BY <1>7 DEF Rollback, Typing, TypeOK
    <2>2. QED
      BY <1>7, <2>1, StepTyping DEF Rollback, Typing, TypeOK, rows
  <1>8. CASE Tick
    BY <1>8 DEF Tick, Typing, TypeOK, OpenTransactionsNamed, rows, txs
  <1>9. CASE UNCHANGED vars
    BY <1>9 DEF vars, Typing, TypeOK, OpenTransactionsNamed, rows, txs
  <1>10. QED
    BY <1>1, <1>2, <1>3, <1>4, <1>5, <1>6, <1>7, <1>8, <1>9 DEF Next

\* Every variable keeps its type, and no open transaction forgets its user.
THEOREM TypeCorrect == Spec => []TypeOK
  <1>1. Typing => TypeOK
    BY DEF Typing
  <1>2. QED
    BY <1>1, InitTyping, NextTyping, PTL DEF Spec

-----------------------------------------------------------------------------
(* The limit of saved articles *)

\* The row of a user is locked by one transaction at a time.
OneHolder ==
    \A p, q \in Requests, u \in Users :
        HoldsUser(p, u) /\ HoldsUser(q, u) => p = q

\* A Save that has counted the rows of its user still has room: only a holder of
\* the user's row adds one.
RoomLeft ==
    \A s \in Savers :
        pc[s] \in {"room", "inserted"} => Cardinality(saved[who[s]]) < Limit

LimitInv == Typing /\ OneHolder /\ RoomLeft /\ SavedWithinLimit

\* The sets of saved articles are finite, and shrink in size with every subset.
LEMMA SavedFinite ==
    ASSUME Typing, NEW u \in Users
    PROVE  /\ IsFiniteSet(saved[u])
           /\ Cardinality(saved[u]) \in Nat
           /\ \A T : T \subseteq saved[u] =>
                 Cardinality(T) \in Nat /\ Cardinality(T) <= Cardinality(saved[u])
  <1>1. saved[u] \subseteq Articles
    BY DEF Typing, TypeOK
  <1>2. IsFiniteSet(saved[u])
    BY <1>1, FS_Subset, ConstantsAssumption
  <1>3. QED
    BY <1>2, FS_Subset, FS_CardinalityType

LEMMA InitLimit == Init => LimitInv
  <1>1. SUFFICES ASSUME Init PROVE LimitInv
    OBVIOUS
  <1>2. Typing
    BY <1>1, InitTyping
  <1>3. OneHolder /\ RoomLeft
    BY <1>1 DEF Init, OneHolder, RoomLeft, HoldsUser, Procs, Requests
  <1>4. SavedWithinLimit
    BY <1>1, FS_EmptySet, ConstantsAssumption DEF Init, SavedWithinLimit
  <1>5. QED
    BY <1>2, <1>3, <1>4 DEF LimitInv

\* A step in which no set of saved articles grows, and no request takes the row of
\* a user or passes the count, keeps the invariant.
LEMMA ShrinkKeepsLimit ==
    ASSUME LimitInv, Typing',
           \A u \in Users : saved'[u] \subseteq saved[u],
           \A p \in Requests, u \in Users : HoldsUser(p, u)' => HoldsUser(p, u),
           \A s \in Savers : pc'[s] \in {"room", "inserted"} =>
               who'[s] = who[s] /\ pc[s] \in {"room", "inserted"}
    PROVE  LimitInv'
  <1>1. OneHolder'
    BY DEF LimitInv, OneHolder
  <1>2. ASSUME NEW u \in Users
        PROVE  /\ Cardinality(saved'[u]) \in Nat
               /\ Cardinality(saved[u]) \in Nat
               /\ Cardinality(saved'[u]) <= Cardinality(saved[u])
    BY SavedFinite DEF LimitInv
  <1>3. SavedWithinLimit'
    BY <1>2, ConstantsAssumption DEF LimitInv, SavedWithinLimit
  <1>4. RoomLeft'
    <2> SUFFICES ASSUME NEW s \in Savers, pc'[s] \in {"room", "inserted"}
                 PROVE  Cardinality(saved'[who'[s]]) < Limit
      BY DEF RoomLeft
    <2>1. who'[s] = who[s] /\ Cardinality(saved[who[s]]) < Limit
      BY DEF LimitInv, RoomLeft
    <2>2. who[s] \in Users
      BY <2>1 DEF LimitInv, Typing, OpenTransactionsNamed, Requests
    <2>3. QED
      BY <1>2, <2>1, <2>2, ConstantsAssumption
  <1>5. QED
    BY <1>1, <1>3, <1>4 DEF LimitInv

\* A request holds the row of its user from its second statement on, and lets go
\* when its transaction ends.
LEMMA StepHolds ==
    ASSUME NEW p \in Procs, NEW from, NEW to, Step(p, from, to), Typing,
           from \notin {"idle", "begun"} \/ to \in {"idle", "begun"},
           NEW q \in Requests, NEW u \in Users, HoldsUser(q, u)'
    PROVE  HoldsUser(q, u)
  <1>1. CASE q = p
    BY <1>1 DEF HoldsUser, Step, Forget, Typing, TypeOK, Procs, Requests
  <1>2. CASE q # p
    BY <1>2 DEF HoldsUser, Step, Forget, Typing, TypeOK, Procs, Requests
  <1>3. QED
    BY <1>1, <1>2

\* The same of the count of a Save.
LEMMA StepCounted ==
    ASSUME NEW p \in Procs, NEW from, NEW to, Step(p, from, to), Typing,
           to \in {"room", "inserted"} => from \in {"room", "inserted"},
           NEW s \in Savers, pc'[s] \in {"room", "inserted"}
    PROVE  who'[s] = who[s] /\ pc[s] \in {"room", "inserted"}
  BY DEF Step, Forget, Typing, TypeOK, Procs, Requests

\* A statement that neither takes the row of a user nor counts nor saves keeps the
\* invariant.
LEMMA StepKeepsLimit ==
    ASSUME LimitInv, Typing', NEW p \in Procs, NEW from, NEW to,
           Step(p, from, to),
           from \notin {"idle", "begun"} \/ to \in {"idle", "begun"},
           to \in {"room", "inserted"} => from \in {"room", "inserted"},
           \A u \in Users : saved'[u] \subseteq saved[u]
    PROVE  LimitInv'
  <1>1. Typing
    BY DEF LimitInv
  <1>2. \A q \in Requests, u \in Users : HoldsUser(q, u)' => HoldsUser(q, u)
    BY <1>1, StepHolds
  <1>3. \A s \in Savers : pc'[s] \in {"room", "inserted"} =>
            who'[s] = who[s] /\ pc[s] \in {"room", "inserted"}
    BY <1>1, StepCounted
  <1>4. QED
    BY <1>2, <1>3, ShrinkKeepsLimit

\* A request that finds the row of its user free takes it alone.
LEMMA LockKeepsLimit ==
    ASSUME LimitInv, Typing', NEW p \in Requests, UserFree(who[p]),
           Step(p, "begun", "locked"), UNCHANGED <<now, rows, batch, doomed>>
    PROVE  LimitInv'
  <1>1. Typing /\ p \in Procs /\ who[p] \in Users
    BY DEF LimitInv, Typing, OpenTransactionsNamed, Step, Procs
  <1>2. who' = who /\ saved' = saved
    BY DEF Step, rows
  <1>3. \A q \in Requests, u \in Users :
            HoldsUser(q, u)' => HoldsUser(q, u) \/ q = p
    BY <1>1, <1>2 DEF HoldsUser, Step, Typing, TypeOK
  <1>4. \A q \in Requests : ~HoldsUser(q, who[p])
    BY DEF UserFree
  <1>5. OneHolder'
    <2> SUFFICES ASSUME NEW q \in Requests, NEW r \in Requests, NEW u \in Users,
                        HoldsUser(q, u)', HoldsUser(r, u)'
                 PROVE  q = r
      BY DEF OneHolder
    <2>1. who[q] = u /\ who[r] = u
      BY <1>2 DEF HoldsUser
    <2>2. QED
      BY <1>3, <1>4, <2>1 DEF LimitInv, OneHolder
  <1>6. RoomLeft' /\ SavedWithinLimit'
    <2>1. \A s \in Savers : pc'[s] \in {"room", "inserted"} =>
              pc[s] \in {"room", "inserted"}
      BY <1>1, StepCounted
    <2>2. QED
      BY <1>2, <2>1 DEF LimitInv, RoomLeft, SavedWithinLimit
  <1>7. QED
    BY <1>5, <1>6 DEF LimitInv

LEMMA CountKeepsLimit ==
    ASSUME LimitInv, Typing', NEW s \in Savers, SaveCount(s)
    PROVE  LimitInv'
  <1>1. /\ Typing /\ s \in Procs /\ s \in Requests /\ pc[s] = "found"
        /\ who[s] \in Users
    BY DEF LimitInv, Typing, OpenTransactionsNamed, SaveCount, Step, Procs, Requests
  <1>2. CASE Cardinality(saved[who[s]]) >= Limit
    BY <1>1, <1>2, StepKeepsLimit DEF SaveCount, rows
  <1>3. CASE ~(Cardinality(saved[who[s]]) >= Limit)
    <2>1. Step(s, "found", "room") /\ saved' = saved
      BY <1>3 DEF SaveCount, rows
    <2>2. who' = who /\ pc' = [pc EXCEPT ![s] = "room"]
      BY <2>1 DEF Step
    <2>3. OneHolder'
      <3>1. \A q \in Requests, u \in Users : HoldsUser(q, u)' => HoldsUser(q, u)
        BY <1>1, <2>1, StepHolds
      <3>2. QED
        BY <3>1 DEF LimitInv, OneHolder
    <2>4. Cardinality(saved[who[s]]) < Limit
      BY <1>1, <1>3, SavedFinite, ConstantsAssumption
    <2>5. RoomLeft'
      BY <1>1, <2>1, <2>2, <2>4 DEF LimitInv, RoomLeft, Typing, TypeOK
    <2>6. QED
      BY <2>1, <2>3, <2>5 DEF LimitInv, SavedWithinLimit
  <1>4. QED
    BY <1>2, <1>3

\* A save adds one article to the rows that its request has counted under the lock,
\* and no other request of the user has counted them.
LEMMA CommitKeepsLimit ==
    ASSUME LimitInv, Typing', NEW s \in Savers, SaveCommit(s)
    PROVE  LimitInv'
  <1> DEFINE u == who[s]
  <1>1. /\ Typing /\ s \in Procs /\ s \in Requests /\ pc[s] = "inserted"
        /\ u \in Users /\ Step(s, "inserted", "idle")
    BY DEF LimitInv, Typing, OpenTransactionsNamed, SaveCommit, Step, Procs, Requests
  <1>2. HoldsUser(s, u)
    BY <1>1 DEF HoldsUser
  <1>3. /\ saved'[u] = saved[u] \cup {what[s]}
        /\ \A v \in Users : v # u => saved'[v] = saved[v]
    BY <1>1 DEF SaveCommit, Typing, TypeOK
  <1>4. Cardinality(saved[u]) < Limit
    BY <1>1 DEF LimitInv, RoomLeft
  <1>5. IsFiniteSet(saved[u]) /\ Cardinality(saved[u]) \in Nat
    BY <1>1, SavedFinite
  <1>6. \/ Cardinality(saved'[u]) = Cardinality(saved[u])
        \/ Cardinality(saved'[u]) = Cardinality(saved[u]) + 1
    <2>1. \/ Cardinality(saved[u] \cup {what[s]}) = Cardinality(saved[u])
          \/ Cardinality(saved[u] \cup {what[s]}) = Cardinality(saved[u]) + 1
      BY <1>5, FS_AddElement, Zenon
    <2>2. QED
      BY <1>3, <2>1
  <1>7. Cardinality(saved'[u]) <= Limit
    BY <1>4, <1>5, <1>6, ConstantsAssumption
  <1>8. SavedWithinLimit'
    BY <1>3, <1>7 DEF LimitInv, SavedWithinLimit
  <1>9. OneHolder'
    <2>1. \A q \in Requests, v \in Users : HoldsUser(q, v)' => HoldsUser(q, v)
      BY <1>1, StepHolds
    <2>2. QED
      BY <2>1 DEF LimitInv, OneHolder
  <1>10. RoomLeft'
    <2> SUFFICES ASSUME NEW t \in Savers, pc'[t] \in {"room", "inserted"}
                 PROVE  Cardinality(saved'[who'[t]]) < Limit
      BY DEF RoomLeft
    <2>1. who'[t] = who[t] /\ pc[t] \in {"room", "inserted"}
      BY <1>1, StepCounted
    <2>2. t # s
      BY <1>1 DEF Step, Typing, TypeOK
    <2>3. who[t] \in Users /\ HoldsUser(t, who[t])
      BY <1>1, <2>1 DEF HoldsUser, Typing, OpenTransactionsNamed, Requests
    <2>4. who[t] # u
      BY <1>1, <1>2, <2>2, <2>3 DEF LimitInv, OneHolder, Requests
    <2>5. QED
      BY <1>3, <2>1, <2>3, <2>4 DEF LimitInv, RoomLeft
  <1>11. QED
    BY <1>8, <1>9, <1>10 DEF LimitInv

LEMMA NextLimit == LimitInv /\ [Next]_vars => LimitInv'
  <1> SUFFICES ASSUME LimitInv, [Next]_vars
               PROVE  LimitInv'
    OBVIOUS
  <1>1. Typing /\ Typing'
    BY NextTyping DEF LimitInv
  <1>2. ASSUME NEW s \in Savers, SaveStep(s)
        PROVE  LimitInv'
    <2>1. s \in Procs /\ s \in Requests
      BY DEF Procs, Requests
    <2>2. CASE SaveLockUser(s)
      BY <1>1, <2>1, <2>2, LockKeepsLimit DEF SaveLockUser
    <2>3. CASE SaveCheckSaved(s)
      BY <1>1, <2>1, <2>3, StepKeepsLimit DEF SaveCheckSaved, rows
    <2>4. CASE SaveCheckArticle(s)
      BY <1>1, <2>1, <2>4, StepKeepsLimit DEF SaveCheckArticle, rows
    <2>5. CASE SaveCount(s)
      BY <1>1, <2>5, CountKeepsLimit
    <2>6. CASE SaveInsert(s)
      BY <1>1, <2>1, <2>6, StepKeepsLimit DEF SaveInsert, rows
    <2>7. CASE SaveCommit(s)
      BY <1>1, <2>7, CommitKeepsLimit
    <2>8. QED
      BY <1>2, <2>2, <2>3, <2>4, <2>5, <2>6, <2>7 DEF SaveStep
  <1>3. ASSUME NEW s \in Savers, NEW u \in Users, NEW a \in Articles,
               SaveBegin(s, u, a)
        PROVE  LimitInv'
    <2>1. \A v \in Users : saved'[v] \subseteq saved[v]
      BY <1>3 DEF SaveBegin, rows
    <2>2. \A p \in Requests, v \in Users : HoldsUser(p, v)' => HoldsUser(p, v)
      BY <1>1, <1>3 DEF SaveBegin, HoldsUser, Typing, TypeOK, Requests, Procs
    <2>3. \A t \in Savers : pc'[t] \in {"room", "inserted"} =>
              who'[t] = who[t] /\ pc[t] \in {"room", "inserted"}
      BY <1>1, <1>3 DEF SaveBegin, Typing, TypeOK, Requests, Procs
    <2>4. QED
      BY <1>1, <2>1, <2>2, <2>3, ShrinkKeepsLimit
  <1>4. ASSUME NEW u \in Users, NEW a \in Articles, Unsave(u, a)
        PROVE  LimitInv'
    BY <1>1, <1>4, ShrinkKeepsLimit DEF Unsave, txs, HoldsUser, Typing, TypeOK
  <1>5. ASSUME NEW l \in Learners, LearnStep(l)
        PROVE  LimitInv'
    <2>1. l \in Procs /\ l \in Requests
      BY DEF Procs, Requests
    <2>2. CASE LearnLockUser(l)
      BY <1>1, <2>1, <2>2, LockKeepsLimit DEF LearnLockUser
    <2>3. CASE LearnMark(l)
      BY <1>1, <2>1, <2>3, StepKeepsLimit DEF LearnMark, rows
    <2>4. CASE LearnRecord(l)
      BY <1>1, <2>1, <2>4, StepKeepsLimit DEF LearnRecord, rows
    <2>5. CASE LearnCommit(l)
      BY <1>1, <2>1, <2>5, StepKeepsLimit DEF LearnCommit
    <2>6. QED
      BY <1>5, <2>2, <2>3, <2>4, <2>5 DEF LearnStep
  <1>6. ASSUME NEW l \in Learners, NEW u \in Users, LearnBegin(l, u)
        PROVE  LimitInv'
    <2>1. \A v \in Users : saved'[v] \subseteq saved[v]
      BY <1>6 DEF LearnBegin, rows
    <2>2. \A p \in Requests, v \in Users : HoldsUser(p, v)' => HoldsUser(p, v)
      BY <1>1, <1>6 DEF LearnBegin, HoldsUser, Typing, TypeOK, Requests, Procs
    <2>3. \A t \in Savers : pc'[t] \in {"room", "inserted"} =>
              who'[t] = who[t] /\ pc[t] \in {"room", "inserted"}
      BY <1>1, <1>6 DEF LearnBegin, Typing, TypeOK, Requests, Procs
    <2>4. QED
      BY <1>1, <2>1, <2>2, <2>3, ShrinkKeepsLimit
  <1>7. CASE RetainStep
    <2>1. \A v \in Users : saved'[v] \subseteq saved[v]
      BY <1>1, <1>7
      DEF RetainStep, RetainList, RetainDelete, RetainCommit, rows, Typing, TypeOK
    <2>2. PICK from, to :
              /\ Step(Retainer, from, to)
              /\ from \in {"idle", "listed", "deleted"}
              /\ to \in {"idle", "listed", "deleted"}
      BY <1>7 DEF RetainStep, RetainList, RetainDelete, RetainCommit
    <2>3. Retainer \in Procs /\ Retainer \notin Requests
      BY ConstantsAssumption DEF Procs, Requests
    <2>4. \A p \in Requests, v \in Users : HoldsUser(p, v)' => HoldsUser(p, v)
      BY <1>1, <2>2, <2>3
      DEF HoldsUser, Step, Forget, Typing, TypeOK, Requests, Procs
    <2>5. QED
      BY <1>1, <2>1, <2>2, <2>3, <2>4, StepCounted, ShrinkKeepsLimit
  <1>8. ASSUME NEW p \in Procs, Rollback(p)
        PROVE  LimitInv'
    BY <1>1, <1>8, StepKeepsLimit DEF Rollback, rows
  <1>9. CASE Tick \/ UNCHANGED vars
    BY <1>9
    DEF Tick, vars, txs, rows, LimitInv, Typing, TypeOK, OpenTransactionsNamed,
        OneHolder, HoldsUser, RoomLeft, SavedWithinLimit
  <1>10. QED
    BY <1>2, <1>3, <1>4, <1>5, <1>6, <1>7, <1>8, <1>9 DEF Next

\* However many requests save for however many users at the same time, no user ever
\* has more than SavedArticlesLimit saved articles (saved_articles.go, Save).
THEOREM LimitHolds == Spec => []SavedWithinLimit
  <1>1. LimitInv => SavedWithinLimit
    BY DEF LimitInv
  <1>2. QED
    BY <1>1, InitLimit, NextLimit, PTL DEF Spec

-----------------------------------------------------------------------------
(* The retention job and the saves *)

\* A save refers to an article that is there.
SavesExist == \A u \in Users : saved[u] \subseteq articles

\* A save that is inserted and not committed shares its article, which is there and
\* not locked by the retention job.
InsertedShares ==
    \A s \in Savers :
        pc[s] = "inserted" => what[s] \in articles /\ ~Removing(what[s])

\* The retention job deletes only articles that it has locked ...
DoomedLocked ==
    /\ doomed \subseteq batch[Retainer]
    /\ doomed # {} => pc[Retainer] = "deleted"

\* ... and that nobody has saved since.
DoomedUnsaved == \A u \in Users : saved[u] \cap doomed = {}

RetentionInv ==
    Typing /\ SavesExist /\ InsertedShares /\ DoomedLocked /\ DoomedUnsaved

LEMMA InitRetention == Init => RetentionInv
  <1> SUFFICES ASSUME Init PROVE RetentionInv
    OBVIOUS
  <1>1. Typing
    BY InitTyping
  <1>2. QED
    BY <1>1
    DEF Init, RetentionInv, SavesExist, InsertedShares, DoomedLocked,
        DoomedUnsaved, Procs, Requests

\* What a request does outside of an insert and of its commit does not touch what
\* the retention job has locked.
LEMMA RequestKeepsRetention ==
    ASSUME RetentionInv, Typing', NEW p \in Requests, pc' = [pc EXCEPT ![p] = pc'[p]],
           \A s \in Savers : pc'[s] = "inserted" =>
               pc[s] = "inserted" /\ what'[s] = what[s],
           \A u \in Users : saved'[u] \subseteq saved[u],
           articles' = articles, doomed' = doomed,
           batch'[Retainer] = batch[Retainer]
    PROVE  RetentionInv'
  <1>1. pc'[Retainer] = pc[Retainer]
    BY ConstantsAssumption DEF RetentionInv, Typing, TypeOK, Requests, Procs
  <1>2. QED
    BY <1>1
    DEF RetentionInv, SavesExist, InsertedShares, DoomedLocked, DoomedUnsaved,
        Removing

LEMMA StepKeepsRetention ==
    ASSUME RetentionInv, Typing', NEW p \in Requests, NEW from, NEW to,
           Step(p, from, to), to # "inserted",
           \A u \in Users : saved'[u] \subseteq saved[u],
           articles' = articles, doomed' = doomed,
           batch'[Retainer] = batch[Retainer]
    PROVE  RetentionInv'
  <1>1. /\ pc' = [pc EXCEPT ![p] = pc'[p]]
        /\ \A s \in Savers : pc'[s] = "inserted" =>
               pc[s] = "inserted" /\ what'[s] = what[s]
    BY DEF Step, Forget, RetentionInv, Typing, TypeOK, Requests, Procs
  <1>2. QED
    BY <1>1, RequestKeepsRetention

LEMMA NextRetention == RetentionInv /\ [Next]_vars => RetentionInv'
  <1> SUFFICES ASSUME RetentionInv, [Next]_vars
               PROVE  RetentionInv'
    OBVIOUS
  <1>1. Typing /\ Typing'
    BY NextTyping DEF RetentionInv
  <1>2. ASSUME NEW s \in Savers, SaveStep(s)
        PROVE  RetentionInv'
    <2>1. s \in Requests /\ s \in Procs /\ s # Retainer
      BY ConstantsAssumption DEF Requests, Procs
    <2>2. CASE SaveLockUser(s)
      BY <1>1, <2>1, <2>2, StepKeepsRetention DEF SaveLockUser, rows
    <2>3. CASE SaveCheckSaved(s)
      BY <1>1, <2>1, <2>3, StepKeepsRetention DEF SaveCheckSaved, rows
    <2>4. CASE SaveCheckArticle(s)
      BY <1>1, <2>1, <2>4, StepKeepsRetention DEF SaveCheckArticle, rows
    <2>5. CASE SaveCount(s)
      BY <1>1, <2>1, <2>5, StepKeepsRetention DEF SaveCount, rows
    <2>6. CASE SaveInsert(s)
      <3>1. UNCHANGED <<articles, saved, batch, doomed>> /\ ~Removing(what[s])
        BY <2>6 DEF SaveInsert, rows
      <3>2. CASE what[s] \in articles
        <4>1. Step(s, "room", "inserted")
          BY <2>6, <3>2 DEF SaveInsert
        <4>2. what' = what /\ pc' = [pc EXCEPT ![s] = "inserted"]
          BY <4>1 DEF Step
        <4>3. pc'[Retainer] = pc[Retainer]
          BY <1>1, <2>1, <4>2 DEF Typing, TypeOK
        <4>4. InsertedShares'
          BY <1>1, <2>1, <3>1, <3>2, <4>2, <4>3
          DEF RetentionInv, InsertedShares, Removing, Typing, TypeOK
        <4>5. QED
          BY <1>1, <3>1, <4>3, <4>4
          DEF RetentionInv, SavesExist, DoomedLocked, DoomedUnsaved
      <3>3. CASE what[s] \notin articles
        BY <1>1, <2>1, <2>6, <3>1, <3>3, StepKeepsRetention DEF SaveInsert
      <3>4. QED
        BY <3>2, <3>3
    <2>7. CASE SaveCommit(s)
      <3>1. /\ pc[s] = "inserted" /\ who[s] \in Users
            /\ what[s] \in articles /\ ~Removing(what[s])
        BY <1>1, <2>1, <2>7
        DEF SaveCommit, Step, RetentionInv, InsertedShares, Typing,
            OpenTransactionsNamed
      <3>2. what[s] \notin doomed
        BY <3>1 DEF RetentionInv, DoomedLocked, Removing
      <3>3. /\ \A u \in Users : saved'[u] \subseteq saved[u] \cup {what[s]}
            /\ UNCHANGED <<articles, batch, doomed>>
        BY <1>1, <2>7, <3>1 DEF SaveCommit, Typing, TypeOK
      <3>4. SavesExist' /\ DoomedUnsaved'
        BY <3>1, <3>2, <3>3 DEF RetentionInv, SavesExist, DoomedUnsaved
      <3>5. /\ pc'[Retainer] = pc[Retainer]
            /\ \A t \in Savers : pc'[t] = "inserted" =>
                   pc[t] = "inserted" /\ what'[t] = what[t]
        BY <1>1, <2>1, <2>7 DEF SaveCommit, Step, Forget, Typing, TypeOK
      <3>6. InsertedShares' /\ DoomedLocked'
        BY <3>3, <3>5 DEF RetentionInv, InsertedShares, DoomedLocked, Removing
      <3>7. QED
        BY <1>1, <3>4, <3>6 DEF RetentionInv
    <2>8. QED
      BY <1>2, <2>2, <2>3, <2>4, <2>5, <2>6, <2>7 DEF SaveStep
  <1>3. ASSUME NEW s \in Savers, NEW u \in Users, NEW a \in Articles,
               SaveBegin(s, u, a)
        PROVE  RetentionInv'
    <2>1. /\ s \in Requests
          /\ pc' = [pc EXCEPT ![s] = pc'[s]]
          /\ \A t \in Savers : pc'[t] = "inserted" =>
                 pc[t] = "inserted" /\ what'[t] = what[t]
      BY <1>1, <1>3 DEF SaveBegin, Typing, TypeOK, Requests, Procs
    <2>2. QED
      BY <1>1, <1>3, <2>1, RequestKeepsRetention DEF SaveBegin, rows
  <1>4. ASSUME NEW u \in Users, NEW a \in Articles, Unsave(u, a)
        PROVE  RetentionInv'
    <2>1. \A v \in Users : saved'[v] \subseteq saved[v]
      BY <1>1, <1>4 DEF Unsave, Typing, TypeOK
    <2>2. QED
      BY <1>1, <1>4, <2>1
      DEF Unsave, txs, RetentionInv, SavesExist, InsertedShares, DoomedLocked,
          DoomedUnsaved, Removing
  <1>5. ASSUME NEW l \in Learners, LearnStep(l)
        PROVE  RetentionInv'
    <2>1. l \in Requests /\ l # Retainer
      BY ConstantsAssumption DEF Requests
    <2>2. CASE LearnLockUser(l)
      BY <1>1, <2>1, <2>2, StepKeepsRetention DEF LearnLockUser, rows
    <2>3. CASE LearnMark(l)
      <3>1. batch'[Retainer] = batch[Retainer]
        BY <1>1, <2>1, <2>3 DEF LearnMark, Typing, TypeOK
      <3>2. QED
        BY <1>1, <2>1, <2>3, <3>1, StepKeepsRetention DEF LearnMark, rows
    <2>4. CASE LearnRecord(l)
      BY <1>1, <2>1, <2>4, StepKeepsRetention DEF LearnRecord, rows
    <2>5. CASE LearnCommit(l)
      <3>1. batch'[Retainer] = batch[Retainer]
        BY <1>1, <2>1, <2>5 DEF LearnCommit, Typing, TypeOK
      <3>2. QED
        BY <1>1, <2>1, <2>5, <3>1, StepKeepsRetention DEF LearnCommit
    <2>6. QED
      BY <1>5, <2>2, <2>3, <2>4, <2>5 DEF LearnStep
  <1>6. ASSUME NEW l \in Learners, NEW u \in Users, LearnBegin(l, u)
        PROVE  RetentionInv'
    <2>1. /\ l \in Requests
          /\ pc' = [pc EXCEPT ![l] = pc'[l]]
          /\ \A t \in Savers : pc'[t] = "inserted" =>
                 pc[t] = "inserted" /\ what'[t] = what[t]
      BY <1>1, <1>6 DEF LearnBegin, Typing, TypeOK, Requests, Procs
    <2>2. QED
      BY <1>1, <1>6, <2>1, RequestKeepsRetention DEF LearnBegin, rows
  <1>7. CASE RetainStep
    <2>1. Retainer \in Procs /\ Retainer \notin Requests
      BY ConstantsAssumption DEF Procs, Requests
    <2>2. ASSUME NEW from, NEW to, Step(Retainer, from, to)
          PROVE  \A s \in Savers :
                     pc'[s] = pc[s] /\ (pc[s] = "inserted" => what'[s] = what[s])
      BY <1>1, <2>1, <2>2 DEF Step, Forget, Typing, TypeOK, Procs, Requests
    <2>3. CASE RetainList
      <3>1. /\ Step(Retainer, "idle", "listed")
            /\ UNCHANGED <<articles, saved, doomed>>
        BY <2>3 DEF RetainList, rows
      <3>2. \A a \in batch'[Retainer], s \in Savers :
                pc[s] = "inserted" => what[s] # a
        BY <1>1, <2>3 DEF RetainList, SharesArticle, Typing, TypeOK, Requests
      <3>3. doomed = {}
        BY <3>1 DEF Step, RetentionInv, DoomedLocked
      <3>4. InsertedShares'
        BY <2>2, <3>1, <3>2 DEF RetentionInv, InsertedShares, Removing
      <3>5. QED
        BY <1>1, <3>1, <3>3, <3>4
        DEF RetentionInv, SavesExist, DoomedLocked, DoomedUnsaved
    <2>4. CASE RetainDelete
      <3>1. /\ Step(Retainer, "listed", "deleted")
            /\ UNCHANGED <<articles, saved, batch>>
            /\ doomed' = {a \in batch[Retainer] : ~SavedBySome(a)}
        BY <2>4 DEF RetainDelete, rows
      <3>2. pc[Retainer] = "listed" /\ pc'[Retainer] = "deleted"
        BY <1>1, <2>1, <3>1 DEF Step, Typing, TypeOK
      <3>3. InsertedShares'
        BY <2>2, <3>1, <3>2 DEF RetentionInv, InsertedShares, Removing
      <3>4. DoomedLocked' /\ DoomedUnsaved'
        BY <3>1, <3>2 DEF DoomedLocked, DoomedUnsaved, SavedBySome
      <3>5. QED
        BY <1>1, <3>1, <3>3, <3>4 DEF RetentionInv, SavesExist
    <2>5. CASE RetainCommit
      <3>1. /\ Step(Retainer, "deleted", "idle")
            /\ articles' = articles \ doomed
            /\ \A u \in Users : saved'[u] = saved[u] \ doomed
            /\ doomed' = {}
        BY <2>5 DEF RetainCommit
      <3>2. pc[Retainer] = "deleted" /\ pc'[Retainer] = "idle"
        BY <1>1, <2>1, <3>1 DEF Step, Typing, TypeOK
      <3>3. \A s \in Savers : pc[s] = "inserted" => what[s] \notin doomed
        BY <3>2 DEF RetentionInv, InsertedShares, DoomedLocked, Removing
      <3>4. InsertedShares'
        BY <2>2, <3>1, <3>2, <3>3 DEF RetentionInv, InsertedShares, Removing
      <3>5. QED
        BY <1>1, <3>1, <3>4
        DEF RetentionInv, SavesExist, DoomedLocked, DoomedUnsaved
    <2>6. QED
      BY <1>7, <2>3, <2>4, <2>5 DEF RetainStep
  <1>8. ASSUME NEW p \in Requests, Rollback(p)
        PROVE  RetentionInv'
    <2>1. p # Retainer
      BY ConstantsAssumption DEF Requests
    <2>2. batch'[Retainer] = batch[Retainer] /\ doomed' = doomed
      BY <1>1, <1>8, <2>1 DEF Rollback, Typing, TypeOK
    <2>3. QED
      BY <1>1, <1>8, <2>2, StepKeepsRetention DEF Rollback, rows
  <1>9. CASE Rollback(Retainer)
    <2>1. /\ Step(Retainer, pc[Retainer], "idle")
          /\ doomed' = {} /\ UNCHANGED <<articles, saved>>
      BY <1>9 DEF Rollback, rows
    <2>2. /\ pc'[Retainer] = "idle"
          /\ \A s \in Savers :
                 pc'[s] = pc[s] /\ (pc[s] = "inserted" => what'[s] = what[s])
      BY <1>1, <2>1, ConstantsAssumption
      DEF Step, Forget, Typing, TypeOK, Procs, Requests
    <2>3. QED
      BY <1>1, <2>1, <2>2
      DEF RetentionInv, SavesExist, InsertedShares, DoomedLocked, DoomedUnsaved,
          Removing
  <1>10. CASE Tick \/ UNCHANGED vars
    BY <1>1, <1>10
    DEF Tick, vars, txs, rows, RetentionInv, SavesExist, InsertedShares,
        DoomedLocked, DoomedUnsaved, Removing
  <1>11. QED
    BY <1>2, <1>3, <1>4, <1>5, <1>6, <1>7, <1>8, <1>9, <1>10 DEF Next, Procs

\* In every reachable state, a step of the system takes articles only if nobody has
\* them saved.
LEMMA StepSparesSaved ==
    ASSUME RetentionInv, [Next]_vars
    PROVE  \A u \in Users : saved[u] \subseteq articles'
  <1>1. articles' = articles \/ articles' = articles \ doomed
    BY DEF Next, vars, rows, txs, Tick, Rollback, RetainStep, RetainList,
           RetainDelete, RetainCommit, SaveStep, SaveBegin, SaveLockUser,
           SaveCheckSaved, SaveCheckArticle, SaveCount, SaveInsert, SaveCommit,
           Unsave, LearnBegin, LearnStep, LearnLockUser, LearnMark, LearnRecord,
           LearnCommit
  <1>2. QED
    BY <1>1 DEF RetentionInv, SavesExist, DoomedUnsaved

\* The retention job never deletes an article that somebody has saved, however the
\* saves interleave with its three statements (articles.go, DeleteExpired).
THEOREM RetentionHolds == Spec => RetentionSparesSaved
  <1>1. RetentionInv /\ [Next]_vars =>
            [\A u \in Users : saved[u] \subseteq articles']_vars
    BY StepSparesSaved
  <1>2. QED
    BY <1>1, InitRetention, NextRetention, PTL DEF Spec, RetentionSparesSaved

-----------------------------------------------------------------------------
(* The learning that follows a save *)

\* A transaction that makes a step moves alone, and keeps what it works for until
\* it ends.
LEMMA StepFrame ==
    ASSUME Typing, NEW p \in Procs, NEW from, NEW to, Step(p, from, to)
    PROVE  /\ pc[p] = from /\ pc'[p] = to
           /\ \A q \in Procs : q # p => pc'[q] = pc[q]
           /\ \A q \in Requests :
                 q # p => who'[q] = who[q] /\ begun'[q] = begun[q]
           /\ \A s \in Savers : s # p => what'[s] = what[s]
           /\ to # "idle" => who' = who /\ what' = what /\ begun' = begun
           /\ to = "idle" /\ p \in Requests => begun'[p] = 0
  BY DEF Step, Forget, Typing, TypeOK, Procs, Requests

LEMMA InitLearnedOnce == Init => LearnedOnce
  BY DEF Init, LearnedOnce

\* The mark, the record and the new interests of a save are written by one commit,
\* and the record goes only with its article.
LEMMA NextLearnedOnce == Typing /\ LearnedOnce /\ [Next]_vars => LearnedOnce'
  <1> SUFFICES ASSUME Typing, LearnedOnce, [Next]_vars
               PROVE  LearnedOnce'
    OBVIOUS
  <1>1. CASE UNCHANGED <<articles, marked, learnings, boosts>>
    BY <1>1 DEF LearnedOnce
  <1>2. ASSUME NEW u \in Users, NEW a \in Articles, Unsave(u, a)
        PROVE  LearnedOnce'
    <2>1. /\ UNCHANGED <<articles, learnings, boosts>>
          /\ \A v \in Users : marked'[v] \subseteq marked[v]
      BY <1>2 DEF Unsave, Typing, TypeOK
    <2>2. QED
      BY <2>1 DEF LearnedOnce
  <1>3. ASSUME NEW l \in Learners, LearnCommit(l)
        PROVE  LearnedOnce'
    <2>1. PICK u \in Users : u = who[l]
      BY <1>3 DEF LearnCommit, Step, Typing, OpenTransactionsNamed, Requests
    <2>2. PICK B \in SUBSET Articles : B = batch[l]
      BY DEF Typing, TypeOK
    <2>3. /\ articles' = articles
          /\ marked' = [marked EXCEPT ![u] = @ \cup B]
          /\ learnings' = learnings \cup ({u} \X B)
          /\ boosts' = [boosts EXCEPT ![u] =
                 [a \in Articles |-> @[a] + (IF a \in Fresh(l) THEN 1 ELSE 0)]]
      BY <1>3, <2>1, <2>2 DEF LearnCommit
    <2>4. \A a \in Articles : a \in Fresh(l) <=> a \in B /\ <<u, a>> \notin learnings
      BY <2>1, <2>2 DEF Fresh
    <2>5. \A v \in Users, a \in Articles :
              <<v, a>> \in learnings' <=> <<v, a>> \in learnings \/ (v = u /\ a \in B)
      BY <2>3
    <2>6. ASSUME NEW v \in Users, NEW a \in articles
          PROVE  boosts'[v][a] = (IF <<v, a>> \in learnings' THEN 1 ELSE 0)
      <3>1. a \in Articles
        BY DEF Typing, TypeOK
      <3>2. boosts[v][a] = (IF <<v, a>> \in learnings THEN 1 ELSE 0)
        BY DEF LearnedOnce
      <3>3. CASE v = u
        <4>1. boosts'[u][a] = boosts[u][a] + (IF a \in Fresh(l) THEN 1 ELSE 0)
          BY <2>3, <3>1 DEF Typing, TypeOK
        <4>2. QED
          BY <2>4, <2>5, <3>1, <3>2, <3>3, <4>1
      <3>4. CASE v # u
        BY <2>3, <2>5, <3>1, <3>2, <3>4 DEF Typing, TypeOK
      <3>5. QED
        BY <3>3, <3>4
    <2>7. ASSUME NEW v \in Users, NEW a \in marked'[v]
          PROVE  <<v, a>> \in learnings'
      <3>1. a \in marked[v] \/ (v = u /\ a \in B)
        BY <2>3 DEF Typing, TypeOK
      <3>2. QED
        BY <2>3, <3>1 DEF LearnedOnce
    <2>8. QED
      BY <2>3, <2>6, <2>7 DEF LearnedOnce
  <1>4. CASE RetainCommit
    <2>1. /\ articles' = articles \ doomed
          /\ \A u \in Users : marked'[u] = marked[u] \ doomed
          /\ learnings' = {x \in learnings : x[2] \notin doomed}
          /\ boosts' = boosts
      BY <1>4 DEF RetainCommit
    <2>2. \A u \in Users : \A a : a \notin doomed =>
              (<<u, a>> \in learnings' <=> <<u, a>> \in learnings)
      BY <2>1
    <2>3. QED
      BY <2>1, <2>2 DEF LearnedOnce
  <1>5. QED
    BY <1>1, <1>2, <1>3, <1>4
    DEF Next, vars, rows, Tick, Rollback, RetainStep, RetainList, RetainDelete,
        SaveStep, SaveBegin, SaveLockUser, SaveCheckSaved, SaveCheckArticle,
        SaveCount, SaveInsert, SaveCommit, LearnBegin, LearnStep, LearnLockUser,
        LearnMark, LearnRecord

\* However often an article is unsaved and saved again, and however the requests that
\* learn from it interleave, the interests of its user are raised once for it, and no
\* row is marked whose learning was not recorded (saved_articles.go,
\* applyDueSaveLearning).
THEOREM LearnedOnceHolds == Spec => []LearnedOnce
  BY InitTyping, NextTyping, InitLearnedOnce, NextLearnedOnce, PTL DEF Spec

-----------------------------------------------------------------------------
(* A save that is learned has lasted *)

\* No transaction began after now.
BegunPast == \A p \in Requests : begun[p] <= now

\* What a Save has found unsaved stays so until it commits: only a holder of the
\* user's row saves for the user.
StillUnsaved ==
    \A s \in Savers :
        pc[s] \in {"unsaved", "found", "room", "inserted"} =>
            what[s] \notin saved[who[s]]

\* The saves that a learning has marked are kept, with their dates, until it ends.
BatchKept ==
    \A l \in Learners : batch[l] # {} =>
        /\ pc[l] \in {"marked", "recorded"}
        /\ \A a \in batch[l] :
              a \in saved[who[l]] /\ savedAt[who[l]][a] + Delay <= now

\* An article that is not saved has no date of a save.
UnsavedUndated ==
    \A u \in Users : \A a \in Articles \ saved[u] : savedAt[u][a] = 0

Lasting ==
    LimitInv /\ RetentionInv /\ BegunPast /\ StillUnsaved /\ BatchKept
    /\ UnsavedUndated

LEMMA InitLasting == Init => Lasting
  <1> SUFFICES ASSUME Init PROVE Lasting
    OBVIOUS
  <1>1. LimitInv /\ RetentionInv
    BY InitLimit, InitRetention
  <1>2. BegunPast /\ StillUnsaved /\ BatchKept /\ UnsavedUndated
    BY DEF Init, BegunPast, StillUnsaved, BatchKept, UnsavedUndated, Procs, Requests
  <1>3. QED
    BY <1>1, <1>2 DEF Lasting

\* The dates of the transactions.
LEMMA NextBegun == Typing /\ BegunPast /\ [Next]_vars => BegunPast'
  <1> SUFFICES ASSUME Typing, BegunPast, [Next]_vars
               PROVE  BegunPast'
    OBVIOUS
  <1>1. ASSUME NEW p \in Procs, NEW from, NEW to, Step(p, from, to), now' = now
        PROVE  BegunPast'
    <2>1. \A q \in Requests : begun'[q] \in {begun[q], 0}
      BY <1>1, StepFrame
    <2>2. QED
      BY <1>1, <2>1 DEF BegunPast, Typing, TypeOK
  <1>2. ASSUME NEW s \in Savers, SaveStep(s)
        PROVE  BegunPast'
    BY <1>1, <1>2
    DEF SaveStep, SaveLockUser, SaveCheckSaved, SaveCheckArticle, SaveCount,
        SaveInsert, SaveCommit, Procs, Requests
  <1>3. ASSUME NEW l \in Learners, LearnStep(l)
        PROVE  BegunPast'
    BY <1>1, <1>3
    DEF LearnStep, LearnLockUser, LearnMark, LearnRecord, LearnCommit, Procs,
        Requests
  <1>4. CASE RetainStep
    BY <1>1, <1>4 DEF RetainStep, RetainList, RetainDelete, RetainCommit, Procs
  <1>5. ASSUME NEW p \in Procs, Rollback(p)
        PROVE  BegunPast'
    BY <1>1, <1>5 DEF Rollback
  <1>6. ASSUME NEW p \in Requests, begun' = [begun EXCEPT ![p] = now], now' = now
        PROVE  BegunPast'
    BY <1>6 DEF BegunPast, Typing, TypeOK
  <1>7. ASSUME NEW s \in Savers, NEW u \in Users, NEW a \in Articles,
               SaveBegin(s, u, a)
        PROVE  BegunPast'
    BY <1>6, <1>7 DEF SaveBegin, Requests
  <1>8. ASSUME NEW l \in Learners, NEW u \in Users, LearnBegin(l, u)
        PROVE  BegunPast'
    BY <1>6, <1>8 DEF LearnBegin, Requests
  <1>9. ASSUME now' \in {now, now + 1}, begun' = begun
        PROVE  BegunPast'
    BY <1>9 DEF BegunPast, Typing, TypeOK
  <1>10. QED
    BY <1>2, <1>3, <1>4, <1>5, <1>7, <1>8, <1>9
    DEF Next, vars, txs, Unsave, Tick

\* The statements that write no row: the ones of Save up to its insert, of the
\* learning up to its record, of the retention up to its delete, and a rollback.
Quiet(p) ==
    \/ p \in Savers /\ (\/ SaveLockUser(p) \/ SaveCheckSaved(p)
                        \/ SaveCheckArticle(p) \/ SaveCount(p) \/ SaveInsert(p))
    \/ p \in Savers /\ \E u \in Users, a \in Articles : SaveBegin(p, u, a)
    \/ p \in Learners /\ (LearnLockUser(p) \/ LearnMark(p) \/ LearnRecord(p))
    \/ p \in Learners /\ \E u \in Users : LearnBegin(p, u)
    \/ p = Retainer /\ (RetainList \/ RetainDelete)
    \/ Rollback(p)

LEMMA QuietRows ==
    ASSUME NEW p \in Procs, Quiet(p)
    PROVE  UNCHANGED rows /\ now' = now
  BY DEF Quiet, SaveLockUser, SaveCheckSaved, SaveCheckArticle, SaveCount,
         SaveInsert, SaveBegin, LearnLockUser, LearnMark, LearnRecord, LearnBegin,
         RetainList, RetainDelete, Rollback

\* The kinds of steps: one statement that writes no row, one commit, or the clock.
LEMMA NextKinds ==
    ASSUME [Next]_vars
    PROVE  \/ \E p \in Procs : Quiet(p)
           \/ \E s \in Savers : SaveCommit(s)
           \/ \E u \in Users, a \in Articles : Unsave(u, a)
           \/ \E l \in Learners : LearnCommit(l)
           \/ RetainCommit
           \/ Tick
           \/ UNCHANGED vars
  BY DEF Next, SaveStep, LearnStep, RetainStep, Quiet, Procs, Requests

\* A statement of Save keeps what was found, or has just found it.
LEMMA NextStillUnsaved == Lasting /\ [Next]_vars => StillUnsaved'
  <1> SUFFICES ASSUME Lasting, [Next]_vars
               PROVE  StillUnsaved'
    OBVIOUS
  <1> DEFINE Late == {"unsaved", "found", "room", "inserted"}
  <1>1. Typing /\ StillUnsaved /\ OneHolder
    BY DEF Lasting, LimitInv
  <1>2. ASSUME \A u \in Users : saved'[u] \subseteq saved[u],
               \A s \in Savers : pc'[s] \in Late =>
                   pc[s] \in Late /\ who'[s] = who[s] /\ what'[s] = what[s]
        PROVE  StillUnsaved'
    BY <1>1, <1>2 DEF StillUnsaved, Typing, OpenTransactionsNamed, Requests
  <1>3. ASSUME NEW p \in Procs, NEW from, NEW to, Step(p, from, to),
               to \in Late => from \in Late,
               \A u \in Users : saved'[u] \subseteq saved[u]
        PROVE  StillUnsaved'
    <2>1. \A s \in Savers : s \in Procs /\ s \in Requests
      BY DEF Procs, Requests
    <2>2. \A s \in Savers : pc'[s] \in Late =>
              pc[s] \in Late /\ who'[s] = who[s] /\ what'[s] = what[s]
      BY <1>1, <1>3, <2>1, StepFrame
    <2>3. QED
      BY <1>2, <1>3, <2>2
  <1>4. ASSUME NEW p \in Procs, Quiet(p)
        PROVE  StillUnsaved'
    <2>1. saved' = saved
      BY <1>4, QuietRows DEF rows
    <2>2. \A s \in Savers : s \in Procs /\ s \in Requests
      BY DEF Procs, Requests
    <2>3. CASE p \in Savers /\ SaveCheckSaved(p)
      <3>1. CASE what[p] \in saved[who[p]]
        BY <1>3, <2>1, <2>3, <3>1 DEF SaveCheckSaved
      <3>2. CASE what[p] \notin saved[who[p]]
        <4>1. Step(p, "locked", "unsaved")
          BY <2>3, <3>2 DEF SaveCheckSaved
        <4>2. who' = who /\ what' = what
          BY <4>1, <1>1, StepFrame
        <4>3. \A s \in Savers : s # p => pc'[s] = pc[s]
          BY <4>1, <1>1, <2>2, StepFrame
        <4>4. QED
          BY <1>1, <2>1, <3>2, <4>2, <4>3 DEF StillUnsaved
      <3>3. QED
        BY <3>1, <3>2
    <2>4. CASE p \in Savers /\ \E u \in Users, a \in Articles : SaveBegin(p, u, a)
      <3>1. \A s \in Savers : pc'[s] \in Late =>
                pc[s] \in Late /\ who'[s] = who[s] /\ what'[s] = what[s]
        BY <1>1, <2>2, <2>4 DEF SaveBegin, Typing, TypeOK
      <3>2. QED
        BY <1>2, <2>1, <3>1
    <2>5. CASE p \in Learners /\ \E u \in Users : LearnBegin(p, u)
      <3>1. p \notin Savers
        BY <2>5, ConstantsAssumption
      <3>2. \A s \in Savers : pc'[s] \in Late =>
                pc[s] \in Late /\ who'[s] = who[s] /\ what'[s] = what[s]
        BY <1>1, <2>2, <2>5, <3>1 DEF LearnBegin, Typing, TypeOK
      <3>3. QED
        BY <1>2, <2>1, <3>2
    <2>6. \/ \E from, to : Step(p, from, to) /\ (to \in Late => from \in Late)
          \/ p \in Savers /\ SaveCheckSaved(p)
          \/ p \in Savers /\ \E u \in Users, a \in Articles : SaveBegin(p, u, a)
          \/ p \in Learners /\ \E u \in Users : LearnBegin(p, u)
      <3>1. CASE p \in Savers /\ SaveLockUser(p)
        BY <3>1 DEF SaveLockUser
      <3>2. CASE p \in Savers /\ SaveCheckArticle(p)
        BY <3>2 DEF SaveCheckArticle
      <3>3. CASE p \in Savers /\ SaveCount(p)
        BY <3>3 DEF SaveCount
      <3>4. CASE p \in Savers /\ SaveInsert(p)
        BY <3>4 DEF SaveInsert
      <3>5. CASE p \in Learners /\ (LearnLockUser(p) \/ LearnMark(p) \/ LearnRecord(p))
        BY <3>5 DEF LearnLockUser, LearnMark, LearnRecord
      <3>6. CASE p = Retainer /\ (RetainList \/ RetainDelete)
        BY <3>6 DEF RetainList, RetainDelete
      <3>7. CASE Rollback(p)
        BY <3>7 DEF Rollback
      <3>8. QED
        BY <1>4, <3>1, <3>2, <3>3, <3>4, <3>5, <3>6, <3>7 DEF Quiet
    <2>7. QED
      BY <1>3, <2>1, <2>3, <2>4, <2>5, <2>6
  <1>5. ASSUME NEW s \in Savers, SaveCommit(s)
        PROVE  StillUnsaved'
    <2>1. \A t \in Savers : t \in Procs /\ t \in Requests
      BY DEF Procs, Requests
    <2>2. Step(s, "inserted", "idle")
      BY <1>5 DEF SaveCommit
    <2>3. SUFFICES ASSUME NEW t \in Savers, pc'[t] \in Late
                   PROVE  what'[t] \notin saved'[who'[t]]
      BY DEF StillUnsaved
    <2>4. t # s /\ pc[t] \in Late /\ who'[t] = who[t] /\ what'[t] = what[t]
      BY <1>1, <2>1, <2>2, <2>3, StepFrame
    <2>5. what[t] \notin saved[who[t]] /\ who[t] \in Users /\ who[s] \in Users
      BY <1>1, <2>1, <2>2, <2>4 DEF StillUnsaved, Typing, OpenTransactionsNamed, Step
    <2>6. HoldsUser(t, who[t]) /\ HoldsUser(s, who[s])
      BY <2>2, <2>4 DEF HoldsUser, Step
    <2>7. who[t] # who[s]
      BY <1>1, <2>1, <2>4, <2>5, <2>6 DEF OneHolder
    <2>8. saved'[who[t]] = saved[who[t]]
      BY <1>1, <1>5, <2>5, <2>7 DEF SaveCommit, Typing, TypeOK
    <2>9. QED
      BY <2>4, <2>5, <2>8
  <1>6. ASSUME NEW u \in Users, NEW a \in Articles, Unsave(u, a)
        PROVE  StillUnsaved'
    BY <1>1, <1>2, <1>6 DEF Unsave, txs, Typing, TypeOK
  <1>7. ASSUME NEW l \in Learners, LearnCommit(l)
        PROVE  StillUnsaved'
    BY <1>3, <1>7 DEF LearnCommit, Procs, Requests
  <1>8. CASE RetainCommit
    BY <1>3, <1>8 DEF RetainCommit, Procs
  <1>9. CASE Tick \/ UNCHANGED vars
    BY <1>1, <1>9 DEF Tick, vars, rows, txs, StillUnsaved
  <1>10. QED
    BY <1>4, <1>5, <1>6, <1>7, <1>8, <1>9, NextKinds

LEMMA NextUnsavedUndated ==
    Typing /\ UnsavedUndated /\ DoomedUnsaved /\ [Next]_vars => UnsavedUndated'
  <1> SUFFICES ASSUME Typing, UnsavedUndated, DoomedUnsaved, [Next]_vars
               PROVE  UnsavedUndated'
    OBVIOUS
  <1>1. CASE UNCHANGED <<saved, savedAt>>
    BY <1>1 DEF UnsavedUndated
  <1>2. ASSUME NEW s \in Savers, SaveCommit(s)
        PROVE  UnsavedUndated'
    <2>1. who[s] \in Users /\ what[s] \in Articles
      BY <1>2 DEF SaveCommit, Step, Typing, OpenTransactionsNamed, Requests
    <2>2. QED
      BY <1>2, <2>1 DEF SaveCommit, UnsavedUndated, Typing, TypeOK
  <1>3. ASSUME NEW u \in Users, NEW a \in Articles, Unsave(u, a)
        PROVE  UnsavedUndated'
    BY <1>3 DEF Unsave, UnsavedUndated, Typing, TypeOK
  <1>4. CASE RetainCommit
    BY <1>4 DEF RetainCommit, UnsavedUndated
  <1>5. QED
    BY <1>1, <1>2, <1>3, <1>4, NextKinds, QuietRows
    DEF LearnCommit, Tick, vars, rows

\* A step keeps the marked saves when every learning that still has some is where it
\* was, and their rows are as they were.
LEMMA KeepsBatch ==
    ASSUME Typing, BatchKept, now' >= now, now' \in Nat,
           \A l \in Learners : batch'[l] # {} =>
               /\ batch'[l] = batch[l] /\ who'[l] = who[l]
               /\ pc'[l] \in {"marked", "recorded"},
           \A l \in Learners : \A a \in batch[l] :
               /\ a \in saved'[who[l]]
               /\ savedAt'[who[l]][a] = savedAt[who[l]][a]
    PROVE  BatchKept'
  <1> SUFFICES ASSUME NEW l \in Learners, batch'[l] # {}
               PROVE  /\ pc'[l] \in {"marked", "recorded"}
                      /\ \A a \in batch'[l] :
                            /\ a \in saved'[who'[l]]
                            /\ savedAt'[who'[l]][a] + Delay <= now'
    BY DEF BatchKept
  <1>1. batch'[l] = batch[l] /\ who'[l] = who[l] /\ pc'[l] \in {"marked", "recorded"}
    OBVIOUS
  <1>2. SUFFICES ASSUME NEW a \in batch[l]
                 PROVE  /\ a \in saved'[who[l]]
                        /\ savedAt'[who[l]][a] + Delay <= now'
    BY <1>1
  <1>3. /\ a \in Articles /\ l \in Requests /\ l \in Procs
        /\ pc[l] \in {"marked", "recorded"}
        /\ savedAt[who[l]][a] + Delay <= now
    BY <1>2 DEF BatchKept, Typing, TypeOK, Requests, Procs
  <1>4. who[l] \in Users
    BY <1>3 DEF Typing, OpenTransactionsNamed
  <1>5. savedAt[who[l]][a] \in Nat /\ now \in Nat /\ Delay \in Nat
    BY <1>3, <1>4, ConstantsAssumption DEF Typing, TypeOK
  <1>6. /\ a \in saved'[who[l]]
        /\ savedAt'[who[l]][a] = savedAt[who[l]][a]
    BY <1>2
  <1>7. QED
    BY <1>3, <1>5, <1>6

\* A learning that has marked saves works for a user, and the saves are kept.
LEMMA MarkedSaves ==
    ASSUME Typing, BatchKept, NEW l \in Learners, NEW a \in batch[l]
    PROVE  /\ pc[l] \in {"marked", "recorded"} /\ who[l] \in Users
           /\ a \in Articles /\ a \in saved[who[l]] /\ MarkingRow(who[l], a)
           /\ savedAt[who[l]][a] + Delay <= now
  BY DEF BatchKept, MarkingRow, Typing, TypeOK, OpenTransactionsNamed, Requests

LEMMA NextBatchKept == Lasting /\ [Next]_vars => BatchKept'
  <1> SUFFICES ASSUME Lasting, [Next]_vars
               PROVE  BatchKept'
    OBVIOUS
  <1>1. Typing /\ BatchKept /\ StillUnsaved /\ DoomedUnsaved /\ BegunPast
    BY DEF Lasting, LimitInv, RetentionInv
  <1>2. \A l \in Learners : l \in Procs /\ l \in Requests /\ l # Retainer
    BY ConstantsAssumption DEF Procs, Requests
  <1>3. now \in Nat
    BY <1>1 DEF Typing, TypeOK
  \* A step that leaves the rows as they are.
  <1>4. ASSUME UNCHANGED rows, now' = now,
               \A l \in Learners : batch'[l] # {} =>
                   /\ batch'[l] = batch[l] /\ who'[l] = who[l]
                   /\ pc'[l] \in {"marked", "recorded"}
        PROVE  BatchKept'
    <2>1. \A l \in Learners : \A a \in batch[l] :
              a \in saved'[who[l]] /\ savedAt'[who[l]][a] = savedAt[who[l]][a]
      BY <1>1, <1>4, MarkedSaves DEF rows
    <2>2. QED
      BY <1>1, <1>3, <1>4, <2>1, KeepsBatch
  <1>5. ASSUME NEW p \in Procs, Quiet(p)
        PROVE  BatchKept'
    <2>1. UNCHANGED rows /\ now' = now
      BY <1>5, QuietRows
    <2>2. ASSUME NEW from, NEW to, Step(p, from, to),
                 \A l \in Learners : batch'[l] = batch[l] \/ (l = p /\ batch'[l] = {}),
                 p \in Learners =>
                     \/ batch'[p] = {}
                     \/ from = "begun"
                     \/ to \in {"marked", "recorded"}
          PROVE  BatchKept'
      <3>1. ASSUME NEW l \in Learners, batch'[l] # {}
            PROVE  /\ batch'[l] = batch[l] /\ who'[l] = who[l]
                   /\ pc'[l] \in {"marked", "recorded"}
        <4>1. batch'[l] = batch[l]
          BY <2>2, <3>1
        <4>2. pc[l] \in {"marked", "recorded"}
          BY <1>1, <3>1, <4>1 DEF BatchKept
        <4>3. CASE l = p
          <5>1. to \in {"marked", "recorded"}
            BY <1>1, <1>2, <2>2, <3>1, <4>2, <4>3, StepFrame
          <5>2. QED
            BY <1>1, <1>2, <2>2, <4>1, <4>3, <5>1, StepFrame
        <4>4. CASE l # p
          BY <1>1, <1>2, <2>2, <4>1, <4>2, <4>4, StepFrame
        <4>5. QED
          BY <4>3, <4>4
      <3>2. QED
        BY <1>4, <2>1, <3>1
    <2>3. CASE p \in Savers
               /\ (\/ SaveLockUser(p) \/ SaveCheckSaved(p) \/ SaveCheckArticle(p)
                   \/ SaveCount(p) \/ SaveInsert(p))
      <3>1. p \notin Learners /\ batch' = batch
        BY <2>3, ConstantsAssumption
        DEF SaveLockUser, SaveCheckSaved, SaveCheckArticle, SaveCount, SaveInsert
      <3>2. \E from, to : Step(p, from, to)
        BY <2>3
        DEF SaveLockUser, SaveCheckSaved, SaveCheckArticle, SaveCount, SaveInsert
      <3>3. QED
        BY <2>2, <3>1, <3>2
    <2>4. CASE p \in Savers /\ \E u \in Users, a \in Articles : SaveBegin(p, u, a)
      <3>1. p \notin Learners /\ batch' = batch
        BY <2>4, ConstantsAssumption DEF SaveBegin
      <3>2. \A l \in Learners : pc'[l] = pc[l] /\ who'[l] = who[l]
        BY <1>1, <1>2, <2>4, <3>1 DEF SaveBegin, Typing, TypeOK
      <3>3. QED
        BY <1>1, <1>4, <2>1, <3>1, <3>2 DEF BatchKept
    <2>5. CASE p \in Learners /\ LearnLockUser(p)
      BY <2>2, <2>5 DEF LearnLockUser
    <2>6. CASE p \in Learners /\ LearnRecord(p)
      BY <2>2, <2>6 DEF LearnRecord
    <2>7. CASE p \in Learners /\ LearnMark(p)
      <3>1. PICK u \in Users : u = who[p]
        BY <1>1, <1>2, <2>7 DEF LearnMark, Step, Typing, OpenTransactionsNamed
      <3>2. PICK D \in SUBSET Articles : D = Due(u, begun[p])
        BY <1>1, <3>1 DEF Due, Typing, TypeOK
      <3>3. batch' = [batch EXCEPT ![p] = D] /\ Step(p, "locked", "marked")
        BY <2>7, <3>1, <3>2 DEF LearnMark
      <3>4. batch'[p] = D /\ \A l \in Learners : l # p => batch'[l] = batch[l]
        BY <1>1, <2>7, <3>3 DEF Typing, TypeOK
      <3>5. /\ who' = who /\ pc'[p] = "marked"
            /\ \A l \in Learners : l # p => pc'[l] = pc[l]
        BY <1>1, <1>2, <3>3, StepFrame
      <3>6. \A a \in D : a \in saved[u] /\ savedAt[u][a] + Delay <= now
        <4> SUFFICES ASSUME NEW a \in D
                     PROVE  a \in saved[u] /\ savedAt[u][a] + Delay <= now
          OBVIOUS
        <4>1. a \in saved[u] /\ savedAt[u][a] + Delay <= begun[p]
          BY <3>2 DEF Due
        <4>2. begun[p] <= now
          BY <1>1, <1>2, <2>7 DEF BegunPast
        <4>3. savedAt[u][a] \in Nat /\ begun[p] \in Nat /\ Delay \in Nat
          BY <1>1, <1>2, <2>7, <3>1, <3>2, ConstantsAssumption DEF Typing, TypeOK
        <4>4. QED
          BY <1>3, <4>1, <4>2, <4>3
      <3>7. QED
        BY <1>1, <2>1, <3>1, <3>4, <3>5, <3>6 DEF BatchKept, rows
    <2>8. CASE p \in Learners /\ \E u \in Users : LearnBegin(p, u)
      <3>1. batch[p] = {} /\ batch' = batch
        BY <1>1, <2>8 DEF LearnBegin, BatchKept
      <3>2. \A l \in Learners : l # p => pc'[l] = pc[l] /\ who'[l] = who[l]
        BY <1>1, <1>2, <2>8 DEF LearnBegin, Typing, TypeOK
      <3>3. QED
        BY <1>1, <1>4, <2>1, <3>1, <3>2 DEF BatchKept
    <2>9. CASE p = Retainer /\ (RetainList \/ RetainDelete)
      <3>1. \A l \in Learners : batch'[l] = batch[l]
        BY <1>1, <1>2, <2>9 DEF RetainList, RetainDelete, Typing, TypeOK
      <3>2. \E from, to : Step(p, from, to)
        BY <2>9 DEF RetainList, RetainDelete
      <3>3. QED
        BY <1>2, <2>2, <2>9, <3>1, <3>2
    <2>10. CASE Rollback(p)
      <3>1. \A l \in Learners :
                IF l = p THEN batch'[l] = {} ELSE batch'[l] = batch[l]
        BY <1>1, <2>10 DEF Rollback, Typing, TypeOK
      <3>2. Step(p, pc[p], "idle")
        BY <2>10 DEF Rollback
      <3>3. QED
        BY <2>2, <3>1, <3>2
    <2>11. QED
      BY <1>5, <2>3, <2>4, <2>5, <2>6, <2>7, <2>8, <2>9, <2>10 DEF Quiet
  <1>6. ASSUME NEW s \in Savers, SaveCommit(s)
        PROVE  BatchKept'
    <2>1. s \in Procs /\ s \notin Learners /\ s \in Requests
      BY ConstantsAssumption DEF Procs, Requests
    <2>2. PICK u \in Users : u = who[s]
      BY <1>1, <1>6, <2>1 DEF SaveCommit, Step, Typing, OpenTransactionsNamed
    <2>3. PICK b \in Articles : b = what[s]
      BY <1>1, <1>6, <2>1 DEF SaveCommit, Step, Typing, OpenTransactionsNamed
    <2>4. /\ Step(s, "inserted", "idle") /\ now' = now /\ batch' = batch
          /\ saved' = [saved EXCEPT ![u] = @ \cup {b}]
          /\ savedAt' = [savedAt EXCEPT ![u][b] = begun[s]]
      BY <1>6, <2>2, <2>3 DEF SaveCommit
    <2>5. b \notin saved[u]
      BY <1>1, <2>2, <2>3, <2>4 DEF StillUnsaved, Step
    <2>6. ASSUME NEW l \in Learners, NEW a \in batch[l]
          PROVE  /\ a \in saved'[who[l]]
                 /\ savedAt'[who[l]][a] = savedAt[who[l]][a]
      <3>1. PICK v \in Users : v = who[l]
        BY <1>1, <2>6, MarkedSaves
      <3>2. a \in Articles /\ a \in saved[v]
        BY <1>1, <2>6, <3>1, MarkedSaves
      <3>3. v # u \/ a # b
        BY <2>5, <3>2
      <3>4. QED
        BY <1>1, <2>4, <3>1, <3>2, <3>3 DEF Typing, TypeOK
    <2>7. \A l \in Learners : pc'[l] = pc[l] /\ who'[l] = who[l]
      BY <1>1, <1>2, <2>1, <2>4, StepFrame
    <2>8. QED
      BY <1>1, <1>3, <2>4, <2>6, <2>7, KeepsBatch DEF BatchKept
  <1>7. ASSUME NEW u \in Users, NEW b \in Articles, Unsave(u, b)
        PROVE  BatchKept'
    <2>1. /\ ~MarkingRow(u, b) /\ UNCHANGED txs /\ now' = now
          /\ saved' = [saved EXCEPT ![u] = @ \ {b}]
          /\ savedAt' = [savedAt EXCEPT ![u][b] = 0]
      BY <1>7 DEF Unsave
    <2>2. ASSUME NEW l \in Learners, NEW a \in batch[l]
          PROVE  /\ a \in saved'[who[l]]
                 /\ savedAt'[who[l]][a] = savedAt[who[l]][a]
      <3>1. PICK v \in Users : v = who[l]
        BY <1>1, <2>2, MarkedSaves
      <3>2. a \in Articles /\ a \in saved[v] /\ MarkingRow(v, a)
        BY <1>1, <2>2, <3>1, MarkedSaves
      <3>3. v # u \/ a # b
        BY <2>1, <3>2
      <3>4. QED
        BY <1>1, <2>1, <3>1, <3>2, <3>3 DEF Typing, TypeOK
    <2>3. QED
      BY <1>1, <1>3, <2>1, <2>2, KeepsBatch DEF BatchKept, txs
  <1>8. ASSUME NEW k \in Learners, LearnCommit(k)
        PROVE  BatchKept'
    <2>1. /\ Step(k, "recorded", "idle") /\ now' = now
          /\ batch' = [batch EXCEPT ![k] = {}]
          /\ UNCHANGED <<saved, savedAt>>
      BY <1>8 DEF LearnCommit
    <2>2. \A l \in Learners : IF l = k THEN batch'[l] = {} ELSE batch'[l] = batch[l]
      BY <1>1, <2>1 DEF Typing, TypeOK
    <2>3. \A l \in Learners : l # k => pc'[l] = pc[l] /\ who'[l] = who[l]
      BY <1>1, <1>2, <2>1, StepFrame
    <2>4. QED
      BY <1>1, <2>1, <2>2, <2>3 DEF BatchKept
  <1>9. CASE RetainCommit
    <2>1. /\ Step(Retainer, "deleted", "idle") /\ now' = now
          /\ batch' = [batch EXCEPT ![Retainer] = {}]
          /\ \A u \in Users : saved'[u] = saved[u] \ doomed
          /\ \A u \in Users, a \in Articles :
                savedAt'[u][a] = (IF a \in doomed THEN 0 ELSE savedAt[u][a])
      BY <1>9 DEF RetainCommit
    <2>2. \A l \in Learners : batch'[l] = batch[l]
      BY <1>1, <1>2, <2>1 DEF Typing, TypeOK
    <2>3. \A l \in Learners : pc'[l] = pc[l] /\ who'[l] = who[l]
      BY <1>1, <1>2, <2>1, StepFrame DEF Procs
    <2>4. ASSUME NEW l \in Learners, NEW a \in batch[l]
          PROVE  /\ a \in saved'[who[l]]
                 /\ savedAt'[who[l]][a] = savedAt[who[l]][a]
      <3>1. who[l] \in Users /\ a \in Articles /\ a \in saved[who[l]]
        BY <1>1, <2>4, MarkedSaves
      <3>2. a \notin doomed
        BY <1>1, <3>1 DEF DoomedUnsaved
      <3>3. QED
        BY <2>1, <3>1, <3>2
    <2>5. QED
      BY <1>1, <1>3, <2>1, <2>2, <2>3, <2>4, KeepsBatch DEF BatchKept
  <1>10. CASE Tick \/ UNCHANGED vars
    <2>1. UNCHANGED <<rows, txs>> /\ now' \in {now, now + 1}
      BY <1>10 DEF Tick, vars
    <2>2. now' >= now /\ now' \in Nat
      BY <1>3, <2>1
    <2>3. QED
      BY <1>1, <2>1, <2>2, KeepsBatch DEF BatchKept, rows, txs
  <1>11. QED
    BY <1>5, <1>6, <1>7, <1>8, <1>9, <1>10, NextKinds

LEMMA NextLasting == Lasting /\ [Next]_vars => Lasting'
  BY NextLimit, NextRetention, NextBegun, NextStillUnsaved, NextBatchKept,
     NextUnsavedUndated
  DEF Lasting, LimitInv, RetentionInv

\* Interests are raised by the commit of a learning alone, and by what it marked.
LEMMA StepLearnsLasting ==
    ASSUME Lasting, [Next]_vars, NEW u \in Users, NEW a \in Articles,
           boosts'[u][a] # boosts[u][a]
    PROVE  a \in saved[u] /\ savedAt[u][a] + Delay <= now
  <1>1. Typing /\ BatchKept
    BY DEF Lasting, LimitInv
  <1>2. PICK l \in Learners : LearnCommit(l)
    BY NextKinds, QuietRows DEF SaveCommit, Unsave, RetainCommit, Tick, vars, rows
  <1>3. PICK v \in Users : v = who[l]
    BY <1>1, <1>2 DEF LearnCommit, Step, Typing, OpenTransactionsNamed, Requests
  <1>4. boosts' = [boosts EXCEPT ![v] =
            [b \in Articles |-> @[b] + (IF b \in Fresh(l) THEN 1 ELSE 0)]]
    BY <1>2, <1>3 DEF LearnCommit
  <1>5. u = v
    BY <1>1, <1>4 DEF Typing, TypeOK
  <1>6. a \in Fresh(l)
    <2>1. boosts'[u][a] = boosts[u][a] + (IF a \in Fresh(l) THEN 1 ELSE 0)
      BY <1>1, <1>4, <1>5 DEF Typing, TypeOK
    <2>2. boosts[u][a] \in Nat
      BY <1>1 DEF Typing, TypeOK
    <2>3. QED
      BY <2>1, <2>2
  <1>7. QED
    BY <1>1, <1>3, <1>5, <1>6, MarkedSaves DEF Fresh

\* A save raises interests only when it has lasted SaveLearnDelay and is still there
\* at that moment, also when Unsave, another Save or the retention job race with the
\* request that learns (saved_articles.go, applyDueSaveLearning).
THEOREM LastingHolds == Spec => LearnedOnlyFromLastingSave
  <1>1. Lasting /\ [Next]_vars =>
            [\A u \in Users, a \in Articles :
                boosts'[u][a] # boosts[u][a] =>
                    a \in saved[u] /\ savedAt[u][a] + Delay <= now]_vars
    BY StepLearnsLasting
  <1>2. QED
    BY <1>1, InitLasting, NextLasting, PTL DEF Spec, LearnedOnlyFromLastingSave

-----------------------------------------------------------------------------
(* The transactions implement the ledger of saves *)

\* Everything the steps of the ledger rest on.
Whole == Lasting /\ LearnedOnce

LEMMA NextWhole == Whole /\ [Next]_vars => Whole'
  BY NextLasting, NextLearnedOnce DEF Whole, Lasting, LimitInv

LEMMA WholeParts ==
    ASSUME Whole
    PROVE  /\ Typing /\ RoomLeft /\ SavesExist /\ InsertedShares /\ DoomedLocked
           /\ DoomedUnsaved /\ BegunPast /\ StillUnsaved /\ BatchKept
           /\ UnsavedUndated /\ LearnedOnce
  BY DEF Whole, Lasting, LimitInv, RetentionInv

\* What the ledger calls learned: the pairs whose interests were raised.
raised == {x \in Users \X Articles : boosts[x[1]][x[2]] > 0}

LEMMA InitLedger == Init => Ledger!Init
  <1> SUFFICES ASSUME Init PROVE Ledger!Init
    OBVIOUS
  <1>1. raised = {}
    <2>1. \A x \in Users \X Articles : boosts[x[1]][x[2]] = 0
      BY DEF Init
    <2>2. QED
      BY <2>1 DEF raised
  <1>2. QED
    BY <1>1 DEF Init, Ledger!Init, raised

LEMMA SaveCommitIsSave ==
    ASSUME Whole, NEW s \in Savers, SaveCommit(s)
    PROVE  Ledger!Next
  <1>1. PICK u \in Users : u = who[s]
    BY WholeParts DEF SaveCommit, Step, Typing, OpenTransactionsNamed, Requests
  <1>2. PICK a \in Articles : a = what[s]
    BY WholeParts DEF SaveCommit, Step, Typing, OpenTransactionsNamed, Requests
  <1>3. PICK t \in 0..now : t = begun[s]
    BY WholeParts DEF BegunPast, Typing, TypeOK, Requests
  <1>4. /\ saved' = [saved EXCEPT ![u] = @ \cup {a}]
        /\ savedAt' = [savedAt EXCEPT ![u][a] = t]
        /\ UNCHANGED <<now, articles, boosts>>
        /\ pc[s] = "inserted"
    BY <1>1, <1>2, <1>3 DEF SaveCommit, Step
  <1>5. a \in articles \ saved[u]
    BY <1>1, <1>2, <1>4, WholeParts DEF InsertedShares, StillUnsaved
  <1>6. Cardinality(saved[u]) < Limit
    BY <1>1, <1>4, WholeParts DEF RoomLeft
  <1>7. Ledger!Save(u, a, t)
    BY <1>4, <1>5, <1>6
    DEF Ledger!Save, Ledger!Cardinality, Cardinality, Ledger!IsFiniteSet, IsFiniteSet
  <1>8. QED
    BY <1>7 DEF Ledger!Next

LEMMA UnsaveIsUnsave ==
    ASSUME NEW u \in Users, NEW a \in Articles, Unsave(u, a)
    PROVE  Ledger!Next
  BY DEF Unsave, Ledger!Unsave, Ledger!Next

LEMMA LearnCommitIsLearn ==
    ASSUME Whole, NEW l \in Learners, LearnCommit(l)
    PROVE  Ledger!Next
  <1>1. PICK u \in Users : u = who[l]
    BY WholeParts DEF LearnCommit, Step, Typing, OpenTransactionsNamed, Requests
  <1>2. PICK A \in SUBSET Articles : A = Fresh(l)
    BY WholeParts DEF Fresh, Typing, TypeOK
  <1>3. /\ boosts' = [boosts EXCEPT ![u] =
               [a \in Articles |-> @[a] + (IF a \in A THEN 1 ELSE 0)]]
        /\ UNCHANGED <<now, articles, saved, savedAt>>
    BY <1>1, <1>2 DEF LearnCommit
  <1>4. \A a \in A : a \in batch[l] /\ <<u, a>> \notin learnings
    BY <1>1, <1>2 DEF Fresh
  <1>5. \A a \in A : a \in saved[u] /\ savedAt[u][a] + Delay <= now
    BY <1>1, <1>4, WholeParts, MarkedSaves
  <1>6. \A a \in A : boosts[u][a] = 0
    BY <1>4, <1>5, WholeParts DEF SavesExist, LearnedOnce
  <1>7. ASSUME NEW v \in Users, NEW a \in Articles
        PROVE  boosts'[v][a] > 0 <=> boosts[v][a] > 0 \/ (v = u /\ a \in A)
    <2>1. boosts \in [Users -> [Articles -> Nat]]
      BY WholeParts DEF Typing, TypeOK
    <2>2. boosts[v][a] \in Nat
      BY <2>1
    <2>3. CASE v = u
      <3>1. boosts'[v][a] = boosts[v][a] + (IF a \in A THEN 1 ELSE 0)
        BY <1>3, <2>1, <2>3
      <3>2. QED
        BY <2>2, <2>3, <3>1
    <2>4. CASE v # u
      BY <1>3, <2>1, <2>4
    <2>5. QED
      BY <2>3, <2>4
  <1>8. raised' = raised \cup ({u} \X A)
    <2>1. \A x \in Users \X Articles :
              x \in raised' <=> x \in raised \/ (x[1] = u /\ x[2] \in A)
      BY <1>7 DEF raised
    <2>2. {u} \X A \subseteq Users \X Articles
      OBVIOUS
    <2>3. \A x \in Users \X Articles : x \in {u} \X A <=> x[1] = u /\ x[2] \in A
      OBVIOUS
    <2>4. raised \subseteq Users \X Articles /\ raised' \subseteq Users \X Articles
      BY DEF raised
    <2>5. QED
      BY <2>1, <2>2, <2>3, <2>4
  <1>9. \A a \in A : <<u, a>> \notin raised
    <2>1. \A a \in A : ~(boosts[u][a] > 0)
      BY <1>6
    <2>2. QED
      BY <2>1 DEF raised
  <1>10. Ledger!Learn(u, A)
    BY <1>3, <1>5, <1>8, <1>9 DEF Ledger!Learn, raised
  <1>11. QED
    BY <1>10 DEF Ledger!Next

LEMMA RetainCommitIsRetire ==
    ASSUME Whole, RetainCommit
    PROVE  Ledger!Next
  <1>1. PICK A \in SUBSET Articles : A = articles \cap doomed
    BY WholeParts DEF Typing, TypeOK
  <1>2. /\ articles' = articles \ doomed
        /\ saved' = [u \in Users |-> saved[u] \ doomed]
        /\ savedAt' = [u \in Users |->
              [a \in Articles |-> IF a \in doomed THEN 0 ELSE savedAt[u][a]]]
        /\ UNCHANGED <<now, boosts>>
    BY DEF RetainCommit
  <1>3. /\ saved \in [Users -> SUBSET Articles]
        /\ savedAt \in [Users -> [Articles -> Nat]]
    BY WholeParts DEF Typing, TypeOK
  <1>4. \A u \in Users : saved[u] \cap doomed = {}
    BY WholeParts DEF DoomedUnsaved
  <1>5. saved' = saved
    BY <1>2, <1>3, <1>4
  <1>6. savedAt' = savedAt
    <2>1. \A u \in Users : \A a \in Articles :
              (IF a \in doomed THEN 0 ELSE savedAt[u][a]) = savedAt[u][a]
      BY <1>4, WholeParts DEF UnsavedUndated
    <2>2. QED
      BY <1>2, <1>3, <2>1
  <1>7. Ledger!Retire(A)
    BY <1>1, <1>2, <1>4, <1>5, <1>6 DEF Ledger!Retire
  <1>8. QED
    BY <1>7 DEF Ledger!Next

LEMMA LedgerStep ==
    ASSUME Whole, [Next]_vars
    PROVE  [Ledger!Next]_(Ledger!vars)
  <1>1. CASE UNCHANGED <<now, articles, saved, savedAt, boosts>>
    BY <1>1 DEF Ledger!vars
  <1>2. CASE Tick
    BY <1>2 DEF Tick, rows, Ledger!Tick, Ledger!Next
  <1>3. QED
    BY <1>1, <1>2, NextKinds, QuietRows, SaveCommitIsSave, UnsaveIsUnsave,
       LearnCommitIsLearn, RetainCommitIsRetire DEF vars, rows

\* The transactions of Save, Unsave, the learning and the retention, with their row
\* locks, foreign keys and rollbacks, behave as if each were one indivisible step on
\* the saved articles (saved_articles.go, interest.go, articles.go).
THEOREM LedgerImplemented == Spec => ImplementsLedger
  <1>1. Init => Whole
    BY InitLasting, InitLearnedOnce DEF Whole
  <1>2. Whole /\ [Next]_vars => [Ledger!Next]_(Ledger!vars)
    BY LedgerStep
  <1>3. QED
    BY <1>1, <1>2, InitLedger, NextWhole, PTL DEF Spec, ImplementsLedger, Ledger!Spec
=============================================================================
