------------------------- MODULE FetchSchedulerProofs ------------------------
(***************************************************************************)
(* Proofs about FetchScheduler, for every number of instances, every list  *)
(* of slot times and every limit of attempts.                              *)
(***************************************************************************)
EXTENDS FetchScheduler, FiniteSetTheorems, TLAPS

-----------------------------------------------------------------------------
(* The greatest and the least element of a finite set of numbers *)

\* Of the sets of elements above an element, one is minimal: that of the maximum.
LEMMA GreatestExists ==
    ASSUME NEW S, S \subseteq Nat, IsFiniteSet(S), S # {}
    PROVE  \E x \in S : \A y \in S : y <= x
  <1> DEFINE Above(x) == {y \in S : y > x}
             T == {Above(x) : x \in S}
  <1>1. \A x \in S : Above(x) \in FiniteSubsetsOf(S)
    <2>1. \A x \in S : Above(x) \subseteq S
      OBVIOUS
    <2> HIDE DEF Above
    <2>2. QED
      BY <2>1, FS_Subset DEF FiniteSubsetsOf
  <1>2. T \subseteq FiniteSubsetsOf(S) /\ T # {}
    <2> HIDE DEF Above
    <2>1. QED
      BY <1>1
  <1>3. PICK A \in T : \A B \in T : <<B, A>> \notin StrictSubsetOrdering(S)
    <2> HIDE DEF T
    <2>1. QED
      BY <1>2, FS_StrictSubsetOrderingWellFounded, WFMin, Zenon
  <1>4. PICK x \in S : A = Above(x)
    BY <1>3
  <1>5. ASSUME NEW y \in S, y > x
        PROVE  FALSE
    <2>1. Above(y) \subseteq Above(x) /\ y \in Above(x) /\ y \notin Above(y)
      <3>1. x \in Nat /\ y \in Nat /\ \A z \in S : z \in Nat
        BY <1>5
      <3>2. y \in Above(x) /\ y \notin Above(y)
        BY <1>5, <3>1
      <3>3. ASSUME NEW z \in Above(y)
            PROVE  z \in Above(x)
        BY <1>5, <3>1
      <3>4. QED
        BY <3>2, <3>3
    <2>2. Above(y) \in SUBSET S /\ Above(x) \in SUBSET S /\ Above(y) # Above(x)
      BY <2>1
    <2>3. Above(y) \in T
      OBVIOUS
    <2> HIDE DEF Above, T
    <2>4. <<Above(y), Above(x)>> \in StrictSubsetOrdering(S)
      BY <2>1, <2>2 DEF StrictSubsetOrdering
    <2>5. QED
      BY <1>3, <1>4, <2>3, <2>4
  <1>6. QED
    BY <1>5

LEMMA LeastExists ==
    ASSUME NEW S, S \subseteq Nat, IsFiniteSet(S), S # {}
    PROVE  \E x \in S : \A y \in S : x <= y
  <1> DEFINE Below(x) == {y \in S : y < x}
             T == {Below(x) : x \in S}
  <1>1. \A x \in S : Below(x) \in FiniteSubsetsOf(S)
    <2>1. \A x \in S : Below(x) \subseteq S
      OBVIOUS
    <2> HIDE DEF Below
    <2>2. QED
      BY <2>1, FS_Subset DEF FiniteSubsetsOf
  <1>2. T \subseteq FiniteSubsetsOf(S) /\ T # {}
    <2> HIDE DEF Below
    <2>1. QED
      BY <1>1
  <1>3. PICK A \in T : \A B \in T : <<B, A>> \notin StrictSubsetOrdering(S)
    <2> HIDE DEF T
    <2>1. QED
      BY <1>2, FS_StrictSubsetOrderingWellFounded, WFMin, Zenon
  <1>4. PICK x \in S : A = Below(x)
    BY <1>3
  <1>5. ASSUME NEW y \in S, y < x
        PROVE  FALSE
    <2>1. Below(y) \subseteq Below(x) /\ y \in Below(x) /\ y \notin Below(y)
      <3>1. x \in Nat /\ y \in Nat /\ \A z \in S : z \in Nat
        BY <1>5
      <3>2. y \in Below(x) /\ y \notin Below(y)
        BY <1>5, <3>1
      <3>3. ASSUME NEW z \in Below(y)
            PROVE  z \in Below(x)
        BY <1>5, <3>1
      <3>4. QED
        BY <3>2, <3>3
    <2>2. Below(y) \in SUBSET S /\ Below(x) \in SUBSET S /\ Below(y) # Below(x)
      BY <2>1
    <2>3. Below(y) \in T
      OBVIOUS
    <2> HIDE DEF Below, T
    <2>4. <<Below(y), Below(x)>> \in StrictSubsetOrdering(S)
      BY <2>1, <2>2 DEF StrictSubsetOrdering
    <2>5. QED
      BY <1>3, <1>4, <2>3, <2>4
  <1>6. QED
    BY <1>5

LEMMA MaxOf ==
    ASSUME NEW S, S \subseteq Nat, IsFiniteSet(S), S # {}
    PROVE  Max(S) \in S /\ \A y \in S : y <= Max(S)
  <1>1. PICK x \in S : \A y \in S : x >= y
    BY GreatestExists
  <1>2. QED
    BY <1>1 DEF Max

LEMMA MinOf ==
    ASSUME NEW S, S \subseteq Nat, IsFiniteSet(S), S # {}
    PROVE  Min(S) \in S /\ \A y \in S : Min(S) <= y
  <1>1. PICK x \in S : \A y \in S : x <= y
    BY LeastExists
  <1>2. QED
    BY <1>1 DEF Min

-----------------------------------------------------------------------------
(* Slots *)

LEMMA SlotTimesFinite ==
    /\ SlotTimes \subseteq Nat
    /\ \A S : S \subseteq SlotTimes => S \subseteq Nat /\ IsFiniteSet(S)
  <1>1. SlotTimes \subseteq 0..(DayLength - 1) /\ DayLength \in Nat
    BY SchedulerAssumption
  <1>2. IsFiniteSet(0..(DayLength - 1))
    BY <1>1, FS_Interval
  <1>3. QED
    <2>1. SlotTimes \subseteq Nat
      BY <1>1
    <2>2. \A S : S \subseteq SlotTimes => IsFiniteSet(S)
      BY <1>1, <1>2, FS_Subset, Zenon
    <2>3. QED
      BY <2>1, <2>2

LEMMA SlotOnType ==
    ASSUME NEW t \in Nat, NEW s \in SlotTimes
    PROVE  SlotOn(t, s) \in Nat /\ (t >= DayLength => SlotOn(t - DayLength, s) \in Nat)
  <1>1. s \in Nat /\ DayLength \in Nat /\ DayLength > 0
    BY SchedulerAssumption, SlotTimesFinite
  <1>2. \A x \in Nat : x % DayLength \in Nat /\ x % DayLength <= x
    BY <1>1
  <1>3. QED
    BY <1>1, <1>2 DEF SlotOn

LEMMA SlotsType ==
    ASSUME NEW t \in Nat, t >= DayLength
    PROVE  LatestSlot(t) \in Nat /\ NextSlot(t) \in Nat
  <1>1. ASSUME NEW S, S \subseteq SlotTimes, S # {}
        PROVE  Max(S) \in SlotTimes /\ Min(S) \in SlotTimes
    BY <1>1, SlotTimesFinite, MaxOf, MinOf
  <1>2. Max(SlotTimes) \in SlotTimes /\ Min(SlotTimes) \in SlotTimes
    BY <1>1, SchedulerAssumption
  <1>3. LatestSlot(t) \in Nat
    <2> DEFINE today == {s \in SlotTimes : SlotOn(t, s) <= t}
    <2>1. today # {} => SlotOn(t, Max(today)) \in Nat
      BY <1>1, SlotOnType
    <2>2. SlotOn(t - DayLength, Max(SlotTimes)) \in Nat
      BY <1>2, SlotOnType
    <2>3. QED
      BY <2>1, <2>2 DEF LatestSlot
  <1>4. NextSlot(t) \in Nat
    <2> DEFINE today == {s \in SlotTimes : SlotOn(t, s) > t}
    <2>1. today # {} => SlotOn(t, Min(today)) \in Nat
      BY <1>1, SlotOnType
    <2>2. t + DayLength \in Nat
      BY SchedulerAssumption
    <2>3. SlotOn(t + DayLength, Min(SlotTimes)) \in Nat
      BY <1>2, <2>2, SlotOnType
    <2>4. QED
      BY <2>1, <2>3 DEF NextSlot
  <1>5. QED
    BY <1>3, <1>4

-----------------------------------------------------------------------------
(* Rows *)

\* A history whose rows are rewritten in place.
LEMMA Rewritten ==
    ASSUME runs \in Seq(Row), NEW f, f = [n \in DOMAIN runs |-> f[n]],
           \A n \in DOMAIN runs : f[n] \in Row
    PROVE  f \in Seq(Row) /\ Len(f) = Len(runs) /\ DOMAIN f = DOMAIN runs
  <1>1. DOMAIN f = 1..Len(runs) /\ Len(runs) \in Nat
    OBVIOUS
  <1>2. f \in [1..Len(runs) -> Row]
    BY <1>1
  <1>3. QED
    BY <1>1, <1>2

LEMMA AbandonedType ==
    ASSUME runs \in Seq(Row), NEW t \in Nat
    PROVE  /\ Abandoned(t) \in Seq(Row)
           /\ Len(Abandoned(t)) = Len(runs)
           /\ DOMAIN Abandoned(t) = DOMAIN runs
           /\ \A n \in DOMAIN runs : Abandoned(t)[n].status # "running"
  <1>1. ASSUME NEW n \in DOMAIN runs
        PROVE  Abandoned(t)[n] \in Row /\ Abandoned(t)[n].status # "running"
    <2>1. runs[n] \in Row
      OBVIOUS
    <2>2. QED
      BY <2>1 DEF Abandoned, Row, Outcomes
  <1>2. Abandoned(t) = [n \in DOMAIN runs |-> Abandoned(t)[n]]
    BY DEF Abandoned
  <1>3. QED
    BY <1>1, <1>2, Rewritten

LEMMA FinishedType ==
    ASSUME runs \in Seq(Row), NEW n, NEW o \in Outcomes, NEW t \in Nat
    PROVE  LET f == [runs EXCEPT ![n].status = o, ![n].finished = t]
           IN  /\ f \in Seq(Row)
               /\ Len(f) = Len(runs)
               /\ DOMAIN f = DOMAIN runs
               /\ \A m \in DOMAIN runs :
                      f[m].status = IF m = n THEN o ELSE runs[m].status
  <1> DEFINE f == [runs EXCEPT ![n].status = o, ![n].finished = t]
  <1>1. ASSUME NEW m \in DOMAIN runs
        PROVE  f[m] \in Row /\ f[m].status = IF m = n THEN o ELSE runs[m].status
    <2>1. runs[m] \in Row
      OBVIOUS
    <2>2. QED
      BY <2>1 DEF Row
  <1>2. f = [m \in DOMAIN runs |-> f[m]]
    OBVIOUS
  <1>3. f \in Seq(Row) /\ Len(f) = Len(runs) /\ DOMAIN f = DOMAIN runs
    <2> HIDE DEF f
    <2>1. QED
      BY <1>1, <1>2, Rewritten
  <1>4. QED
    BY <1>1, <1>3

LEMMA RowsOfFinite ==
    ASSUME runs \in Seq(Row), NEW s
    PROVE  RowsOf(s) \subseteq Nat /\ IsFiniteSet(RowsOf(s))
  <1>1. RowsOf(s) \subseteq 1..Len(runs) /\ Len(runs) \in Nat
    BY DEF RowsOf
  <1>2. IsFiniteSet(1..Len(runs))
    BY <1>1, FS_Interval
  <1>3. IsFiniteSet(RowsOf(s))
    BY <1>1, <1>2, FS_Subset, Zenon
  <1>4. QED
    BY <1>1, <1>3

LEMMA RowOfSlot ==
    ASSUME runs \in Seq(Row), NEW s, NEW n \in RowsOf(s)
    PROVE  /\ n \in DOMAIN runs /\ runs[n] \in Row /\ runs[n].slot = s
           /\ runs[n].attempt \in 1..MaxAttempts
           /\ runs[n].started \in Nat
           /\ runs[n].finished \in Nat
  <1>1. n \in DOMAIN runs /\ runs[n].slot = s
    BY DEF RowsOf
  <1>2. runs[n] \in Row
    BY <1>1
  <1>3. QED
    BY <1>1, <1>2 DEF Row

LEMMA LastAttemptType ==
    ASSUME runs \in Seq(Row), NEW s
    PROVE  LastAttempt(s) \in 0..MaxAttempts
  <1> DEFINE A == {0} \cup {runs[n].attempt : n \in RowsOf(s)}
  <1>1. A \subseteq 0..MaxAttempts /\ MaxAttempts \in Nat
    <2>1. \A n \in RowsOf(s) : runs[n].attempt \in 1..MaxAttempts
      BY RowOfSlot
    <2>2. QED
      BY <2>1, SchedulerAssumption
  <1>2. A # {}
    OBVIOUS
  <1> HIDE DEF A
  <1>3. IsFiniteSet(0..MaxAttempts)
    BY <1>1, FS_Interval
  <1>4. IsFiniteSet(A)
    BY <1>1, <1>3, FS_Subset, Zenon
  <1>5. Max(A) \in A
    <2>1. A \subseteq Nat
      BY <1>1
    <2>2. QED
      BY <1>2, <1>4, <2>1, MaxOf
  <1>6. QED
    BY <1>1, <1>5 DEF LastAttempt, A

\* There is a newest row of a slot that has rows.
LEMMA NewestExists ==
    ASSUME runs \in Seq(Row), NEW s, RowsOf(s) # {}
    PROVE  /\ Newest(s) \in RowsOf(s)
           /\ \A m \in RowsOf(s) :
                  \/ runs[m].started < runs[Newest(s)].started
                  \/ /\ runs[m].started = runs[Newest(s)].started
                     /\ m <= Newest(s)
  <1>1. RowsOf(s) \subseteq Nat /\ IsFiniteSet(RowsOf(s))
    BY RowsOfFinite
  <1>2. \A n \in RowsOf(s) : runs[n].started \in Nat
    BY RowOfSlot
  <1> DEFINE g == [n \in RowsOf(s) |-> runs[n].started]
             D == {g[n] : n \in RowsOf(s)}
  <1>3. IsFiniteSet(D) /\ D \subseteq Nat /\ D # {}
    <2>1. D \subseteq Nat /\ D # {}
      BY <1>2
    <2>2. g \in [RowsOf(s) -> D]
      OBVIOUS
    <2>3. g \in Surjection(RowsOf(s), D)
      BY <2>2 DEF Surjection
    <2>4. IsFiniteSet(D)
      BY <1>1, <2>3, FS_Surjection
    <2>5. QED
      BY <2>1, <2>4
  <1> DEFINE t == Max(D)
             L == {n \in RowsOf(s) : runs[n].started = t}
  <1>4. t \in D /\ \A x \in D : x <= t
    BY <1>3, MaxOf
  <1>5. L # {} /\ L \subseteq Nat /\ L \subseteq RowsOf(s)
    BY <1>1, <1>4
  <1>6. IsFiniteSet(L)
    BY <1>1, <1>5, FS_Subset, Zenon
  <1>7. PICK n \in L : \A m \in L : m <= n
    BY <1>5, <1>6, GreatestExists
  <1>8. \A m \in RowsOf(s) :
            \/ runs[m].started < runs[n].started
            \/ runs[m].started = runs[n].started /\ m <= n
    <2> SUFFICES ASSUME NEW m \in RowsOf(s)
                 PROVE  \/ runs[m].started < runs[n].started
                        \/ runs[m].started = runs[n].started /\ m <= n
      OBVIOUS
    <2>1. runs[m].started <= t /\ runs[n].started = t
      BY <1>4, <1>7
    <2>2. CASE runs[m].started = t
      BY <1>7, <2>1, <2>2
    <2>3. CASE runs[m].started # t
      BY <1>2, <1>5, <2>1, <2>3
    <2>4. QED
      BY <2>2, <2>3
  <1>9. n \in RowsOf(s)
    BY <1>5, <1>7
  <1> HIDE DEF g, D, t, L
  <1>10. QED
    BY <1>8, <1>9 DEF Newest

LEMMA NotBeforeType ==
    ASSUME runs \in Seq(Row), NEW s, NEW t \in Nat
    PROVE  NotBefore(s, t) \in Nat
  <1>1. \A n : RetryDelay(n) \in Nat
    BY SchedulerAssumption DEF RetryDelay
  <1>2. CASE RowsOf(s) = {}
    BY <1>2 DEF NotBefore
  <1>3. CASE RowsOf(s) # {}
    <2>1. Newest(s) \in RowsOf(s)
      BY <1>3, NewestExists
    <2>2. runs[Newest(s)].finished \in Nat
      BY <2>1, RowOfSlot
    <2>3. QED
      BY <1>1, <1>3, <2>2 DEF NotBefore
  <1>4. QED
    BY <1>2, <1>3
-----------------------------------------------------------------------------
(* Types.  That the attempt which StartRun inserts is within the limit rests on  *)
(* decide, which has read the rows before, in the same step.                     *)

Typing ==
    /\ TypeOK
    /\ now >= DayLength
    /\ \A i \in Instances : pc[i] = "start" => attempt[i] \in 1..MaxAttempts

LEMMA TypingInit == Init => Typing
  BY SchedulerAssumption DEF Init, Typing, TypeOK, PC, InStep

LEMMA StartedType ==
    ASSUME Typing, NEW i \in Instances, pc[i] = "start"
    PROVE  /\ Started(i) \in Seq(Row)
           /\ Len(Started(i)) = Len(runs) + 1
           /\ Len(runs) \in Nat
           /\ \A n \in DOMAIN runs : Started(i)[n] = runs[n]
           /\ Started(i)[Len(runs) + 1].status = "running"
  <1> DEFINE r == [slot |-> slot[i], attempt |-> attempt[i], status |-> "running",
                   started |-> at[i], finished |-> 0]
  <1>1. r \in Row
    BY DEF Typing, TypeOK, Row
  <1>2. runs \in Seq(Row) /\ Started(i) = Append(runs, r) /\ r.status = "running"
    BY DEF Typing, TypeOK, Started
  <1> HIDE DEF r
  <1>3. QED
    BY <1>1, <1>2

\* What a step of Run does to the variables of an instance.
LEMMA LeaveType ==
    ASSUME Typing, NEW i \in Instances, Leave(i)
    PROVE  /\ pc' = [pc EXCEPT ![i] = IF stopping[i] THEN "down" ELSE "waitSlot"]
           /\ pc' \in [Instances -> PC]
           /\ stopping' \in [Instances -> BOOLEAN]
           /\ slot' \in [Instances -> Nat]
           /\ at' \in [Instances -> Nat]
           /\ attempt' \in [Instances -> 0..MaxAttempts]
           /\ run' \in [Instances -> 0..Len(runs)]
           /\ wake' \in [Instances -> Nat]
           /\ \A j \in Instances :
                  pc'[j] = "start" => attempt'[j] \in 1..MaxAttempts
  <1>1. TypeOK /\ now >= DayLength /\ NextSlot(now) \in Nat
    BY SlotsType DEF Typing, TypeOK
  <1>2. runs \in Seq(Row) /\ Len(runs) \in Nat /\ MaxAttempts \in Nat
    BY <1>1, SchedulerAssumption DEF TypeOK
  <1>3. /\ stopping' \in [Instances -> BOOLEAN]
        /\ slot' \in [Instances -> Nat]
        /\ at' \in [Instances -> Nat]
        /\ attempt' \in [Instances -> 0..MaxAttempts]
        /\ run' \in [Instances -> 0..Len(runs)]
        /\ wake' \in [Instances -> Nat]
    <2>1. /\ stopping \in [Instances -> BOOLEAN]
          /\ slot \in [Instances -> Nat] /\ at \in [Instances -> Nat]
          /\ attempt \in [Instances -> 0..MaxAttempts]
          /\ run \in [Instances -> 0..Len(runs)]
          /\ wake \in [Instances -> Nat]
      BY <1>1 DEF TypeOK
    <2>2. /\ stopping' = [stopping EXCEPT ![i] = FALSE]
          /\ slot' = [slot EXCEPT ![i] = 0] /\ at' = [at EXCEPT ![i] = 0]
          /\ attempt' = [attempt EXCEPT ![i] = 0]
          /\ run' = [run EXCEPT ![i] = 0]
          /\ wake' = [wake EXCEPT ![i] = IF stopping[i] THEN 0 ELSE NextSlot(now)]
      BY DEF Leave, ForgetStep
    <2>3. stopping' \in [Instances -> BOOLEAN]
      BY <2>1, <2>2
    <2>4. slot' \in [Instances -> Nat] /\ at' \in [Instances -> Nat]
      BY <2>1, <2>2
    <2>5. attempt' \in [Instances -> 0..MaxAttempts]
      BY <2>1, <2>2, <1>2
    <2>6. run' \in [Instances -> 0..Len(runs)]
      BY <2>1, <2>2, <1>2
    <2>7. wake' \in [Instances -> Nat]
      BY <2>1, <2>2, <1>1
    <2>8. QED
      BY <2>3, <2>4, <2>5, <2>6, <2>7
  <1>4. pc' \in [Instances -> PC]
    BY <1>1 DEF Leave, TypeOK, PC
  <1>5. ASSUME NEW j \in Instances, pc'[j] = "start"
        PROVE  attempt'[j] \in 1..MaxAttempts
    <2>1. j # i /\ pc[j] = "start"
      BY <1>5, <1>1 DEF Leave, TypeOK
    <2>2. attempt'[j] = attempt[j]
      BY <2>1, <1>1 DEF Leave, ForgetStep, TypeOK
    <2>3. QED
      BY <2>1, <2>2 DEF Typing
  <1>6. QED
    BY <1>3, <1>4, <1>5 DEF Leave

LEMMA TypingStep == Typing /\ [Next]_vars => Typing'
  <1> SUFFICES ASSUME Typing, [Next]_vars
               PROVE  Typing'
    OBVIOUS
  <1>t. /\ runs \in Seq(Row) /\ Len(runs) \in Nat
        /\ MaxAttempts \in Nat \ {0} /\ DayLength \in Nat /\ now \in Nat
        /\ \A n : RetryDelay(n) \in Nat
    BY SchedulerAssumption DEF Typing, TypeOK, RetryDelay
  <1>s. LatestSlot(now) \in Nat /\ NextSlot(now) \in Nat
    BY SlotsType DEF Typing, TypeOK
  <1>1. ASSUME NEW i \in Instances, Boot(i)
        PROVE  Typing'
    BY <1>1, <1>s DEF Boot, Typing, TypeOK, PC
  <1>2. ASSUME NEW i \in Instances, Stop(i)
        PROVE  Typing'
    BY <1>2 DEF Stop, Typing, TypeOK
  <1>3. ASSUME NEW i \in Instances, Crash(i)
        PROVE  Typing'
    <2>1. TypeOK'
      BY <1>3, <1>t DEF Crash, ForgetStep, Typing, TypeOK, PC
    <2>2. QED
      BY <1>3, <2>1, <1>t DEF Crash, ForgetStep, Typing, TypeOK
  <1>4. ASSUME NEW i \in Instances, LoseConnection(i)
        PROVE  Typing'
    BY <1>4 DEF LoseConnection, local, Typing, TypeOK
  <1>5. CASE DropSession
    BY <1>5 DEF DropSession, local, Typing, TypeOK
  <1>6. CASE Tick
    BY <1>6, <1>t DEF Tick, local, Typing, TypeOK
  <1>7. ASSUME NEW i \in Instances, WakeForSlot(i) \/ WakeForRetry(i)
        PROVE  Typing'
    <2>1. CASE WakeForSlot(i)
      <3>1. TypeOK'
        BY <2>1, <1>s DEF WakeForSlot, Typing, TypeOK, PC
      <3>2. QED
        BY <2>1, <3>1 DEF WakeForSlot, Typing, TypeOK
    <2>2. CASE WakeForRetry(i)
      <3>1. TypeOK'
        BY <2>2 DEF WakeForRetry, Typing, TypeOK, PC
      <3>2. QED
        BY <2>2, <3>1 DEF WakeForRetry, Typing, TypeOK
    <2>3. QED
      BY <1>7, <2>1, <2>2
  <1>8. ASSUME NEW i \in Instances, Quit(i)
        PROVE  Typing'
    <2>1. Leave(i) /\ UNCHANGED <<now, lock, runs>>
      BY <1>8 DEF Quit
    <2>2. QED
      BY <2>1, LeaveType DEF Typing, TypeOK
  <1>9. ASSUME NEW i \in Instances, TryLock(i)
        PROVE  Typing'
    BY <1>9 DEF TryLock, Typing, TypeOK, PC, InStep
  <1>10. ASSUME NEW i \in Instances, LockBusy(i) \/ LockFails(i)
         PROVE  Typing'
    <2>1. Leave(i) /\ UNCHANGED <<now, runs>>
      BY <1>10 DEF LockBusy, LockFails
    <2>2. lock' \in Instances \cup {Free, Orphan}
      BY <1>10 DEF LockBusy, LockFails, Typing, TypeOK
    <2>3. QED
      BY <2>1, <2>2, LeaveType DEF Typing, TypeOK
  <1>11. ASSUME NEW i \in Instances, Abandon(i)
         PROVE  Typing'
    <2>1. at[i] \in Nat
      BY DEF Typing, TypeOK
    <2>2. runs' \in Seq(Row) /\ Len(runs') = Len(runs)
      BY <1>11, <1>t, <2>1, AbandonedType DEF Abandon
    <2>3. QED
      BY <1>11, <2>2 DEF Abandon, Typing, TypeOK, PC, InStep
  <1>12. ASSUME NEW i \in Instances, Read(i)
         PROVE  Typing'
    <2>1. LastAttempt(slot[i]) \in 0..MaxAttempts
      BY <1>t, LastAttemptType
    <2>2. ~Skips(slot[i]) => LastAttempt(slot[i]) + 1 \in 1..MaxAttempts
      BY <1>t, <2>1 DEF Skips
    <2>3. NotBefore(slot[i], at[i]) \in Nat
      BY <1>t, NotBeforeType DEF Typing, TypeOK
    <2>4. CASE pc' = [pc EXCEPT ![i] = "unlock"] /\ attempt' = attempt
      <3>1. wake' \in [Instances -> Nat]
        BY <1>12, <2>3 DEF Read, Typing, TypeOK
      <3>2. QED
        BY <1>12, <2>4, <3>1 DEF Read, Typing, TypeOK, PC, InStep
    <2>5. CASE /\ ~Skips(slot[i]) /\ pc' = [pc EXCEPT ![i] = "start"]
               /\ attempt' = [attempt EXCEPT ![i] = LastAttempt(slot[i]) + 1]
               /\ wake' = wake
      <3> DEFINE a == LastAttempt(slot[i]) + 1
      <3>1. a \in 1..MaxAttempts
        BY <2>2, <2>5
      <3> HIDE DEF a
      <3>2. attempt' = [attempt EXCEPT ![i] = a]
        BY <2>5 DEF a
      <3>3. attempt' \in [Instances -> 0..MaxAttempts] /\ attempt'[i] = a
            /\ \A j \in Instances : j # i => attempt'[j] = attempt[j]
        BY <1>t, <3>1, <3>2 DEF Typing, TypeOK
      <3>4. TypeOK'
        BY <1>12, <2>5, <3>3 DEF Read, Typing, TypeOK, PC, InStep
      <3>5. QED
        BY <1>12, <2>5, <3>1, <3>3, <3>4 DEF Read, Typing, TypeOK
    <2>6. QED
      BY <1>12, <2>4, <2>5 DEF Read
  <1>13. ASSUME NEW i \in Instances, StartRun(i)
         PROVE  Typing'
    <2>1. runs' \in Seq(Row) /\ Len(runs') = Len(runs) + 1
      BY <1>13, StartedType DEF StartRun
    <2>2. run' \in [Instances -> 0..Len(runs')]
      BY <1>13, <1>t, <2>1 DEF StartRun, Typing, TypeOK
    <2>3. QED
      BY <1>13, <2>1, <2>2 DEF StartRun, Typing, TypeOK, PC, InStep
  <1>14. ASSUME NEW i \in Instances, GiveUp(i)
         PROVE  Typing'
    <2>1. at[i] \in Nat
      BY DEF Typing, TypeOK
    <2>2. runs' \in Seq(Row) /\ Len(runs') \in Nat /\ Len(runs') >= Len(runs)
      BY <1>14, <1>t, <2>1, AbandonedType, StartedType DEF GiveUp
    <2>3. run' \in [Instances -> 0..Len(runs')]
      BY <1>14, <1>t, <2>2 DEF GiveUp, Typing, TypeOK
    <2>4. QED
      BY <1>14, <2>2, <2>3 DEF GiveUp, Typing, TypeOK, PC, InStep
  <1>15. ASSUME NEW i \in Instances, Execute(i)
         PROVE  Typing'
    BY <1>15 DEF Execute, Typing, TypeOK, PC, InStep
  <1>16. ASSUME NEW i \in Instances, NEW o \in Outcomes, FinishRun(i, o)
         PROVE  Typing'
    <2>1. at[i] \in Nat
      BY DEF Typing, TypeOK
    <2>2. runs' \in Seq(Row) /\ Len(runs') = Len(runs)
      <3>1. [runs EXCEPT ![run[i]].status = o, ![run[i]].finished = at[i]] \in Seq(Row)
            /\ Len([runs EXCEPT ![run[i]].status = o, ![run[i]].finished = at[i]])
                  = Len(runs)
        BY <1>t, <2>1, FinishedType
      <3>2. QED
        BY <1>16, <1>t, <3>1 DEF FinishRun
    <2>3. wake' \in [Instances -> Nat]
      <3>1. at[i] + RetryDelay(attempt[i]) \in Nat
        BY <1>t, <2>1
      <3>2. QED
        BY <1>16, <3>1 DEF FinishRun, Typing, TypeOK
    <2>4. QED
      BY <1>16, <2>2, <2>3 DEF FinishRun, Typing, TypeOK, PC, InStep
  <1>17. ASSUME NEW i \in Instances, Unlock(i)
         PROVE  Typing'
    <2>1. lock' \in Instances \cup {Free, Orphan} /\ UNCHANGED <<now, runs>>
      BY <1>17 DEF Unlock, Typing, TypeOK
    <2>2. CASE Leave(i)
      BY <2>1, <2>2, LeaveType DEF Typing, TypeOK
    <2>3. CASE /\ pc' = [pc EXCEPT ![i] = "waitRetry"]
               /\ ForgetStep(i)
               /\ UNCHANGED <<stopping, slot, wake>>
      <3>1. TypeOK'
        BY <2>1, <2>3, <1>t DEF ForgetStep, Typing, TypeOK, PC
      <3>2. QED
        BY <2>1, <2>3, <3>1, <1>t DEF ForgetStep, Typing, TypeOK
    <2>4. QED
      BY <1>17, <2>2, <2>3 DEF Unlock
  <1>18. CASE UNCHANGED vars
    BY <1>18 DEF vars, local, Typing, TypeOK
  <1>19. QED
    BY <1>1, <1>2, <1>3, <1>4, <1>5, <1>6, <1>7, <1>8, <1>9, <1>10, <1>11, <1>12,
       <1>13, <1>14, <1>15, <1>16, <1>17, <1>18 DEF Next, Step

\* Type correctness.  With it, no slot is ever tried more than MaxAttempts times:
\* the attempt of every row is within the limit, whichever instance inserted it.
THEOREM TypesHold == Spec => []TypeOK
  <1>1. Typing => TypeOK
    BY DEF Typing
  <1>2. QED
    BY <1>1, TypingInit, TypingStep, PTL DEF Spec

-----------------------------------------------------------------------------
(* One run at a time, as long as the connection that holds the lock breaks at the *)
(* end of a step only.  ExecutesAlone is not inductive: that no other instance is *)
(* in a step that needs the lock is what the lock says, and that no row is open   *)
(* when StartRun inserts one is what AbandonStaleRuns has left behind.            *)

\* The steps that need the lock: not the one that gives it back
Guarded == InStep \ {"unlock"}

HolderInStep == \A i \in Instances : pc[i] \in Guarded => lock = i

NothingLeftOpen ==
    \A i \in Instances :
        pc[i] \in {"read", "start"} =>
            \A n \in DOMAIN runs : runs[n].status # "running"

AloneInv == Typing /\ HolderInStep /\ NothingLeftOpen /\ ExecutesAlone

\* Nothing in the invariant speaks of an instance outside its step.
LEMMA OutsideStep ==
    ASSUME AloneInv, Typing', NEW i \in Instances, runs' = runs,
           NEW p \in PC \ Guarded, pc' = [pc EXCEPT ![i] = p],
           \A j \in Instances : j # i => run'[j] = run[j],
           \A j \in Instances : j # i /\ lock = j => lock' = j
    PROVE  AloneInv'
  <1>1. \A j \in Instances :
            /\ pc'[j] = IF j = i THEN p ELSE pc[j]
            /\ pc'[j] \in Guarded => j # i
    BY DEF AloneInv, Typing, TypeOK
  <1>2. HolderInStep'
    BY <1>1 DEF AloneInv, HolderInStep
  <1>3. NothingLeftOpen'
    BY <1>1 DEF AloneInv, NothingLeftOpen, Guarded, InStep
  <1>4. ExecutesAlone'
    BY <1>1 DEF AloneInv, ExecutesAlone, Guarded, InStep
  <1>5. QED
    BY <1>2, <1>3, <1>4 DEF AloneInv

\* An instance in its step is the only one there, so that the invariant has to be
\* shown for this one only.
LEMMA InsideStep ==
    ASSUME AloneInv, Typing', NEW i \in Instances, pc[i] \in Guarded,
           NEW p \in Guarded, pc' = [pc EXCEPT ![i] = p], lock' = lock,
           p \in {"read", "start"} => \A n \in DOMAIN runs' : runs'[n].status # "running",
           p \in {"execute", "finish"} =>
               \A n \in DOMAIN runs' : runs'[n].status = "running" <=> n = run'[i]
    PROVE  AloneInv'
  <1>1. lock = i
    BY DEF AloneInv, HolderInStep
  <1>2. \A j \in Instances : j # i => pc'[j] \notin Guarded
    BY <1>1 DEF AloneInv, HolderInStep, Typing, TypeOK
  <1>3. pc'[i] = p
    BY DEF AloneInv, Typing, TypeOK
  <1>4. HolderInStep'
    BY <1>1, <1>2 DEF HolderInStep
  <1>5. NothingLeftOpen'
    BY <1>2, <1>3 DEF NothingLeftOpen, Guarded, InStep
  <1>6. ExecutesAlone'
    BY <1>2, <1>3 DEF ExecutesAlone, Guarded, InStep
  <1>7. QED
    BY <1>4, <1>5, <1>6 DEF AloneInv

\* Once the work is done, or given up, nobody is in a step that needs the lock.
LEMMA LeavingStep ==
    ASSUME AloneInv, Typing', NEW i \in Instances, pc[i] \in Guarded,
           pc' = [pc EXCEPT ![i] = "unlock"]
    PROVE  AloneInv'
  <1>1. \A j \in Instances : j # i => pc[j] \notin Guarded
    BY DEF AloneInv, HolderInStep
  <1>2. \A j \in Instances : pc'[j] \notin Guarded
    BY <1>1 DEF AloneInv, Typing, TypeOK, Guarded, InStep
  <1>3. QED
    BY <1>2 DEF AloneInv, HolderInStep, NothingLeftOpen, ExecutesAlone, Guarded, InStep

LEMMA AloneInit == Init => AloneInv
  BY TypingInit DEF Init, AloneInv, HolderInStep, NothingLeftOpen, ExecutesAlone, Guarded, InStep

LEMMA AloneStep ==
    ASSUME Fragile \subseteq Instances \X {"unlock"}, AloneInv, [Next]_vars
    PROVE  AloneInv'
  <1>t. Typing'
    BY TypingStep DEF AloneInv
  <1>r. runs \in Seq(Row) /\ Len(runs) \in Nat
    BY DEF AloneInv, Typing, TypeOK
  <1>f. \A i \in Instances : lock = i => lock \notin {Free, Orphan}
    BY SchedulerAssumption
  <1>1. ASSUME NEW i \in Instances, Boot(i)
        PROVE  AloneInv'
    BY <1>1, <1>t, OutsideStep DEF Boot, PC, Guarded, InStep
  <1>2. ASSUME NEW i \in Instances, Stop(i)
        PROVE  AloneInv'
    BY <1>2, <1>t
       DEF Stop, AloneInv, HolderInStep, NothingLeftOpen, ExecutesAlone
  <1>3. ASSUME NEW i \in Instances, Crash(i)
        PROVE  AloneInv'
    <2>1. \A j \in Instances : j # i => run'[j] = run[j]
      BY <1>3 DEF Crash, ForgetStep, AloneInv, Typing, TypeOK
    <2>2. \A j \in Instances : j # i /\ lock = j => lock' = j
      BY <1>3, <1>f DEF Crash
    <2>3. QED
      BY <1>3, <1>t, <2>1, <2>2, OutsideStep DEF Crash, PC, Guarded, InStep
  <1>4. ASSUME NEW i \in Instances, LoseConnection(i)
        PROVE  AloneInv'
    <2>1. \A j \in Instances : pc[j] \notin Guarded
      BY <1>4 DEF LoseConnection, AloneInv, HolderInStep, Guarded
    <2>2. QED
      BY <1>4, <1>t, <2>1
         DEF LoseConnection, local, AloneInv, HolderInStep, NothingLeftOpen,
             ExecutesAlone, Guarded, InStep
  <1>5. CASE DropSession
    BY <1>5, <1>t, <1>f
       DEF DropSession, local, AloneInv, HolderInStep, NothingLeftOpen, ExecutesAlone
  <1>6. CASE Tick
    BY <1>6, <1>t
       DEF Tick, local, AloneInv, HolderInStep, NothingLeftOpen, ExecutesAlone
  <1>7. ASSUME NEW i \in Instances, WakeForSlot(i) \/ WakeForRetry(i)
        PROVE  AloneInv'
    BY <1>7, <1>t, OutsideStep DEF WakeForSlot, WakeForRetry, PC, Guarded, InStep
  <1>8. ASSUME NEW i \in Instances, Leave(i), runs' = runs,
               \A j \in Instances : j # i /\ lock = j => lock' = j
        PROVE  AloneInv'
    <2>1. \A j \in Instances : j # i => run'[j] = run[j]
      BY <1>8 DEF Leave, ForgetStep, AloneInv, Typing, TypeOK
    <2> DEFINE p == IF stopping[i] THEN "down" ELSE "waitSlot"
    <2>2. p \in PC \ Guarded
      BY DEF PC, Guarded, InStep
    <2>3. pc' = [pc EXCEPT ![i] = p]
      BY <1>8 DEF Leave
    <2> HIDE DEF p
    <2>4. QED
      BY <1>8, <1>t, <2>1, <2>2, <2>3, OutsideStep
  <1>9. ASSUME NEW i \in Instances, TryLock(i)
        PROVE  AloneInv'
    <2>1. \A j \in Instances : pc[j] \notin Guarded
      BY <1>9, <1>f DEF TryLock, AloneInv, HolderInStep
    <2>2. \A j \in Instances : pc'[j] = IF j = i THEN "abandon" ELSE pc[j]
      BY <1>9 DEF TryLock, AloneInv, Typing, TypeOK
    <2>3. QED
      BY <1>9, <1>t, <2>1, <2>2
         DEF TryLock, AloneInv, HolderInStep, NothingLeftOpen, ExecutesAlone, Guarded, InStep
  <1>10. ASSUME NEW i \in Instances, Abandon(i)
         PROVE  AloneInv'
    <2>1. at[i] \in Nat
      BY DEF AloneInv, Typing, TypeOK
    <2>2. \A n \in DOMAIN runs' : runs'[n].status # "running"
      BY <1>10, <1>r, <2>1, AbandonedType DEF Abandon
    <2>3. QED
      BY <1>10, <1>t, <2>2, InsideStep DEF Abandon, Guarded, InStep
  <1>11. ASSUME NEW i \in Instances, Read(i)
         PROVE  AloneInv'
    <2>1. \A n \in DOMAIN runs' : runs'[n].status # "running"
      BY <1>11 DEF Read, AloneInv, NothingLeftOpen
    <2>2. CASE pc' = [pc EXCEPT ![i] = "start"]
      BY <1>11, <1>t, <2>1, <2>2, InsideStep DEF Read, Guarded, InStep
    <2>3. CASE pc' = [pc EXCEPT ![i] = "unlock"]
      BY <1>11, <1>t, <2>3, LeavingStep DEF Read, Guarded, InStep
    <2>4. QED
      BY <1>11, <2>2, <2>3 DEF Read
  <1>12. ASSUME NEW i \in Instances, StartRun(i)
         PROVE  AloneInv'
    <2>1. /\ runs' \in Seq(Row) /\ Len(runs') = Len(runs) + 1
          /\ \A n \in DOMAIN runs : runs'[n] = runs[n]
          /\ runs'[Len(runs) + 1].status = "running"
      BY <1>12, StartedType DEF StartRun, AloneInv
    <2>2. run'[i] = Len(runs) + 1
      BY <1>12, <2>1 DEF StartRun, AloneInv, Typing, TypeOK
    <2>3. \A n \in DOMAIN runs : runs[n].status # "running"
      BY <1>12 DEF StartRun, AloneInv, NothingLeftOpen
    <2>4. \A n \in DOMAIN runs' : runs'[n].status = "running" <=> n = run'[i]
      BY <1>r, <2>1, <2>2, <2>3
    <2>5. QED
      BY <1>12, <1>t, <2>4, InsideStep DEF StartRun, Guarded, InStep
  <1>13. ASSUME NEW i \in Instances, GiveUp(i)
         PROVE  AloneInv'
    BY <1>13, <1>t, LeavingStep DEF GiveUp, Guarded, InStep
  <1>14. ASSUME NEW i \in Instances, Execute(i)
         PROVE  AloneInv'
    BY <1>14, <1>t, InsideStep DEF Execute, Guarded, InStep, AloneInv, ExecutesAlone
  <1>15. ASSUME NEW i \in Instances, NEW o \in Outcomes, FinishRun(i, o)
         PROVE  AloneInv'
    BY <1>15, <1>t, LeavingStep DEF FinishRun, Guarded, InStep
  <1>16. ASSUME NEW i \in Instances, Unlock(i)
         PROVE  AloneInv'
    <2>1. runs' = runs /\ \A j \in Instances : j # i /\ lock = j => lock' = j
      BY <1>16, <1>f DEF Unlock
    <2>2. CASE Leave(i)
      BY <1>8, <2>1, <2>2
    <2>3. CASE pc' = [pc EXCEPT ![i] = "waitRetry"] /\ ForgetStep(i)
      <3>1. \A j \in Instances : j # i => run'[j] = run[j]
        BY <2>3 DEF ForgetStep, AloneInv, Typing, TypeOK
      <3>2. QED
        BY <1>t, <2>1, <2>3, <3>1, OutsideStep DEF PC, Guarded, InStep
    <2>4. QED
      BY <1>16, <2>2, <2>3 DEF Unlock
  <1>17. ASSUME NEW i \in Instances, Quit(i) \/ LockBusy(i) \/ LockFails(i)
         PROVE  AloneInv'
    <2>1. Leave(i) /\ runs' = runs
      BY <1>17 DEF Quit, LockBusy, LockFails
    <2>2. \A j \in Instances : j # i /\ lock = j => lock' = j
      BY <1>17, <1>f DEF Quit, LockBusy, LockFails
    <2>3. QED
      BY <1>8, <2>1, <2>2
  <1>18. CASE UNCHANGED vars
    BY <1>18, <1>t
       DEF vars, local, AloneInv, HolderInStep, NothingLeftOpen, ExecutesAlone
  <1>19. QED
    BY <1>1, <1>2, <1>3, <1>4, <1>5, <1>6, <1>7, <1>9, <1>10, <1>11, <1>12, <1>13,
       <1>14, <1>15, <1>16, <1>17, <1>18 DEF Next, Step

\* With connections that do not break before the outcome is written, no run is ever taken for one that was left
\* behind while it executes, however many instances there are and wherever they
\* are stopped or crash.
THEOREM AloneHolds ==
    ASSUME Fragile \subseteq Instances \X {"unlock"}
    PROVE  Spec => []ExecutesAlone
  <1>1. AloneInv => ExecutesAlone
    BY DEF AloneInv
  <1>2. AloneInv /\ [Next]_vars => AloneInv'
    BY AloneStep
  <1>3. QED
    BY <1>1, <1>2, AloneInit, PTL DEF Spec

-----------------------------------------------------------------------------
(* The history that the instances write together *)

\* Every row is dated by its slot, its start and its end, in this order.
Dated ==
    \A n \in DOMAIN runs :
        /\ runs[n].slot <= runs[n].started
        /\ 1 <= runs[n].started
        /\ runs[n].started <= now
        /\ runs[n].finished <= now
        /\ runs[n].status # "running" => runs[n].started <= runs[n].finished

\* Only the last row may be open.
OpenLast == \A n \in DOMAIN runs : runs[n].status = "running" => n = Len(runs)

\* The runs of a slot follow each other, each one after a failure and its delay ...
Chained ==
    \A n, m \in DOMAIN runs :
        n < m /\ runs[n].slot = runs[m].slot =>
            /\ runs[n].attempt < runs[m].attempt
            /\ runs[n].status = "failed"
            /\ runs[n].finished + RetryDelay(runs[n].attempt) <= runs[m].started

\* ... and none is left out.
Counted ==
    \A n \in DOMAIN runs : \A k \in 1..(runs[n].attempt - 1) :
        \E m \in DOMAIN runs :
            m < n /\ runs[m].slot = runs[n].slot /\ runs[m].attempt = k

\* What an instance has read on the clock is past, and in its step no row is newer.
Clocks ==
    /\ now >= 1
    /\ \A i \in Instances :
          /\ slot[i] <= now /\ at[i] <= now
          /\ pc[i] \in Guarded =>
                /\ slot[i] <= at[i] /\ 1 <= at[i]
                /\ \A n \in DOMAIN runs : runs[n].started <= at[i]

\* An instance that is about to start the run a of slot s has seen all the runs before.
Due(s, a, t) ==
    /\ a \in 1..MaxAttempts
    /\ \A m \in RowsOf(s) :
          /\ runs[m].status = "failed" /\ runs[m].attempt < a
          /\ runs[m].finished + RetryDelay(runs[m].attempt) <= t
    /\ \A k \in 1..(a - 1) : \E m \in RowsOf(s) : runs[m].attempt = k

Decided == \A i \in Instances : pc[i] = "start" => Due(slot[i], attempt[i], at[i])

Rows == Dated /\ OpenLast /\ Chained /\ Counted

History == AloneInv /\ Rows /\ Clocks /\ Decided

LEMMA DelayType == \A n : RetryDelay(n) \in Nat \ {0}
  BY SchedulerAssumption DEF RetryDelay

LEMMA RowType ==
    ASSUME runs \in Seq(Row), NEW n \in DOMAIN runs
    PROVE  /\ n \in Nat /\ runs[n] \in Row /\ runs[n].slot \in Nat
           /\ runs[n].attempt \in 1..MaxAttempts /\ runs[n].attempt \in Nat
           /\ runs[n].started \in Nat /\ runs[n].finished \in Nat
           /\ runs[n].status \in Outcomes \cup {"running"}
  <1>1. runs[n] \in Row /\ n \in Nat
    OBVIOUS
  <1>2. QED
    BY <1>1, SchedulerAssumption DEF Row

\* A slot is not after the time at which it is the latest.
LEMMA SlotIsPast ==
    ASSUME NEW t \in Nat, t >= DayLength
    PROVE  LatestSlot(t) <= t
  <1> DEFINE today == {s \in SlotTimes : SlotOn(t, s) <= t}
  <1>1. CASE today # {}
    <2>1. today \subseteq Nat /\ IsFiniteSet(today)
      BY SlotTimesFinite
    <2>2. Max(today) \in today
      <3> HIDE DEF today
      <3>1. QED
        BY <1>1, <2>1, MaxOf
    <2>3. QED
      BY <1>1, <2>2 DEF LatestSlot
  <1>2. CASE today = {}
    <2>1. PICK s \in SlotTimes : s = Max(SlotTimes)
      BY SlotTimesFinite, SchedulerAssumption, MaxOf
    <2>2. s \in 0..(DayLength - 1) /\ DayLength \in Nat \ {0}
      BY SchedulerAssumption
    <2>3. PICK x \in Nat : x = t - DayLength
      BY <2>2
    <2>4. x % DayLength \in Nat
      BY <2>2
    <2>5. SlotOn(x, s) <= x + s
      BY <2>2, <2>4 DEF SlotOn
    <2>6. LatestSlot(t) = SlotOn(x, s)
      BY <1>2, <2>1, <2>3 DEF LatestSlot
    <2>7. SlotOn(x, s) \in Nat
      BY <2>3, SlotOnType
    <2>8. QED
      BY <2>2, <2>3, <2>5, <2>6, <2>7
  <1>3. QED
    BY <1>1, <1>2

\* The last attempt is the greatest one of the rows.
LEMMA LastAttemptIs ==
    ASSUME runs \in Seq(Row), NEW s
    PROVE  /\ \A n \in RowsOf(s) : runs[n].attempt <= LastAttempt(s)
           /\ \/ LastAttempt(s) = 0
              \/ \E n \in RowsOf(s) : runs[n].attempt = LastAttempt(s)
  <1> DEFINE A == {0} \cup {runs[n].attempt : n \in RowsOf(s)}
  <1>1. A \subseteq 0..MaxAttempts /\ MaxAttempts \in Nat
    <2>1. \A n \in RowsOf(s) : runs[n].attempt \in 1..MaxAttempts
      BY RowOfSlot
    <2>2. QED
      BY <2>1, SchedulerAssumption
  <1>2. A # {} /\ \A n \in RowsOf(s) : runs[n].attempt \in A
    OBVIOUS
  <1>3. Max(A) \in A /\ \A x \in A : x <= Max(A)
    <2> HIDE DEF A
    <2>1. A \subseteq Nat /\ IsFiniteSet(0..MaxAttempts)
      BY <1>1, FS_Interval
    <2>2. IsFiniteSet(A)
      BY <1>1, <2>1, FS_Subset, Zenon
    <2>3. QED
      BY <1>2, <2>1, <2>2, MaxOf
  <1>4. LastAttempt(s) = Max(A)
    BY DEF LastAttempt
  <1>5. \A n \in RowsOf(s) : runs[n].attempt <= LastAttempt(s)
    <2> HIDE DEF A
    <2>1. QED
      BY <1>2, <1>3, <1>4
  <1>6. LastAttempt(s) = 0 \/ \E n \in RowsOf(s) : runs[n].attempt = LastAttempt(s)
    BY <1>3, <1>4
  <1>7. QED
    BY <1>5, <1>6

\* What decide finds out about the slot from the rows that it reads.
LEMMA DecideIsDue ==
    ASSUME runs \in Seq(Row), Dated, Chained, Counted, NEW s, NEW t \in Nat,
           \A n \in DOMAIN runs : runs[n].started <= t,
           ~Skips(s), NotBefore(s, t) <= t
    PROVE  Due(s, LastAttempt(s) + 1, t)
  <1>1. LastAttempt(s) \in Nat /\ LastAttempt(s) + 1 \in 1..MaxAttempts
    BY LastAttemptType, SchedulerAssumption DEF Skips
  <1>2. \A n \in RowsOf(s) : runs[n].status = "failed"
    BY RowOfSlot, RowType DEF Skips, Outcomes
  <1>3. CASE RowsOf(s) = {}
    <2>1. LastAttempt(s) = 0
      BY <1>3, LastAttemptIs
    <2>2. QED
      BY <1>1, <1>3, <2>1 DEF Due
  <1>4. CASE RowsOf(s) # {}
    <2>1. PICK n \in RowsOf(s) : n = Newest(s)
      BY <1>4, NewestExists
    <2>2. \A m \in RowsOf(s) :
              \/ runs[m].started < runs[n].started
              \/ runs[m].started = runs[n].started /\ m <= n
      BY <1>4, <2>1, NewestExists
    <2>3. n \in DOMAIN runs /\ runs[n].slot = s
      BY RowOfSlot
    <2>4. /\ n \in Nat /\ runs[n].attempt \in Nat /\ runs[n].started \in Nat
          /\ runs[n].finished \in Nat
      BY <2>3, RowType
    <2>5. /\ runs[n].started <= runs[n].finished /\ 1 <= runs[n].started
          /\ runs[n].started <= t
      BY <1>2, <2>3 DEF Dated
    <2>6. ASSUME NEW m \in RowsOf(s), m # n
          PROVE  /\ m < n /\ runs[m].attempt < runs[n].attempt
                 /\ runs[m].finished + RetryDelay(runs[m].attempt) <= t
      <3>1. /\ m \in DOMAIN runs /\ runs[m].slot = s
        BY RowOfSlot
      <3>2. /\ m \in Nat /\ runs[m].attempt \in Nat /\ runs[m].started \in Nat
            /\ runs[m].finished \in Nat
        BY <3>1, RowType
      <3>3. ~(n < m)
        <4> SUFFICES ASSUME n < m PROVE FALSE
          OBVIOUS
        <4>1. runs[n].finished + RetryDelay(runs[n].attempt) <= runs[m].started
          BY <2>3, <3>1 DEF Chained
        <4>2. RetryDelay(runs[n].attempt) \in Nat \ {0}
          BY DelayType
        <4>3. QED
          BY <2>2, <2>4, <2>5, <3>2, <4>1, <4>2
      <3>4. m < n
        BY <2>4, <2>6, <3>2, <3>3
      <3>5. /\ runs[m].attempt < runs[n].attempt
            /\ runs[m].finished + RetryDelay(runs[m].attempt) <= runs[n].started
        BY <2>3, <3>1, <3>4 DEF Chained
      <3>6. RetryDelay(runs[m].attempt) \in Nat
        BY DelayType
      <3>7. QED
        BY <2>4, <2>5, <3>2, <3>4, <3>5, <3>6
    <2>7. LastAttempt(s) = runs[n].attempt
      <3>1. runs[n].attempt <= LastAttempt(s)
        BY LastAttemptIs
      <3>2. runs[n].attempt # 0
        BY <2>3, RowType
      <3>3. LastAttempt(s) # 0
        BY <1>1, <2>4, <3>1, <3>2
      <3>4. PICK m \in RowsOf(s) : runs[m].attempt = LastAttempt(s)
        BY <3>3, LastAttemptIs
      <3>5. CASE m # n
        BY <1>1, <2>4, <2>6, <3>1, <3>4, <3>5
      <3>6. QED
        BY <3>4, <3>5
    <2>8. runs[n].finished + RetryDelay(runs[n].attempt) <= t
      <3>1. runs[n].finished # 0
        BY <2>4, <2>5
      <3>2. NotBefore(s, t) = runs[n].finished + RetryDelay(runs[n].attempt)
        BY <1>4, <2>1, <2>7, <3>1 DEF NotBefore
      <3>3. QED
        BY <3>2
    <2>9. \A m \in RowsOf(s) :
              /\ runs[m].status = "failed" /\ runs[m].attempt < LastAttempt(s) + 1
              /\ runs[m].finished + RetryDelay(runs[m].attempt) <= t
      <3> SUFFICES ASSUME NEW m \in RowsOf(s)
                   PROVE  /\ runs[m].attempt < LastAttempt(s) + 1
                          /\ runs[m].finished + RetryDelay(runs[m].attempt) <= t
        BY <1>2
      <3>1. m \in DOMAIN runs
        BY RowOfSlot
      <3>2. runs[m].attempt \in Nat
        BY <3>1, RowType
      <3>3. CASE m = n
        BY <2>4, <2>7, <2>8, <3>3
      <3>4. CASE m # n
        BY <2>4, <2>6, <2>7, <3>2, <3>4
      <3>5. QED
        BY <3>3, <3>4
    <2>10. ASSUME NEW k \in 1..LastAttempt(s)
           PROVE  \E m \in RowsOf(s) : runs[m].attempt = k
      <3>1. CASE k = runs[n].attempt
        BY <3>1
      <3>2. CASE k # runs[n].attempt
        <4>1. k \in 1..(runs[n].attempt - 1)
          BY <2>4, <2>7, <3>2
        <4>2. PICK m \in DOMAIN runs : runs[m].slot = runs[n].slot /\ runs[m].attempt = k
          BY <2>3, <4>1 DEF Counted
        <4>3. QED
          BY <2>3, <4>2 DEF RowsOf
      <3>3. QED
        BY <3>1, <3>2
    <2>11. QED
      BY <1>1, <2>9, <2>10 DEF Due
  <1>5. QED
    BY <1>3, <1>4

-----------------------------------------------------------------------------
(* What a step does to the history: it opens a row, closes rows, or leaves it *)

Opens(i) == pc[i] = "start" /\ runs' = Started(i) /\ now' = now

Abandons(i) == pc[i] = "abandon" /\ runs' = Abandoned(at[i]) /\ now' = now

Finishes(i) ==
    /\ pc[i] = "finish" /\ now' = now
    /\ \E o \in Outcomes :
          runs' = [runs EXCEPT ![run[i]].status = o, ![run[i]].finished = at[i]]

LEMMA HistorySteps ==
    ASSUME [Next]_vars
    PROVE  \/ runs' = runs /\ (now' = now \/ now' = now + 1)
           \/ \E i \in Instances : Opens(i) \/ Abandons(i) \/ Finishes(i)
  <1>1. ASSUME NEW i \in Instances,
               Boot(i) \/ Stop(i) \/ Crash(i) \/ LoseConnection(i)
                  \/ WakeForSlot(i) \/ WakeForRetry(i) \/ Quit(i) \/ TryLock(i)
                  \/ LockBusy(i) \/ LockFails(i) \/ Read(i) \/ Execute(i) \/ Unlock(i)
        PROVE  runs' = runs /\ now' = now
    BY <1>1 DEF Boot, Stop, Crash, LoseConnection, WakeForSlot, WakeForRetry, Quit,
                TryLock, LockBusy, LockFails, Read, Execute, Unlock
  <1>2. ASSUME NEW i \in Instances, Abandon(i) \/ StartRun(i) \/ GiveUp(i)
        PROVE  (runs' = runs /\ now' = now) \/ Opens(i) \/ Abandons(i)
    BY <1>2 DEF Abandon, StartRun, GiveUp, Opens, Abandons
  <1>3. ASSUME NEW i \in Instances, NEW o \in Outcomes, FinishRun(i, o)
        PROVE  (runs' = runs /\ now' = now) \/ Finishes(i)
    BY <1>3 DEF FinishRun, Finishes
  <1>4. CASE DropSession \/ Tick \/ UNCHANGED vars
    BY <1>4 DEF DropSession, Tick, vars
  <1>5. QED
    BY <1>1, <1>2, <1>3, <1>4 DEF Next, Step

\* A row is closed at a time t, once, and nothing else about it changes.
Closed(n, t) ==
    /\ runs[n].status = "running"
    /\ runs'[n].status \in Outcomes /\ runs'[n].finished = t
    /\ runs'[n].slot = runs[n].slot
    /\ runs'[n].attempt = runs[n].attempt
    /\ runs'[n].started = runs[n].started

LEMMA AbandonsCloses ==
    ASSUME Typing, NEW i \in Instances, Abandons(i)
    PROVE  /\ runs' \in Seq(Row) /\ DOMAIN runs' = DOMAIN runs /\ Len(runs') = Len(runs)
           /\ \A n \in DOMAIN runs :
                  \/ runs'[n] = runs[n] /\ runs[n].status # "running"
                  \/ /\ Closed(n, at[i])
                     /\ runs'[n] = [runs[n] EXCEPT !.status = "failed", !.finished = at[i]]
  <1>1. runs \in Seq(Row) /\ at[i] \in Nat
    BY DEF Typing, TypeOK
  <1>2. /\ runs' \in Seq(Row) /\ DOMAIN runs' = DOMAIN runs /\ Len(runs') = Len(runs)
    BY <1>1, AbandonedType DEF Abandons
  <1>3. ASSUME NEW n \in DOMAIN runs, runs[n].status = "running"
        PROVE  /\ Closed(n, at[i])
               /\ runs'[n] = [runs[n] EXCEPT !.status = "failed", !.finished = at[i]]
    <2>1. runs[n] \in Row
      BY <1>1
    <2>2. runs'[n] = [runs[n] EXCEPT !.status = "failed", !.finished = at[i]]
      BY <1>3 DEF Abandons, Abandoned
    <2>3. QED
      BY <1>3, <2>1, <2>2 DEF Closed, Row, Outcomes
  <1>4. \A n \in DOMAIN runs : runs[n].status # "running" => runs'[n] = runs[n]
    BY DEF Abandons, Abandoned
  <1>5. QED
    BY <1>2, <1>3, <1>4

LEMMA FinishesCloses ==
    ASSUME AloneInv, NEW i \in Instances, Finishes(i)
    PROVE  /\ runs' \in Seq(Row) /\ DOMAIN runs' = DOMAIN runs /\ Len(runs') = Len(runs)
           /\ \A n \in DOMAIN runs :
                  \/ runs'[n] = runs[n] /\ n # run[i]
                  \/ Closed(n, at[i]) /\ n = run[i]
  <1>1. runs \in Seq(Row) /\ at[i] \in Nat
    BY DEF AloneInv, Typing, TypeOK
  <1>2. PICK o \in Outcomes :
            runs' = [runs EXCEPT ![run[i]].status = o, ![run[i]].finished = at[i]]
    BY DEF Finishes
  <1>3. /\ runs' \in Seq(Row) /\ DOMAIN runs' = DOMAIN runs /\ Len(runs') = Len(runs)
    BY <1>1, <1>2, FinishedType
  <1>4. ASSUME NEW n \in DOMAIN runs, n = run[i]
        PROVE  Closed(n, at[i])
    <2>1. runs[n] \in Row
      BY <1>1
    <2>2. runs[n].status = "running"
      BY <1>4 DEF Finishes, AloneInv, ExecutesAlone
    <2>3. QED
      BY <1>2, <1>4, <2>1, <2>2 DEF Closed, Row
  <1>5. \A n \in DOMAIN runs : n # run[i] => runs'[n] = runs[n]
    BY <1>1, <1>2
  <1>6. QED
    BY <1>3, <1>4, <1>5

LEMMA ClosingKeepsRows ==
    ASSUME Typing, Rows, NEW t \in Nat, t <= now, now' = now,
           runs' \in Seq(Row), DOMAIN runs' = DOMAIN runs, Len(runs') = Len(runs),
           \A n \in DOMAIN runs : runs[n].started <= t,
           \A n \in DOMAIN runs : runs'[n] = runs[n] \/ Closed(n, t)
    PROVE  Rows'
  <1>0. runs \in Seq(Row)
    BY DEF Typing, TypeOK
  <1>1. \A n \in DOMAIN runs : /\ runs'[n].slot = runs[n].slot
                               /\ runs'[n].attempt = runs[n].attempt
                               /\ runs'[n].started = runs[n].started
                               /\ runs[n].status # "running" => runs'[n] = runs[n]
    BY DEF Closed
  <1>2. Dated'
    BY <1>1 DEF Rows, Dated, Closed
  <1>3. OpenLast'
    BY DEF Rows, OpenLast, Closed, Outcomes
  <1>4. Chained'
    <2> SUFFICES ASSUME NEW n \in DOMAIN runs, NEW m \in DOMAIN runs,
                        n < m, runs[n].slot = runs[m].slot
                 PROVE  /\ runs'[n].attempt < runs'[m].attempt
                        /\ runs'[n].status = "failed"
                        /\ runs'[n].finished + RetryDelay(runs'[n].attempt)
                             <= runs'[m].started
      BY <1>1 DEF Chained
    <2>1. /\ runs[n].attempt < runs[m].attempt
          /\ runs[n].status = "failed"
          /\ runs[n].finished + RetryDelay(runs[n].attempt) <= runs[m].started
      BY DEF Rows, Chained
    <2>2. runs'[n] = runs[n]
      BY <1>1, <2>1
    <2>3. QED
      BY <1>1, <2>1, <2>2
  <1>5. Counted'
    <2> SUFFICES ASSUME NEW n \in DOMAIN runs, NEW k \in 1..(runs[n].attempt - 1)
                 PROVE  \E m \in DOMAIN runs :
                            m < n /\ runs'[m].slot = runs'[n].slot /\ runs'[m].attempt = k
      BY <1>1 DEF Counted
    <2>1. PICK m \in DOMAIN runs :
              m < n /\ runs[m].slot = runs[n].slot /\ runs[m].attempt = k
      BY DEF Rows, Counted
    <2>2. QED
      BY <1>1, <2>1
  <1>6. QED
    BY <1>2, <1>3, <1>4, <1>5 DEF Rows

LEMMA OpeningKeepsRows ==
    ASSUME Typing, Rows, NEW r \in Row, runs' = Append(runs, r), now' = now,
           r.status = "running", r.finished = 0,
           r.slot <= r.started, 1 <= r.started, r.started <= now,
           \A n \in DOMAIN runs : runs[n].status # "running",
           Due(r.slot, r.attempt, r.started)
    PROVE  Rows'
  <1>0. runs \in Seq(Row) /\ Len(runs) \in Nat /\ DOMAIN runs = 1..Len(runs) /\ now \in Nat
    BY DEF Typing, TypeOK
  <1> DEFINE l == Len(runs) + 1
  <1>1. /\ runs' \in Seq(Row) /\ Len(runs') = l /\ DOMAIN runs' = 1..l
        /\ DOMAIN runs' = DOMAIN runs \cup {l} /\ l \notin DOMAIN runs
        /\ runs'[l] = r /\ \A n \in DOMAIN runs : runs'[n] = runs[n] /\ n < l
    BY <1>0
  <1> HIDE DEF l
  <1>2. Dated'
    BY <1>0, <1>1 DEF Rows, Dated
  <1>3. OpenLast'
    BY <1>1 DEF OpenLast
  <1>4. Chained'
    <2> SUFFICES ASSUME NEW n \in DOMAIN runs, NEW m \in DOMAIN runs',
                        n < m, runs[n].slot = runs'[m].slot
                 PROVE  /\ runs[n].attempt < runs'[m].attempt
                        /\ runs[n].status = "failed"
                        /\ runs[n].finished + RetryDelay(runs[n].attempt)
                             <= runs'[m].started
      <3>1. \A m \in DOMAIN runs' : ~(l < m)
        BY <1>0, <1>1 DEF l
      <3>2. QED
        BY <1>1, <3>1 DEF Chained
    <2>1. CASE m \in DOMAIN runs
      BY <1>1, <2>1 DEF Rows, Chained
    <2>2. CASE m = l
      <3>1. n \in RowsOf(r.slot)
        BY <1>1, <2>2 DEF RowsOf
      <3>2. QED
        BY <1>1, <2>2, <3>1 DEF Due
    <2>3. QED
      BY <1>1, <2>1, <2>2
  <1>5. Counted'
    <2> SUFFICES ASSUME NEW n \in DOMAIN runs', NEW k \in 1..(runs'[n].attempt - 1)
                 PROVE  \E m \in DOMAIN runs' :
                            m < n /\ runs'[m].slot = runs'[n].slot /\ runs'[m].attempt = k
      BY DEF Counted
    <2>1. CASE n \in DOMAIN runs
      <3>1. PICK m \in DOMAIN runs :
                m < n /\ runs[m].slot = runs[n].slot /\ runs[m].attempt = k
        BY <1>1, <2>1 DEF Rows, Counted
      <3>2. QED
        BY <1>1, <2>1, <3>1
    <2>2. CASE n = l
      <3>1. PICK m \in RowsOf(r.slot) : runs[m].attempt = k
        BY <1>1, <2>2 DEF Due
      <3>2. QED
        BY <1>1, <2>2, <3>1 DEF RowsOf
    <2>3. QED
      BY <1>1, <2>1, <2>2
  <1>6. QED
    BY <1>2, <1>3, <1>4, <1>5 DEF Rows

\* The row that an instance opens.
LEMMA OpensRow ==
    ASSUME History, NEW i \in Instances, Opens(i)
    PROVE  \E r \in Row :
              /\ runs' = Append(runs, r) /\ r.status = "running" /\ r.finished = 0
              /\ r.slot <= r.started /\ 1 <= r.started /\ r.started <= now
              /\ r.started = at[i]
              /\ Due(r.slot, r.attempt, r.started)
              /\ \A n \in DOMAIN runs : runs[n].status # "running"
  <1> DEFINE r == [slot |-> slot[i], attempt |-> attempt[i], status |-> "running",
                   started |-> at[i], finished |-> 0]
  <1>1. r \in Row
    BY DEF Opens, History, AloneInv, Typing, TypeOK, Row
  <1>2. runs' = Append(runs, r)
    BY DEF Opens, Started
  <1>3. r.slot <= r.started /\ 1 <= r.started /\ r.started <= now
    BY DEF Opens, History, Clocks, Guarded, InStep
  <1>4. Due(slot[i], attempt[i], at[i])
    BY DEF Opens, History, Decided
  <1>5. Due(r.slot, r.attempt, r.started)
    BY <1>4
  <1>6. \A n \in DOMAIN runs : runs[n].status # "running"
    BY DEF Opens, History, AloneInv, NothingLeftOpen
  <1>7. r.status = "running" /\ r.finished = 0 /\ r.started = at[i]
    OBVIOUS
  <1> HIDE DEF r
  <1>8. QED
    BY <1>1, <1>2, <1>3, <1>5, <1>6, <1>7

LEMMA RowsStep ==
    ASSUME History, [Next]_vars
    PROVE  Rows'
  <1>0. Typing /\ Rows /\ AloneInv /\ now \in Nat
    BY DEF History, AloneInv, Typing, TypeOK
  <1>1. CASE runs' = runs /\ (now' = now \/ now' = now + 1)
    <2>1. runs \in Seq(Row) /\ now \in Nat
      BY <1>0 DEF Typing, TypeOK
    <2>2. Dated'
      <3> SUFFICES ASSUME NEW n \in DOMAIN runs
                   PROVE  /\ runs[n].slot <= runs[n].started
                          /\ 1 <= runs[n].started
                          /\ runs[n].started <= now'
                          /\ runs[n].finished <= now'
                          /\ runs[n].status # "running" =>
                                runs[n].started <= runs[n].finished
        BY <1>1 DEF Dated
      <3>1. runs[n].started \in Nat /\ runs[n].finished \in Nat
        BY <2>1, RowType
      <3>2. QED
        BY <1>0, <1>1, <2>1, <3>1 DEF Rows, Dated
    <2>3. QED
      BY <1>0, <1>1, <2>2 DEF Rows, OpenLast, Chained, Counted
  <1>2. ASSUME NEW i \in Instances, Opens(i)
        PROVE  Rows'
    <2>1. PICK r \in Row :
              /\ runs' = Append(runs, r) /\ r.status = "running" /\ r.finished = 0
              /\ r.slot <= r.started /\ 1 <= r.started /\ r.started <= now
              /\ Due(r.slot, r.attempt, r.started)
              /\ \A n \in DOMAIN runs : runs[n].status # "running"
      BY <1>2, OpensRow
    <2>2. QED
      BY <1>0, <1>2, <2>1, OpeningKeepsRows DEF Opens
  <1>3. ASSUME NEW i \in Instances, Abandons(i) \/ Finishes(i)
        PROVE  Rows'
    <2>1. pc[i] \in Guarded /\ now' = now
      BY <1>3 DEF Abandons, Finishes, Guarded, InStep
    <2>2. PICK t \in Nat : t = at[i]
      BY <1>0 DEF Typing, TypeOK
    <2>3. t <= now /\ \A n \in DOMAIN runs : runs[n].started <= t
      BY <2>1, <2>2 DEF History, Clocks
    <2>4. /\ runs' \in Seq(Row) /\ DOMAIN runs' = DOMAIN runs /\ Len(runs') = Len(runs)
          /\ \A n \in DOMAIN runs : runs'[n] = runs[n] \/ Closed(n, t)
      BY <1>0, <1>3, <2>2, AbandonsCloses, FinishesCloses
    <2>5. QED
      BY <1>0, <2>1, <2>3, <2>4, ClosingKeepsRows
  <1>4. QED
    BY <1>1, <1>2, <1>3, HistorySteps

\* What a step does to what an instance knows of the clock.
LEMMA ClockSteps ==
    ASSUME Typing, [Next]_vars, NEW j \in Instances
    PROVE  /\ slot'[j] \in {0, slot[j], LatestSlot(now)}
           /\ at'[j] \in {0, at[j], now}
           /\ pc'[j] \in Guarded =>
                 /\ slot'[j] = slot[j] /\ pc[j] \in Guarded \cup {"lock"}
                 /\ at'[j] = now \/ (pc[j] \in Guarded /\ at'[j] = at[j])
  <1> DEFINE G == pc'[j] \in Guarded =>
                     /\ slot'[j] = slot[j] /\ pc[j] \in Guarded \cup {"lock"}
                     /\ at'[j] = now \/ (pc[j] \in Guarded /\ at'[j] = at[j])
             P == /\ slot'[j] \in {0, slot[j], LatestSlot(now)}
                  /\ at'[j] \in {0, at[j], now}
                  /\ G
  <1>0. /\ pc \in [Instances -> PC] /\ slot \in [Instances -> Nat]
        /\ at \in [Instances -> Nat]
    BY DEF Typing, TypeOK
  <1>1. ASSUME NEW i \in Instances, Boot(i) \/ WakeForSlot(i)
        PROVE  P
    BY <1>0, <1>1 DEF Boot, WakeForSlot, Guarded, InStep
  <1>2. ASSUME NEW i \in Instances, Leave(i) \/ Crash(i)
        PROVE  P
    <2> DEFINE p == pc'[i]
    <2>1. pc' = [pc EXCEPT ![i] = p] /\ p \notin Guarded
      BY <1>0, <1>2 DEF Leave, Crash, Guarded, InStep
    <2>2. slot' = [slot EXCEPT ![i] = 0] /\ at' = [at EXCEPT ![i] = 0]
      BY <1>2 DEF Leave, Crash, ForgetStep
    <2> HIDE DEF p
    <2>3. QED
      BY <1>0, <2>1, <2>2
  <1>3. ASSUME NEW i \in Instances, slot' = slot, at' = at,
               NEW q \in PC, pc' = [pc EXCEPT ![i] = q],
               q \in Guarded => pc[i] \in Guarded
        PROVE  P
    BY <1>0, <1>3
  <1>4. ASSUME NEW i \in Instances, WakeForRetry(i)
        PROVE  P
    BY <1>3, <1>4 DEF WakeForRetry, PC, Guarded, InStep
  <1>5. ASSUME NEW i \in Instances, TryLock(i) \/ StartRun(i) \/ Execute(i)
        PROVE  P
    BY <1>0, <1>5 DEF TryLock, StartRun, Execute, Guarded, InStep
  <1>6. ASSUME NEW i \in Instances, Abandon(i) \/ GiveUp(i)
        PROVE  P
    BY <1>3, <1>6 DEF Abandon, GiveUp, PC, Guarded, InStep
  <1>7. ASSUME NEW i \in Instances, Read(i)
        PROVE  P
    BY <1>3, <1>7 DEF Read, PC, Guarded, InStep
  <1>8. ASSUME NEW i \in Instances, NEW o \in Outcomes, FinishRun(i, o)
        PROVE  P
    BY <1>3, <1>8 DEF FinishRun, PC, Guarded, InStep
  <1>9. ASSUME NEW i \in Instances, Unlock(i)
        PROVE  P
    <2>1. CASE Leave(i)
      BY <1>2, <2>1
    <2>2. CASE pc' = [pc EXCEPT ![i] = "waitRetry"] /\ ForgetStep(i) /\ slot' = slot
      BY <1>0, <2>2 DEF ForgetStep, Guarded, InStep
    <2>3. QED
      BY <1>9, <2>1, <2>2 DEF Unlock
  <1>10. ASSUME NEW i \in Instances, Quit(i) \/ LockBusy(i) \/ LockFails(i)
         PROVE  P
    BY <1>2, <1>10 DEF Quit, LockBusy, LockFails
  <1>11. ASSUME pc' = pc, slot' = slot, at' = at
         PROVE  P
    BY <1>11
  <1>12. ASSUME NEW i \in Instances, Stop(i) \/ LoseConnection(i)
         PROVE  P
    BY <1>11, <1>12 DEF Stop, LoseConnection, local
  <1>13. ASSUME DropSession \/ Tick \/ UNCHANGED vars
         PROVE  P
    BY <1>11, <1>13 DEF DropSession, Tick, vars, local
  <1> HIDE DEF P
  <1>14. ASSUME NEW i \in Instances, Step(i)
         PROVE  P
    BY <1>1, <1>4, <1>5, <1>6, <1>7, <1>8, <1>9, <1>10, <1>14 DEF Step
  <1>15. P
    BY <1>1, <1>2, <1>12, <1>13, <1>14 DEF Next
  <1>16. QED
    BY <1>15 DEF P

\* A row is as old as it was, or as old as what its instance read on the clock.
LEMMA StartedRows ==
    ASSUME History, [Next]_vars, NEW n \in DOMAIN runs'
    PROVE  \/ n \in DOMAIN runs /\ runs'[n].started = runs[n].started
           \/ \E i \in Instances : pc[i] = "start" /\ runs'[n].started = at[i]
  <1>0. AloneInv /\ Typing /\ runs \in Seq(Row)
    BY DEF History, AloneInv, Typing, TypeOK
  <1>1. ASSUME NEW i \in Instances, Opens(i)
        PROVE  \/ n \in DOMAIN runs /\ runs'[n].started = runs[n].started
               \/ runs'[n].started = at[i]
    <2>1. PICK r \in Row : runs' = Append(runs, r) /\ r.started = at[i]
      BY <1>1, OpensRow
    <2>2. QED
      BY <1>0, <2>1
  <1>2. ASSUME NEW i \in Instances, Abandons(i) \/ Finishes(i)
        PROVE  n \in DOMAIN runs /\ runs'[n].started = runs[n].started
    BY <1>0, <1>2, AbandonsCloses, FinishesCloses DEF Closed
  <1>3. QED
    BY <1>1, <1>2, HistorySteps DEF Opens

LEMMA ClocksStep ==
    ASSUME History, [Next]_vars, Typing', Rows'
    PROVE  Clocks'
  <1>0. /\ Typing /\ AloneInv /\ Rows /\ Clocks /\ now \in Nat
        /\ now >= DayLength /\ DayLength \in Nat \ {0}
    BY SchedulerAssumption DEF History, AloneInv, Typing, TypeOK
  <1>1. now' = now \/ now' = now + 1
    BY HistorySteps DEF Opens, Abandons, Finishes
  <1>2. now' >= now /\ now' >= 1 /\ now' \in Nat
    BY <1>0, <1>1 DEF Clocks
  <1>3. \A n \in DOMAIN runs' : runs'[n].started <= now
    <2> SUFFICES ASSUME NEW n \in DOMAIN runs'
                 PROVE  runs'[n].started <= now
      OBVIOUS
    <2>1. CASE n \in DOMAIN runs /\ runs'[n].started = runs[n].started
      BY <1>0, <2>1 DEF Rows, Dated
    <2>2. ASSUME NEW i \in Instances, runs'[n].started = at[i]
          PROVE  runs'[n].started <= now
      BY <1>0, <2>2 DEF Clocks
    <2>3. QED
      BY <2>1, <2>2, StartedRows
  <1>4. ASSUME NEW j \in Instances
        PROVE  /\ slot'[j] <= now' /\ at'[j] <= now'
               /\ pc'[j] \in Guarded =>
                     /\ slot'[j] <= at'[j] /\ 1 <= at'[j]
                     /\ \A n \in DOMAIN runs' : runs'[n].started <= at'[j]
    <2>1. slot[j] <= now /\ at[j] <= now /\ slot[j] \in Nat /\ at[j] \in Nat
      BY <1>0 DEF Clocks, Typing, TypeOK
    <2>2. LatestSlot(now) <= now /\ LatestSlot(now) \in Nat
      BY <1>0, SlotIsPast, SlotsType
    <2>3. slot'[j] \in {0, slot[j], LatestSlot(now)} /\ at'[j] \in {0, at[j], now}
      BY <1>0, ClockSteps
    <2>4. slot'[j] <= now' /\ at'[j] <= now'
      BY <1>0, <1>2, <2>1, <2>2, <2>3
    <2>5. ASSUME pc'[j] \in Guarded
          PROVE  /\ slot'[j] <= at'[j] /\ 1 <= at'[j]
                 /\ \A n \in DOMAIN runs' : runs'[n].started <= at'[j]
      <3>1. slot'[j] = slot[j]
        BY <1>0, <2>5, ClockSteps
      <3>2. CASE at'[j] = now
        BY <1>0, <1>3, <2>1, <3>1, <3>2 DEF Clocks
      <3>3. CASE pc[j] \in Guarded /\ at'[j] = at[j]
        <4>1. /\ slot[j] <= at[j] /\ 1 <= at[j]
              /\ \A n \in DOMAIN runs : runs[n].started <= at[j]
          BY <1>0, <3>3 DEF Clocks
        <4>2. \A i \in Instances : pc[i] = "start" => i = j
          BY <1>0, <3>3 DEF AloneInv, HolderInStep, Guarded, InStep
        <4>3. \A n \in DOMAIN runs' : runs'[n].started <= at[j]
          BY <2>1, <4>1, <4>2, StartedRows
        <4>4. QED
          BY <3>1, <3>3, <4>1, <4>3
      <3>4. QED
        BY <1>0, <2>5, <3>2, <3>3, ClockSteps
    <2>6. QED
      BY <2>4, <2>5
  <1>5. QED
    BY <1>2, <1>4 DEF Clocks

\* Only decide lets an instance start a run, and from there on nothing but its own
\* next step writes to the history, unless another instance is in its step, too.
LEMMA StartSteps ==
    ASSUME Typing, [Next]_vars, NEW j \in Instances, pc'[j] = "start"
    PROVE  \/ pc[j] = "read" /\ Read(j)
           \/ /\ pc[j] = "start"
              /\ slot'[j] = slot[j] /\ attempt'[j] = attempt[j] /\ at'[j] = at[j]
              /\ runs' = runs \/ \E i \in Instances \ {j} : pc[i] \in Guarded
  <1> DEFINE K == /\ pc[j] = "start"
                  /\ slot'[j] = slot[j] /\ attempt'[j] = attempt[j] /\ at'[j] = at[j]
             W == runs' = runs \/ \E i \in Instances \ {j} : pc[i] \in Guarded
  <1>0. /\ pc \in [Instances -> PC] /\ slot \in [Instances -> Nat]
        /\ at \in [Instances -> Nat] /\ attempt \in [Instances -> 0..MaxAttempts]
    BY DEF Typing, TypeOK
  <1>1. ASSUME NEW i \in Instances,
               Boot(i) \/ WakeForSlot(i) \/ WakeForRetry(i) \/ TryLock(i) \/ Execute(i)
        PROVE  K /\ W
    BY <1>0, <1>1 DEF Boot, WakeForSlot, WakeForRetry, TryLock, Execute
  <1>2. ASSUME NEW i \in Instances, Leave(i) \/ Crash(i)
        PROVE  K
    BY <1>0, <1>2 DEF Leave, Crash, ForgetStep
  <1>3. ASSUME NEW i \in Instances, Read(i)
        PROVE  (pc[j] = "read" /\ Read(j)) \/ (K /\ W)
    <2>1. i # j => K /\ W
      BY <1>0, <1>3 DEF Read
    <2>2. i = j => pc[j] = "read"
      BY <1>3 DEF Read
    <2>3. QED
      BY <1>3, <2>1, <2>2
  <1>4. ASSUME NEW i \in Instances, Abandon(i) \/ StartRun(i) \/ GiveUp(i)
        PROVE  K /\ W
    <2>1. pc[i] \in Guarded
      BY <1>4 DEF Abandon, StartRun, GiveUp, Guarded, InStep
    <2>2. K /\ i # j
      BY <1>0, <1>4 DEF Abandon, StartRun, GiveUp
    <2> HIDE DEF K
    <2>3. QED
      BY <2>1, <2>2
  <1>5. ASSUME NEW i \in Instances, NEW o \in Outcomes, FinishRun(i, o)
        PROVE  K /\ W
    <2>1. pc[i] \in Guarded
      BY <1>5 DEF FinishRun, Guarded, InStep
    <2>2. K /\ i # j
      BY <1>0, <1>5 DEF FinishRun
    <2> HIDE DEF K
    <2>3. QED
      BY <2>1, <2>2
  <1>6. ASSUME NEW i \in Instances, Unlock(i)
        PROVE  K /\ W
    <2>1. CASE pc' = [pc EXCEPT ![i] = "waitRetry"] /\ ForgetStep(i) /\ slot' = slot
      BY <1>0, <1>6, <2>1 DEF ForgetStep, Unlock
    <2>2. W
      BY <1>6 DEF Unlock
    <2>3. QED
      BY <1>2, <1>6, <2>1, <2>2 DEF Unlock
  <1>7. ASSUME NEW i \in Instances, Quit(i) \/ LockBusy(i) \/ LockFails(i) \/ Crash(i)
        PROVE  K /\ W
    <2>1. runs' = runs
      BY <1>7 DEF Quit, LockBusy, LockFails, Crash
    <2>2. K
      BY <1>2, <1>7 DEF Quit, LockBusy, LockFails
    <2>3. QED
      BY <2>1, <2>2
  <1>8. ASSUME NEW i \in Instances, Stop(i) \/ LoseConnection(i)
        PROVE  K /\ W
    BY <1>8 DEF Stop, LoseConnection, local
  <1>9. ASSUME DropSession \/ Tick \/ UNCHANGED vars
        PROVE  K /\ W
    BY <1>9 DEF DropSession, Tick, vars, local
  <1> HIDE DEF K, W
  <1>10. ASSUME NEW i \in Instances, Step(i)
         PROVE  (pc[j] = "read" /\ Read(j)) \/ (K /\ W)
    BY <1>1, <1>3, <1>4, <1>5, <1>6, <1>7, <1>10 DEF Step
  <1>11. (pc[j] = "read" /\ Read(j)) \/ (K /\ W)
    BY <1>1, <1>7, <1>8, <1>9, <1>10 DEF Next
  <1>12. QED
    BY <1>11 DEF K, W

LEMMA DecidedStep ==
    ASSUME History, [Next]_vars
    PROVE  Decided'
  <1>0. /\ Typing /\ AloneInv /\ Rows /\ Clocks
        /\ runs \in Seq(Row) /\ attempt \in [Instances -> 0..MaxAttempts]
    BY DEF History, AloneInv, Typing, TypeOK
  <1> SUFFICES ASSUME NEW j \in Instances, pc'[j] = "start"
               PROVE  Due(slot[j], attempt[j], at[j])'
    BY DEF Decided
  <1>1. CASE pc[j] = "read" /\ Read(j)
    <2>1. /\ runs' = runs /\ slot' = slot /\ at' = at
          /\ ~Skips(slot[j]) /\ NotBefore(slot[j], at[j]) <= at[j]
          /\ attempt'[j] = LastAttempt(slot[j]) + 1
      <3>1. pc'[j] # "unlock"
        OBVIOUS
      <3>2. pc \in [Instances -> PC]
        BY <1>0 DEF Typing, TypeOK
      <3>3. LastAttempt(slot[j]) + 1 \in Nat
        BY <1>0, LastAttemptType
      <3>4. QED
        BY <1>0, <1>1, <3>1, <3>2, <3>3 DEF Read
    <2>2. PICK s \in Nat, t \in Nat : s = slot[j] /\ t = at[j]
      BY <1>0 DEF Typing, TypeOK
    <2>3. \A n \in DOMAIN runs : runs[n].started <= t
      BY <1>0, <1>1, <2>2 DEF Clocks, Guarded, InStep
    <2>4. Due(s, LastAttempt(s) + 1, t)
      BY <1>0, <2>1, <2>2, <2>3, DecideIsDue DEF Rows
    <2>5. PICK a : a = LastAttempt(s) + 1
      OBVIOUS
    <2>6. Due(s, a, t)'
      BY <2>1, <2>4, <2>5 DEF Due, RowsOf
    <2>7. slot'[j] = s /\ attempt'[j] = a /\ at'[j] = t
      BY <2>1, <2>2, <2>5
    <2>8. QED
      BY <2>6, <2>7
  <1>2. CASE /\ pc[j] = "start"
             /\ slot'[j] = slot[j] /\ attempt'[j] = attempt[j] /\ at'[j] = at[j]
             /\ runs' = runs \/ \E i \in Instances \ {j} : pc[i] \in Guarded
    <2>1. runs' = runs
      BY <1>0, <1>2 DEF AloneInv, HolderInStep, Guarded, InStep
    <2>2. PICK s, a, t : s = slot[j] /\ a = attempt[j] /\ t = at[j]
      OBVIOUS
    <2>3. Due(s, a, t)
      BY <1>2, <2>2 DEF History, Decided
    <2>4. Due(s, a, t)'
      BY <2>1, <2>3 DEF Due, RowsOf
    <2>5. slot'[j] = s /\ attempt'[j] = a /\ at'[j] = t
      BY <1>2, <2>2
    <2>6. QED
      BY <2>4, <2>5
  <1>3. QED
    BY <1>0, <1>1, <1>2, StartSteps

LEMMA HistoryInit == Init => History
  <1> SUFFICES ASSUME Init
               PROVE  History
    OBVIOUS
  <1>1. AloneInv
    BY AloneInit
  <1>2. Rows
    BY DEF Init, Rows, Dated, OpenLast, Chained, Counted
  <1>3. Clocks /\ Decided
    BY SchedulerAssumption DEF Init, Clocks, Decided, Guarded, InStep
  <1>4. QED
    BY <1>1, <1>2, <1>3 DEF History

LEMMA HistoryStep ==
    ASSUME Fragile \subseteq Instances \X {"unlock"}, History, [Next]_vars
    PROVE  History'
  <1>1. AloneInv'
    BY AloneStep DEF History
  <1>2. Rows'
    BY RowsStep
  <1>3. Clocks'
    BY <1>1, <1>2, ClocksStep DEF AloneInv
  <1>4. Decided'
    BY DecidedStep
  <1>5. QED
    BY <1>1, <1>2, <1>3, <1>4 DEF History

-----------------------------------------------------------------------------
(* The refinement: opening a row is the beginning of a run in the ledger, closing *)
(* one its end, and all the rest is time that passes or nothing.                  *)

LEMMA LedgerBegins ==
    ASSUME History, NEW i \in Instances, Opens(i)
    PROVE  Ledger!Next
  <1>0. runs \in Seq(Row) /\ now' = now
    BY DEF History, AloneInv, Typing, TypeOK, Opens
  <1>1. PICK r \in Row :
            /\ runs' = Append(runs, r) /\ r.status = "running" /\ r.finished = 0
            /\ r.slot <= r.started /\ 1 <= r.started /\ r.started <= now
            /\ Due(r.slot, r.attempt, r.started)
            /\ \A n \in DOMAIN runs : runs[n].status # "running"
    BY OpensRow
  <1>2. Ledger!TriesOf(r.slot) = RowsOf(r.slot)
    BY DEF Ledger!TriesOf, RowsOf
  <1>3. {runs[m].attempt : m \in RowsOf(r.slot)} = 1..(r.attempt - 1)
    <2>1. r.attempt \in Nat \ {0}
      BY <1>1, SchedulerAssumption DEF Due
    <2>2. ASSUME NEW m \in RowsOf(r.slot)
          PROVE  runs[m].attempt \in 1..(r.attempt - 1)
      <3>1. runs[m].attempt < r.attempt
        BY <1>1 DEF Due
      <3>2. runs[m].attempt \in Nat \ {0}
        BY <1>0, RowOfSlot, SchedulerAssumption
      <3>3. QED
        BY <2>1, <3>1, <3>2
    <2>3. \A k \in 1..(r.attempt - 1) : \E m \in RowsOf(r.slot) : runs[m].attempt = k
      BY <1>1 DEF Due
    <2>4. QED
      BY <2>2, <2>3
  <1>4. \A m \in RowsOf(r.slot) :
            /\ runs[m].status = "failed"
            /\ runs[m].finished + Ledger!Delay(runs[m].attempt) <= r.started
    BY <1>1 DEF Due, RetryDelay, Ledger!Delay
  <1>5. r.attempt \in 1..MaxAttempts
    BY <1>1 DEF Due
  <1>6. Ledger!Begin(r)
    BY <1>0, <1>1, <1>2, <1>3, <1>4, <1>5 DEF Ledger!Begin
  <1>7. r \in (Ledger!Rows)'
    <2>1. Len(runs) + 1 \in DOMAIN runs' /\ runs'[Len(runs) + 1] = r
      BY <1>0, <1>1
    <2>2. QED
      BY <2>1 DEF Ledger!Rows
  <1>8. QED
    BY <1>6, <1>7 DEF Ledger!Next

LEMMA LedgerEnds ==
    ASSUME Typing, NEW n \in DOMAIN runs, NEW t \in Nat, t <= now, now' = now,
           runs' \in Seq(Row), DOMAIN runs' = DOMAIN runs, Closed(n, t),
           \A m \in DOMAIN runs : m # n => runs'[m] = runs[m]
    PROVE  Ledger!Next
  <1>0. runs \in Seq(Row) /\ now \in Nat /\ runs[n] \in Row /\ runs'[n] \in Row
    BY DEF Typing, TypeOK
  <1> DEFINE f == [runs EXCEPT ![n].status = runs'[n].status,
                               ![n].finished = runs'[n].finished]
  <1>1. runs' = f
    <2>1. runs'[n] = f[n]
      BY <1>0 DEF Closed, Row
    <2>2. \A m \in DOMAIN runs : runs'[m] = f[m]
      BY <1>0, <2>1
    <2>3. DOMAIN f = DOMAIN runs /\ f = [m \in DOMAIN f |-> f[m]]
      OBVIOUS
    <2>4. runs' = [m \in DOMAIN runs' |-> runs'[m]]
      OBVIOUS
    <2> HIDE DEF f
    <2>5. QED
      BY <2>2, <2>3, <2>4
  <1>2. /\ runs[n].status = "running"
        /\ runs'[n].status \in Ledger!Outcomes /\ runs'[n].finished \in 0..now
    BY <1>0 DEF Closed, Outcomes, Ledger!Outcomes
  <1>3. Ledger!End(n)
    BY <1>1, <1>2 DEF Ledger!End
  <1>4. QED
    BY <1>3 DEF Ledger!Next

LEMMA LedgerStep ==
    ASSUME History, [Next]_vars
    PROVE  [Ledger!Next]_(Ledger!vars)
  <1>0. /\ Typing /\ AloneInv /\ Rows /\ runs \in Seq(Row) /\ now \in Nat
        /\ run \in [Instances -> 0..Len(runs)] /\ Len(runs) \in Nat
    BY DEF History, AloneInv, Typing, TypeOK
  <1>1. CASE runs' = runs /\ (now' = now \/ now' = now + 1)
    BY <1>0, <1>1 DEF Ledger!Next, Ledger!Tick, Ledger!vars
  <1>2. ASSUME NEW i \in Instances, Opens(i)
        PROVE  Ledger!Next
    BY <1>2, LedgerBegins
  <1>3. ASSUME NEW i \in Instances, Abandons(i) \/ Finishes(i)
        PROVE  Ledger!Next \/ UNCHANGED Ledger!vars
    <2>1. now' = now
      BY <1>3 DEF Abandons, Finishes
    <2>2. PICK t \in Nat : t = at[i] /\ t <= now
      BY <1>0 DEF Typing, TypeOK, History, Clocks
    <2>3. /\ runs' \in Seq(Row) /\ DOMAIN runs' = DOMAIN runs
          /\ \A m \in DOMAIN runs :
                runs'[m] = runs[m] \/ Closed(m, t)
      BY <1>0, <1>3, <2>2, AbandonsCloses, FinishesCloses
    <2>4. CASE \A m \in DOMAIN runs : runs'[m] = runs[m]
      BY <1>0, <2>1, <2>3, <2>4 DEF Ledger!vars
    <2>5. CASE \E n \in DOMAIN runs : Closed(n, t)
      <3>1. PICK n \in DOMAIN runs : Closed(n, t)
        BY <2>5
      <3>2. \A m \in DOMAIN runs : runs[m].status = "running" => m = n
        BY <1>0, <3>1 DEF Rows, OpenLast, Closed
      <3>3. \A m \in DOMAIN runs : m # n => runs'[m] = runs[m]
        BY <2>3, <3>2 DEF Closed
      <3>4. QED
        BY <1>0, <2>1, <2>2, <2>3, <3>1, <3>3, LedgerEnds
    <2>6. QED
      BY <2>3, <2>4, <2>5
  <1>4. QED
    BY <1>1, <1>2, <1>3, HistorySteps

\* The table fetch_runs is the history that one careful scheduler would write, for
\* any number of instances, slots and attempts, whichever calls fail and whoever is
\* stopped or crashes: one run at a time, no attempt left out or repeated, none
\* after a recorded success or before its delay is over, and no outcome written twice
\* (scheduler.go, step and decide; store/articles.go, AbandonStaleFetchRuns).
THEOREM LedgerImplemented ==
    ASSUME Fragile \subseteq Instances \X {"unlock"}
    PROVE  Spec => ImplementsLedger
  <1>1. Init => Ledger!Init
    BY SchedulerAssumption DEF Init, Ledger!Init
  <1>2. History /\ [Next]_vars => [Ledger!Next]_(Ledger!vars)
    BY LedgerStep
  <1>3. History /\ [Next]_vars => History'
    BY HistoryStep
  <1>4. QED
    BY <1>1, <1>2, <1>3, HistoryInit, PTL DEF Spec, ImplementsLedger, Ledger!Spec
-----------------------------------------------------------------------------
(* What that means for a scheduled time *)

\* However often instances change in the middle of a run, a scheduled time has at most
\* MaxAttempts runs, so that a fetch that always fails does not go on for ever; each run
\* but the last one is recorded as failed, and the next one began after the delay of the
\* policy.  So a fetch whose success, in part at least, was recorded is not repeated
\* (scheduler.go, decide).
SlotsKept ==
    \A s \in Nat :
        /\ Cardinality(RowsOf(s)) <= MaxAttempts
        /\ \A n, m \in RowsOf(s) : n < m =>
              /\ runs[n].status = "failed"
              /\ runs[n].finished + RetryDelay(runs[n].attempt) <= runs[m].started

\* The runs of a slot are told apart by their attempts, of which there are MaxAttempts.
LEMMA AttemptsBound ==
    ASSUME runs \in Seq(Row), Chained, NEW s
    PROVE  Cardinality(RowsOf(s)) <= MaxAttempts
  <1> DEFINE f == [n \in RowsOf(s) |-> runs[n].attempt]
  <1>1. \A n \in RowsOf(s) : /\ n \in Nat /\ n \in DOMAIN runs /\ runs[n].slot = s
                             /\ runs[n].attempt \in 1..MaxAttempts
    BY RowOfSlot, RowsOfFinite
  <1>2. ASSUME NEW n \in RowsOf(s), NEW m \in RowsOf(s), f[n] = f[m]
        PROVE  n = m
    <2>1. \A i, j \in RowsOf(s) : i < j => runs[i].attempt < runs[j].attempt
      BY <1>1 DEF Chained
    <2>2. n \in Nat /\ m \in Nat /\ runs[n].attempt \in Nat /\ runs[n].attempt = runs[m].attempt
      BY <1>1, <1>2, SchedulerAssumption
    <2>3. ~(n < m) /\ ~(m < n)
      BY <2>1, <2>2
    <2>4. QED
      BY <2>2, <2>3
  <1>3. f \in Injection(RowsOf(s), 1..MaxAttempts)
    BY <1>1, <1>2 DEF Injection, IsInjective
  <1>4. IsFiniteSet(1..MaxAttempts) /\ Cardinality(1..MaxAttempts) = MaxAttempts
    BY SchedulerAssumption, FS_Interval
  <1>5. QED
    <2> HIDE DEF f
    <2>1. QED
      BY <1>3, <1>4, FS_Injection

\* SlotsKept holds under the condition of AloneHolds, for any number of instances.
THEOREM SlotsHold ==
    ASSUME Fragile \subseteq Instances \X {"unlock"}
    PROVE  Spec => []SlotsKept
  <1>1. History => SlotsKept
    <2> SUFFICES ASSUME History, NEW s \in Nat
                 PROVE  /\ Cardinality(RowsOf(s)) <= MaxAttempts
                        /\ \A n, m \in RowsOf(s) : n < m =>
                              /\ runs[n].status = "failed"
                              /\ runs[n].finished + RetryDelay(runs[n].attempt)
                                     <= runs[m].started
      BY DEF SlotsKept
    <2>1. runs \in Seq(Row) /\ Chained
      BY DEF History, Rows, AloneInv, Typing, TypeOK
    <2>2. \A n \in RowsOf(s) : n \in DOMAIN runs /\ runs[n].slot = s
      BY DEF RowsOf
    <2>3. QED
      BY <2>1, <2>2, AttemptsBound DEF Chained
  <1>2. History /\ [Next]_vars => History'
    BY HistoryStep
  <1>3. QED
    BY <1>1, <1>2, HistoryInit, PTL DEF Spec
=============================================================================
