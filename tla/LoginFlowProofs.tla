--------------------------- MODULE LoginFlowProofs ---------------------------
(***************************************************************************)
(* Theorems about the limiter of failed logins, for any accounts,          *)
(* addresses, limits and durations, and any finite number of logins that   *)
(* are handled at the same time.                                           *)
(***************************************************************************)
EXTENDS LoginFlow, FiniteSetTheorems, TLAPS

AccountEntry ==
    [failures : Nat, windowStart : Nat, lockUntil : Nat, level : 0..LevelMax]

IPEntry == [failures : Nat, windowStart : Nat, lockUntil : {0}, level : {0}]

LEMMA NoEntryType == NoEntry \in AccountEntry /\ NoEntry \in IPEntry
  BY LimiterAssumption DEF NoEntry, AccountEntry, IPEntry

LEMMA LockoutType ==
    ASSUME NEW level \in 0..LevelMax
    PROVE  Lockout(level) \in Nat
  BY LimiterAssumption, ShiftAssumption DEF Lockout

\* An entry is well typed after it is looked up, and after it has counted.
LEMMA EntryForType ==
    ASSUME now \in Nat, NEW e
    PROVE  /\ e \in AccountEntry => EntryFor(e) \in AccountEntry
           /\ e \in IPEntry => EntryFor(e) \in IPEntry
  BY NoEntryType DEF EntryFor, NoEntry, AccountEntry, IPEntry

LEMMA AccountFailureType ==
    ASSUME now \in Nat, NEW e \in AccountEntry
    PROVE  AccountFailure(e) \in AccountEntry
  <1>1. e.level \in 0..LevelMax /\ e.failures + 1 \in Nat
    BY DEF AccountEntry
  <1>2. CASE e.failures + 1 < AccountMaxFailures
    BY <1>1, <1>2 DEF AccountFailure, AccountEntry
  <1>3. CASE ~(e.failures + 1 < AccountMaxFailures)
    <2>1. now + Lockout(e.level) \in Nat
      BY <1>1, LockoutType
    <2>2. (IF e.level < LevelMax THEN e.level + 1 ELSE e.level) \in 0..LevelMax
      BY <1>1, LimiterAssumption
    <2>3. QED
      BY <1>1, <1>3, <2>1, <2>2 DEF AccountFailure, AccountEntry
  <1>4. QED
    BY <1>2, <1>3

\* The wait is the longer of the two.
LEMMA WaitIsLonger ==
    ASSUME TypeOK, NEW a \in Accounts \cup {NoAccount}, NEW i \in IPs
    PROVE  /\ AccountWait(a) \in Nat /\ IPWait(i) \in Nat /\ Wait(a, i) \in Nat
           /\ Wait(a, i) >= AccountWait(a) /\ Wait(a, i) >= IPWait(i)
           /\ Wait(a, i) \in {AccountWait(a), IPWait(i)}
  <1>1. AccountWait(a) \in Nat
    BY LimiterAssumption DEF AccountWait, TypeOK
  <1>2. IPWait(i) \in Nat
    BY LimiterAssumption DEF IPWait, TypeOK
  <1>3. ASSUME NEW x \in Nat, NEW y \in Nat
        PROVE  Max({x, y}) \in {x, y} /\ Max({x, y}) >= x /\ Max({x, y}) >= y
    BY DEF Max
  <1>4. QED
    BY <1>1, <1>2, <1>3 DEF Wait

\* What a failure does to the entries of the addresses: its own counts it, in a new
\* window when the last one is over; the others stay, or are swept when they are over.
LEMMA FailureOfIPs ==
    ASSUME TypeOK, NEW a, NEW i \in IPs, Failure(a, i)
    PROVE  /\ ips' \in [IPs -> IPEntry]
           /\ \A j \in IPs \ {i} :
                 \/ ips'[j] = ips[j]
                 \/ ips'[j] = NoEntry /\ Over(ips[j])
           /\ \/ /\ ips[i].failures = 0 \/ Over(ips[i])
                 /\ ips'[i].failures = 1
              \/ /\ ~Over(ips[i])
                 /\ ips'[i].failures = ips[i].failures + 1
                 /\ ips'[i].windowStart = ips[i].windowStart
  <1>1. now \in Nat /\ ips \in [IPs -> IPEntry]
    BY DEF TypeOK, IPEntry
  <1>2. PICK is \in {ips, Sweep(ips)} :
            ips' = [is EXCEPT ![i] = IPFailure(EntryFor(is[i]))]
    BY DEF Failure
  <1>3. \A j \in IPs : \/ is[j] = ips[j]
                       \/ is[j] = NoEntry /\ Over(ips[j])
    BY <1>1, <1>2 DEF Sweep
  <1>4. is \in [IPs -> IPEntry]
    <2>1. CASE is = ips
      BY <1>1, <2>1
    <2>2. CASE is = Sweep(ips)
      BY <1>1, <2>2, NoEntryType DEF Sweep
    <2>3. QED
      BY <1>2, <2>1, <2>2
  <1>5. EntryFor(is[i]) \in IPEntry
    BY <1>1, <1>4, EntryForType
  <1>6. IPFailure(EntryFor(is[i])) \in IPEntry
    BY <1>5 DEF IPFailure, IPEntry
  <1>7. /\ ips' \in [IPs -> IPEntry]
        /\ \A j \in IPs \ {i} : ips'[j] = is[j]
        /\ ips'[i] = IPFailure(EntryFor(is[i]))
    BY <1>2, <1>4, <1>6
  <1>8. CASE is[i].failures = 0 \/ Over(is[i])
    <2>1. EntryFor(is[i]) = [NoEntry EXCEPT !.windowStart = now]
      BY <1>8 DEF EntryFor
    <2>2. ips'[i].failures = 1
      BY <1>7, <2>1 DEF NoEntry, IPFailure
    <2>3. ips[i].failures = 0 \/ Over(ips[i])
      BY <1>3, <1>8
    <2>4. QED
      BY <1>3, <1>7, <2>2, <2>3
  <1>9. CASE ~(is[i].failures = 0 \/ Over(is[i]))
    <2>1. is[i] = ips[i]
      BY <1>3, <1>9 DEF NoEntry
    <2>2. EntryFor(is[i]) = ips[i]
      BY <1>9, <2>1 DEF EntryFor
    <2>3. /\ ips'[i].failures = ips[i].failures + 1
          /\ ips'[i].windowStart = ips[i].windowStart
      BY <1>5, <1>7, <2>2 DEF IPFailure, IPEntry
    <2>4. QED
      BY <1>3, <1>7, <1>9, <2>1, <2>3
  <1>10. QED
    BY <1>8, <1>9

\* What a failure does to the entries of the accounts that it is not for.
LEMMA FailureOfAccounts ==
    ASSUME TypeOK, NEW a, NEW i \in IPs, Failure(a, i)
    PROVE  /\ accounts' \in [Accounts -> AccountEntry]
           /\ \A k \in Accounts \ {a} : accounts'[k] = accounts[k] \/ accounts'[k] = NoEntry
  <1>1. now \in Nat /\ accounts \in [Accounts -> AccountEntry]
    BY DEF TypeOK, AccountEntry
  <1>2. PICK as \in {accounts, Sweep(accounts)} :
            accounts' = [k \in Accounts |->
                            IF k = a THEN AccountFailure(EntryFor(as[k])) ELSE as[k]]
    BY DEF Failure
  <1>3. \A k \in Accounts : as[k] \in AccountEntry /\ as[k] \in {accounts[k], NoEntry}
    BY <1>1, <1>2, NoEntryType DEF Sweep
  <1>4. \A k \in Accounts : AccountFailure(EntryFor(as[k])) \in AccountEntry
    BY <1>1, <1>3, EntryForType, AccountFailureType
  <1>5. QED
    BY <1>2, <1>3, <1>4

-----------------------------------------------------------------------------
(* Types *)

LEMMA TypesInit == Init => TypeOK
  <1> SUFFICES ASSUME Init PROVE TypeOK
    OBVIOUS
  <1>1. accounts \in [Accounts -> AccountEntry] /\ ips \in [IPs -> IPEntry]
    BY NoEntryType DEF Init
  <1>2. QED
    BY <1>1 DEF Init, TypeOK, AccountEntry, IPEntry

LEMMA TypesStep == TypeOK /\ [Next]_vars => TypeOK'
  <1> SUFFICES ASSUME TypeOK, [Next]_vars PROVE TypeOK'
    OBVIOUS
  <1> USE DEF vars, limiter, login
  <1>1. /\ now \in Nat
        /\ accounts \in [Accounts -> AccountEntry] /\ ips \in [IPs -> IPEntry]
        /\ pc \in [Logins -> {"idle", "compare"}]
        /\ account \in [Logins -> Accounts \cup {NoAccount}]
        /\ ip \in [Logins -> IPs] /\ promise \in SUBSET Promise
    BY DEF TypeOK, AccountEntry, IPEntry
  <1>2. ASSUME /\ now' \in Nat
               /\ accounts' \in [Accounts -> AccountEntry] /\ ips' \in [IPs -> IPEntry]
               /\ pc' \in [Logins -> {"idle", "compare"}]
               /\ account' \in [Logins -> Accounts \cup {NoAccount}]
               /\ ip' \in [Logins -> IPs] /\ promise' \in SUBSET Promise
        PROVE  TypeOK'
    BY <1>2 DEF TypeOK, AccountEntry, IPEntry, Promise
  <1>3. ASSUME NEW l \in Logins, Idle(l)
        PROVE  /\ pc' \in [Logins -> {"idle", "compare"}]
               /\ account' \in [Logins -> Accounts \cup {NoAccount}]
               /\ ip' \in [Logins -> IPs]
    BY <1>1, <1>3 DEF Idle
  <1>4. ASSUME NEW l \in Logins, NEW a \in Accounts \cup {NoAccount}, NEW i \in IPs,
               CheckPasses(l, a, i)
        PROVE  TypeOK'
    <2>1. /\ pc' \in [Logins -> {"idle", "compare"}]
          /\ account' \in [Logins -> Accounts \cup {NoAccount}]
          /\ ip' \in [Logins -> IPs]
      BY <1>1, <1>4 DEF CheckPasses
    <2>2. QED
      BY <1>1, <1>2, <1>4, <2>1 DEF CheckPasses
  <1>5. ASSUME NEW l \in Logins, NEW a \in Accounts \cup {NoAccount}, NEW i \in IPs,
               TooMany(l, a, i)
        PROVE  TypeOK'
    <2>1. now + Wait(a, i) \in Nat
      BY <1>1, WaitIsLonger
    <2>2. promise' \in SUBSET Promise
      BY <1>5, <2>1 DEF TooMany, Promise
    <2>3. QED
      BY <1>1, <1>2, <1>5, <2>2 DEF TooMany
  <1>6. ASSUME NEW l \in Logins, Wrong(l) PROVE TypeOK'
    <2>1. accounts' \in [Accounts -> AccountEntry] /\ ips' \in [IPs -> IPEntry]
      BY <1>1, <1>6, FailureOfIPs, FailureOfAccounts DEF Wrong
    <2>2. promise' \in SUBSET Promise
      BY <1>1, <1>6 DEF Wrong, Touched
    <2>3. QED
      BY <1>1, <1>2, <1>3, <1>6, <2>1, <2>2 DEF Wrong
  <1>7. ASSUME NEW l \in Logins, Right(l) PROVE TypeOK'
    <2>1. accounts' \in [Accounts -> AccountEntry]
      BY <1>1, <1>7, NoEntryType DEF Right, Success
    <2>2. QED
      BY <1>1, <1>2, <1>3, <1>7, <2>1 DEF Right, Success
  <1>8. ASSUME NEW l \in Logins, LookupFails(l) PROVE TypeOK'
    BY <1>1, <1>2, <1>3, <1>8 DEF LookupFails
  <1>9. CASE Restart
    <2>1. accounts' \in [Accounts -> AccountEntry] /\ ips' \in [IPs -> IPEntry]
      BY <1>9, NoEntryType DEF Restart
    <2>2. QED
      BY <1>1, <1>2, <1>9, <2>1 DEF Restart
  <1>10. CASE Tick
    BY <1>1, <1>2, <1>10 DEF Tick
  <1>11. CASE UNCHANGED vars
    BY <1>1, <1>2, <1>11
  <1>12. QED
    BY <1>4, <1>5, <1>6, <1>7, <1>8, <1>9, <1>10, <1>11 DEF Next

\* The limiter and the logins keep their types, whatever the limits are; the level of an
\* account stays where a lockout can be computed from it (limiter.go, Failure).
THEOREM TypesHold == Spec => []TypeOK
  BY TypesInit, TypesStep, PTL DEF Spec

-----------------------------------------------------------------------------
(* The failures of an address *)

\* The failures of an address stay for its whole window, whatever logins succeed from
\* there; only a restart forgets them (limiter.go, Success).
THEOREM IPFailuresHold == Spec => IPFailuresStay
  <1>1. ASSUME TypeOK, [Next]_vars, NEW j \in IPs, ips'[j].failures < ips[j].failures
        PROVE  now >= ips[j].windowStart + Window \/ Restart
    <2> USE DEF vars, limiter, login
    <2>1. ips[j].failures \in Nat
      BY <1>1 DEF TypeOK
    <2>2. CASE ips' = ips
      BY <1>1, <2>1, <2>2
    <2>3. ASSUME NEW l \in Logins, Wrong(l)
          PROVE  now >= ips[j].windowStart + Window
      <3>1. ip[l] \in IPs /\ Failure(account[l], ip[l])
        BY <1>1, <2>3 DEF TypeOK, Wrong
      <3>2. CASE j = ip[l]
        BY <1>1, <2>1, <3>1, <3>2, FailureOfIPs DEF Over
      <3>3. CASE j # ip[l]
        BY <1>1, <2>1, <3>1, <3>3, FailureOfIPs DEF Over
      <3>4. QED
        BY <3>2, <3>3
    <2>4. QED
      BY <1>1, <2>2, <2>3
      DEF Next, CheckPasses, TooMany, Right, Success, LookupFails, Tick
  <1>2. TypeOK /\ [Next]_vars =>
            [\A i \in IPs : ips'[i].failures < ips[i].failures =>
                 now >= ips[i].windowStart + Window \/ Restart]_vars
    BY <1>1
  <1>3. QED
    BY <1>2, TypesHold, PTL DEF Spec, IPFailuresStay

\* The logins that have passed the check from an address and can fail yet.
OnWay(i) == {l \in Logins : pc[l] = "compare" /\ ip[l] = i}

\* In a window of an address, the failures counted and those that may be on their way
\* are fewer than the limit and the logins together.
Overshoot(i) ==
    now < ips[i].windowStart + Window =>
        ips[i].failures + Cardinality(OnWay(i)) < IPMaxFailures + Cardinality(Logins)

LEMMA OnWaySize ==
    ASSUME NEW S \in SUBSET Logins
    PROVE  /\ IsFiniteSet(S) /\ Cardinality(S) \in Nat /\ Cardinality(Logins) \in Nat
           /\ Cardinality(S) <= Cardinality(Logins)
           /\ S # Logins => Cardinality(S) < Cardinality(Logins)
  <1>1. IsFiniteSet(S) /\ Cardinality(S) <= Cardinality(Logins)
    BY LimiterAssumption, FS_Subset
  <1>2. Cardinality(S) \in Nat /\ Cardinality(Logins) \in Nat
    BY <1>1, LimiterAssumption, FS_CardinalityType
  <1>3. Cardinality(Logins) = Cardinality(S) => Logins = S
    BY LimiterAssumption, FS_Subset
  <1>4. QED
    BY <1>1, <1>2, <1>3

\* A login that is over is not on its way.
LEMMA IdleOnWay ==
    ASSUME TypeOK, NEW l \in Logins, Idle(l), NEW i \in IPs
    PROVE  OnWay(i)' = OnWay(i) \ {l}
  BY DEF TypeOK, Idle, OnWay

LEMMA OvershootStep ==
    ASSUME TypeOK, [Next]_vars, NEW j \in IPs, Overshoot(j)
    PROVE  Overshoot(j)'
  <1> USE DEF vars, limiter, login
  <1>1. /\ ips[j].failures \in Nat /\ ips[j].windowStart \in Nat
        /\ now \in Nat /\ Window \in Nat
        /\ IPMaxFailures \in Nat \ {0}
    BY LimiterAssumption DEF TypeOK
  <1>2. /\ OnWay(j) \in SUBSET Logins
        /\ Cardinality(OnWay(j)) \in Nat /\ Cardinality(Logins) \in Nat
    BY OnWaySize DEF OnWay
  <1>3. OnWay(j)' \in SUBSET Logins
    BY DEF OnWay
  <1>4. /\ Cardinality(OnWay(j)') \in Nat
        /\ Cardinality(OnWay(j)') <= Cardinality(Logins)
    BY <1>3, OnWaySize
  <1>5. Cardinality(OnWay(j))' = Cardinality(OnWay(j)')
    OBVIOUS
  <1>6. ASSUME ips' = ips, now' = now, OnWay(j)' \subseteq OnWay(j)
        PROVE  Overshoot(j)'
    <2>1. Cardinality(OnWay(j)') <= Cardinality(OnWay(j))
      BY <1>2, <1>6, OnWaySize, FS_Subset
    <2>2. QED
      BY <1>1, <1>2, <1>4, <1>6, <2>1 DEF Overshoot
  <1>7. ASSUME ips'[j].failures \in Nat, ips'[j].failures < IPMaxFailures
        PROVE  Overshoot(j)'
    BY <1>1, <1>2, <1>4, <1>7 DEF Overshoot
  <1>8. ASSUME NEW l \in Logins, NEW a \in Accounts \cup {NoAccount}, NEW i \in IPs,
               CheckPasses(l, a, i)
        PROVE  Overshoot(j)'
    <2>1. ips' = ips /\ now' = now
      BY <1>8 DEF CheckPasses
    <2>2. CASE i = j
      <3>1. IPWait(j) = 0
        BY <1>8, <2>2, WaitIsLonger DEF CheckPasses
      <3>2. ips[j].failures < IPMaxFailures \/ ~(now < ips[j].windowStart + Window)
        BY <1>1, <3>1 DEF IPWait
      <3>3. CASE ips[j].failures < IPMaxFailures
        BY <1>1, <1>7, <2>1, <3>3
      <3>4. CASE ~(now < ips[j].windowStart + Window)
        BY <2>1, <3>4 DEF Overshoot
      <3>5. QED
        BY <3>2, <3>3, <3>4
    <2>3. CASE i # j
      <3>1. OnWay(j)' \subseteq OnWay(j)
        BY <1>8, <2>3 DEF TypeOK, CheckPasses, OnWay
      <3>2. QED
        BY <1>6, <2>1, <3>1
    <2>4. QED
      BY <2>2, <2>3
  <1>9. ASSUME NEW l \in Logins, Wrong(l) PROVE Overshoot(j)'
    <2>1. /\ ip[l] \in IPs /\ Failure(account[l], ip[l]) /\ Idle(l)
          /\ pc[l] = "compare" /\ now' = now
      BY <1>9 DEF TypeOK, Wrong
    <2>2. OnWay(j)' = OnWay(j) \ {l}
      BY <2>1, IdleOnWay
    <2>3. CASE j = ip[l]
      <3>1. OnWay(j)' # Logins
        BY <2>2
      <3>2. Cardinality(OnWay(j)') < Cardinality(Logins)
        BY <1>3, <3>1, OnWaySize
      <3>3. CASE ips'[j].failures = 1
        BY <1>1, <1>2, <1>4, <3>2, <3>3 DEF Overshoot
      <3>4. CASE /\ ~Over(ips[j])
                 /\ ips'[j].failures = ips[j].failures + 1
                 /\ ips'[j].windowStart = ips[j].windowStart
        <4>1. l \in OnWay(j)
          BY <2>1, <2>3 DEF OnWay
        <4>2. Cardinality(OnWay(j)') = Cardinality(OnWay(j)) - 1
          BY <1>2, <2>2, <4>1, OnWaySize, FS_RemoveElement
        <4>3. QED
          BY <1>1, <1>2, <1>4, <2>1, <3>4, <4>2 DEF Overshoot
      <3>5. QED
        BY <2>1, <2>3, <3>3, <3>4, FailureOfIPs
    <2>4. CASE j # ip[l]
      <3>1. ips'[j] = ips[j] \/ ips'[j] = NoEntry
        BY <2>1, <2>4, FailureOfIPs
      <3>2. CASE ips'[j] = NoEntry
        BY <1>1, <1>7, <3>2 DEF NoEntry
      <3>3. CASE ips'[j] = ips[j]
        <4>1. Cardinality(OnWay(j)') <= Cardinality(OnWay(j))
          BY <1>2, <2>2, OnWaySize, FS_Subset
        <4>2. QED
          BY <1>1, <1>2, <1>4, <2>1, <3>3, <4>1 DEF Overshoot
      <3>4. QED
        BY <3>1, <3>2, <3>3
    <2>5. QED
      BY <2>3, <2>4
  <1>10. ASSUME NEW l \in Logins, Right(l) \/ LookupFails(l) PROVE Overshoot(j)'
    <2>1. Idle(l) /\ ips' = ips /\ now' = now
      BY <1>10 DEF Right, Success, LookupFails
    <2>2. OnWay(j)' \subseteq OnWay(j)
      BY <2>1, IdleOnWay
    <2>3. QED
      BY <1>6, <2>1, <2>2
  <1>11. CASE Restart
    <2>1. ips'[j].failures = 0
      BY <1>11 DEF Restart, NoEntry
    <2>2. QED
      BY <1>1, <1>7, <2>1
  <1>12. CASE Tick
    <2>1. ips' = ips /\ OnWay(j)' = OnWay(j) /\ now' = now + 1
      BY <1>12 DEF Tick, OnWay
    <2>2. QED
      BY <1>1, <2>1 DEF Overshoot
  <1>13. ASSUME UNCHANGED <<now, ips, login>> PROVE Overshoot(j)'
    BY <1>13 DEF Overshoot, OnWay
  <1>14. QED
    BY <1>8, <1>9, <1>10, <1>11, <1>12, <1>13 DEF Next, TooMany

\* However many logins from one address pass the check together, one window counts fewer
\* failures than the limit and the logins that the server handles at the same time
\* (service.go, Login; limiter.go, CheckIP and Failure).
THEOREM OvershootHolds == Spec => []IPOvershootBounded
  <1> DEFINE Inv == \A i \in IPs : Overshoot(i)
  <1>1. ASSUME Init PROVE Inv
    <2>1. ASSUME NEW i \in IPs PROVE Overshoot(i)
      <3>1. ips[i].failures = 0 /\ OnWay(i) \in SUBSET Logins /\ OnWay(i) = {}
        BY <1>1 DEF Init, NoEntry, OnWay
      <3>2. Cardinality(OnWay(i)) = 0 /\ Cardinality(Logins) \in Nat
        BY <3>1, OnWaySize, FS_EmptySet
      <3>3. QED
        BY <3>1, <3>2, LimiterAssumption DEF Overshoot
    <2>2. QED
      BY <2>1
  <1>2. TypeOK /\ Inv /\ [Next]_vars => Inv'
    BY OvershootStep
  <1>3. ASSUME TypeOK, Inv PROVE IPOvershootBounded
    <2>1. ASSUME NEW i \in IPs, now < ips[i].windowStart + Window
          PROVE  ips[i].failures < IPMaxFailures + Cardinality(Logins)
      <3>1. ips[i].failures \in Nat /\ IPMaxFailures \in Nat
        BY <1>3, LimiterAssumption DEF TypeOK
      <3>2. Cardinality(OnWay(i)) \in Nat /\ Cardinality(Logins) \in Nat
        BY OnWaySize DEF OnWay
      <3>3. ips[i].failures + Cardinality(OnWay(i)) < IPMaxFailures + Cardinality(Logins)
        BY <1>3, <2>1 DEF Overshoot
      <3>4. QED
        BY <3>1, <3>2, <3>3
    <2>2. QED
      BY <2>1 DEF IPOvershootBounded
  <1> HIDE DEF Inv
  <1>4. QED
    BY <1>1, <1>2, <1>3, TypesHold, PTL DEF Spec

-----------------------------------------------------------------------------
(* RetryAfter *)

\* Every lock that the login of a promise would meet is over by then.
Kept(p) ==
    /\ p.account # NoAccount => accounts[p.account].lockUntil <= p.from
    /\ ips[p.ip].failures >= IPMaxFailures => ips[p.ip].windowStart + Window <= p.from

\* An entry that is gone locks nobody.
LEMMA KeptWhenSwept ==
    ASSUME TypeOK, NEW p \in Promise, Kept(p),
           p.account # NoAccount =>
               accounts'[p.account] \in {accounts[p.account], NoEntry},
           ips'[p.ip] \in {ips[p.ip], NoEntry}
    PROVE  Kept(p)'
  <1>1. p.from \in Nat
    BY DEF Promise
  <1>2. CASE ips'[p.ip] = NoEntry
    BY <1>1, <1>2, LimiterAssumption DEF Kept, NoEntry
  <1>3. CASE ips'[p.ip] = ips[p.ip]
    BY <1>1, <1>3 DEF Kept, NoEntry
  <1>4. QED
    BY <1>2, <1>3

LEMMA KeptStep ==
    ASSUME TypeOK, TypeOK', [Next]_vars, \A p \in promise : Kept(p),
           NEW q \in promise'
    PROVE  Kept(q)'
  <1> USE DEF vars, limiter, login
  <1>1. q \in Promise /\ \A p \in promise : p \in Promise
    BY DEF TypeOK
  <1>2. q.account \in Accounts \cup {NoAccount} /\ q.ip \in IPs
    BY <1>1 DEF Promise
  <1>3. ASSUME UNCHANGED <<limiter, promise>> PROVE Kept(q)'
    BY <1>3 DEF Kept
  <1>4. ASSUME NEW l \in Logins, NEW a \in Accounts \cup {NoAccount}, NEW i \in IPs,
               TooMany(l, a, i)
        PROVE  Kept(q)'
    <2>1. /\ q = [account |-> a, ip |-> i, from |-> now + Wait(a, i)]
          /\ UNCHANGED limiter
      BY <1>4 DEF TooMany
    <2>2. /\ AccountWait(a) \in Nat /\ IPWait(i) \in Nat /\ Wait(a, i) \in Nat
          /\ Wait(a, i) >= AccountWait(a) /\ Wait(a, i) >= IPWait(i)
      BY WaitIsLonger
    <2>3. now \in Nat
      BY DEF TypeOK
    <2>4. a # NoAccount => accounts[a].lockUntil <= now + Wait(a, i)
      <3>1. a # NoAccount => accounts[a].lockUntil \in Nat
        BY DEF TypeOK
      <3>2. QED
        BY <2>2, <2>3, <3>1 DEF AccountWait
    <2>5. ips[i].failures >= IPMaxFailures => ips[i].windowStart + Window <= now + Wait(a, i)
      <3>1. ips[i].windowStart \in Nat /\ Window \in Nat
        BY LimiterAssumption DEF TypeOK
      <3>2. QED
        BY <2>2, <2>3, <3>1 DEF IPWait
    <2>6. QED
      BY <2>1, <2>4, <2>5 DEF Kept
  <1>5. ASSUME NEW l \in Logins, Wrong(l) PROVE Kept(q)'
    <2>1. ip[l] \in IPs /\ Failure(account[l], ip[l])
      BY <1>5 DEF TypeOK, Wrong
    <2>2. /\ q \in promise /\ q.ip # ip[l]
          /\ account[l] = NoAccount \/ q.account # account[l]
      BY <1>5 DEF Wrong, Touched
    <2>3. ips'[q.ip] \in {ips[q.ip], NoEntry}
      BY <1>2, <2>1, <2>2, FailureOfIPs
    <2>4. q.account # NoAccount => accounts'[q.account] \in {accounts[q.account], NoEntry}
      BY <1>2, <2>1, <2>2, FailureOfAccounts
    <2>5. QED
      BY <1>1, <2>2, <2>3, <2>4, KeptWhenSwept
  <1>6. ASSUME NEW l \in Logins, Right(l) PROVE Kept(q)'
    <2>1. q \in promise /\ ips' = ips
      BY <1>6 DEF Right, Success
    <2>2. q.account # NoAccount => accounts'[q.account] \in {accounts[q.account], NoEntry}
      BY <1>2, <1>6 DEF Right, Success
    <2>3. QED
      BY <1>1, <2>1, <2>2, KeptWhenSwept
  <1>7. CASE Restart
    <2>1. q \in promise
      BY <1>7 DEF Restart
    <2>2. ips'[q.ip] = NoEntry /\ (q.account # NoAccount => accounts'[q.account] = NoEntry)
      BY <1>2, <1>7 DEF Restart
    <2>3. QED
      BY <1>1, <2>1, <2>2, KeptWhenSwept
  <1>8. QED
    BY <1>3, <1>4, <1>5, <1>6, <1>7 DEF Next, CheckPasses, LookupFails, Tick

\* Who comes back when RetryAfter is over is let in, unless the account or the address
\* has failed again since: whatever other logins did in between (limiter.go, Check).
THEOREM RetryAfterHolds == Spec => []RetryAfterKept
  <1> DEFINE Inv == \A p \in promise : Kept(p)
  <1>1. Init => Inv
    BY DEF Init
  <1>2. TypeOK /\ TypeOK' /\ Inv /\ [Next]_vars => Inv'
    BY KeptStep
  <1>3. ASSUME TypeOK, Inv PROVE RetryAfterKept
    <2>1. ASSUME NEW p \in promise, now >= p.from
          PROVE  Wait(p.account, p.ip) = 0
      <3>1. /\ p.account \in Accounts \cup {NoAccount} /\ p.ip \in IPs
            /\ p.from \in Nat /\ now \in Nat
        BY <1>3 DEF TypeOK, Promise
      <3>2. Kept(p)
        BY <1>3
      <3>3. AccountWait(p.account) = 0
        <4>1. p.account # NoAccount => accounts[p.account].lockUntil \in Nat
          BY <1>3, <3>1 DEF TypeOK
        <4>2. QED
          BY <2>1, <3>1, <3>2, <4>1 DEF Kept, AccountWait
      <3>4. IPWait(p.ip) = 0
        <4>1. ips[p.ip].windowStart \in Nat /\ Window \in Nat
          BY <1>3, <3>1, LimiterAssumption DEF TypeOK
        <4>2. QED
          BY <2>1, <3>1, <3>2, <4>1 DEF Kept, IPWait
      <3>5. QED
        BY <1>3, <3>1, <3>3, <3>4, WaitIsLonger
    <2>2. QED
      BY <2>1 DEF RetryAfterKept
  <1> HIDE DEF Inv
  <1>4. QED
    BY <1>1, <1>2, <1>3, TypesHold, PTL DEF Spec

-----------------------------------------------------------------------------
(* The locks of an account *)

\* A higher level never gives a shorter lockout, whether LockoutMax cuts it off or not.
LEMMA LockoutGrows ==
    ASSUME NEW low \in 0..LevelMax, NEW high \in 0..LevelMax, low <= high
    PROVE  Lockout(low) <= Lockout(high)
  <1>1. LockoutBase * 2 ^ low \in Nat /\ LockoutBase * 2 ^ high \in Nat
    BY ShiftAssumption
  <1>2. LockoutBase * 2 ^ low <= LockoutBase * 2 ^ high
    BY ShiftAssumption
  <1>3. ASSUME NEW x \in Nat, NEW y \in Nat, x <= y
        PROVE  (IF x > LockoutMax THEN LockoutMax ELSE x)
                   <= (IF y > LockoutMax THEN LockoutMax ELSE y)
    BY <1>3, LimiterAssumption
  <1>4. QED
    BY <1>1, <1>2, <1>3 DEF Lockout

\* An entry that is or was locked has reached the limit of failures, and a failure of
\* this moment would not lock it for less than what is left.
LockStands(e, t) ==
    e.lockUntil > 0 =>
        /\ e.failures >= AccountMaxFailures
        /\ e.lockUntil <= t + Lockout(e.level)

LocksStand == \A a \in Accounts : LockStands(accounts[a], now)

\* The entry that a failure counts in stands, too, and is the one that was there while
\* that one is locked.
LEMMA LookedUp ==
    ASSUME now \in Nat, NEW e \in AccountEntry, LockStands(e, now)
    PROVE  /\ EntryFor(e) \in AccountEntry
           /\ LockStands(EntryFor(e), now)
           /\ now < e.lockUntil => EntryFor(e) = e
  <1>1. EntryFor(e) \in AccountEntry
    BY EntryForType
  <1>2. now < e.lockUntil => EntryFor(e) = e
    BY LimiterAssumption DEF EntryFor, Over, LockStands, AccountEntry
  <1>3. LockStands(EntryFor(e), now)
    BY DEF EntryFor, LockStands, NoEntry
  <1>4. QED
    BY <1>1, <1>2, <1>3

\* A failure that is counted leaves an entry that stands, and its lock is not shorter.
LEMMA FailureStands ==
    ASSUME now \in Nat, NEW e \in AccountEntry, LockStands(e, now)
    PROVE  /\ LockStands(AccountFailure(e), now)
           /\ AccountFailure(e).lockUntil >= e.lockUntil
  <1>1. /\ e.failures \in Nat /\ e.lockUntil \in Nat /\ e.level \in 0..LevelMax
        /\ LevelMax \in Nat /\ AccountMaxFailures \in Nat
    BY LimiterAssumption DEF AccountEntry
  <1>2. CASE e.failures + 1 < AccountMaxFailures
    <2>1. e.lockUntil = 0
      BY <1>1, <1>2 DEF LockStands
    <2>2. AccountFailure(e).lockUntil = 0
      BY <1>2, <2>1 DEF AccountFailure, AccountEntry
    <2>3. QED
      BY <2>1, <2>2 DEF LockStands
  <1>3. CASE ~(e.failures + 1 < AccountMaxFailures)
    <2> DEFINE next == IF e.level < LevelMax THEN e.level + 1 ELSE e.level
    <2>1. next \in 0..LevelMax /\ e.level <= next
      BY <1>1
    <2>2. /\ Lockout(e.level) \in Nat /\ Lockout(next) \in Nat
          /\ Lockout(e.level) <= Lockout(next)
      BY <1>1, <2>1, LockoutType, LockoutGrows
    <2>3. /\ AccountFailure(e).failures = e.failures + 1
          /\ AccountFailure(e).lockUntil = now + Lockout(e.level)
          /\ AccountFailure(e).level = next
      BY <1>3 DEF AccountFailure
    <2> HIDE DEF next
    <2>4. LockStands(AccountFailure(e), now)
      BY <1>1, <1>3, <2>2, <2>3 DEF LockStands
    <2>5. AccountFailure(e).lockUntil >= e.lockUntil
      BY <1>1, <2>2, <2>3 DEF LockStands
    <2>6. QED
      BY <2>4, <2>5
  <1>4. QED
    BY <1>2, <1>3

\* What a failure does to the entry of an account.
LEMMA FailureOfAccount ==
    ASSUME TypeOK, LocksStand, NEW a, NEW i \in IPs, Failure(a, i), NEW k \in Accounts
    PROVE  /\ LockStands(accounts'[k], now)
           /\ \/ now >= accounts[k].lockUntil
              \/ accounts'[k].failures = 0
              \/ accounts'[k].lockUntil >= accounts[k].lockUntil
  <1>1. now \in Nat /\ accounts \in [Accounts -> AccountEntry]
    BY DEF TypeOK, AccountEntry
  <1>2. PICK as \in {accounts, Sweep(accounts)} :
            accounts' = [m \in Accounts |->
                            IF m = a THEN AccountFailure(EntryFor(as[m])) ELSE as[m]]
    BY DEF Failure
  <1>3. /\ as[k] \in AccountEntry
        /\ \/ as[k] = accounts[k]
           \/ as[k] = NoEntry /\ now >= accounts[k].lockUntil
    BY <1>1, <1>2, NoEntryType DEF Sweep, Over
  <1>4. LockStands(as[k], now)
    <2>1. LockStands(accounts[k], now) /\ LockStands(NoEntry, now)
      BY DEF LocksStand, LockStands, NoEntry
    <2>2. QED
      BY <1>3, <2>1
  <1> DEFINE until == accounts[k].lockUntil
  <1>5. until \in Nat
    BY <1>1 DEF AccountEntry
  <1> HIDE DEF until
  <1>6. CASE k = a
    <2>1. accounts'[k] = AccountFailure(EntryFor(as[k]))
      BY <1>2, <1>6
    <2>2. /\ EntryFor(as[k]) \in AccountEntry
          /\ LockStands(EntryFor(as[k]), now)
          /\ now < as[k].lockUntil => EntryFor(as[k]) = as[k]
      BY <1>1, <1>3, <1>4, LookedUp
    <2>3. /\ LockStands(accounts'[k], now)
          /\ accounts'[k].lockUntil >= EntryFor(as[k]).lockUntil
      BY <1>1, <2>1, <2>2, FailureStands
    <2>4. CASE now < accounts[k].lockUntil
      <3>1. ~(now >= accounts[k].lockUntil)
        BY <1>1, <1>5, <2>4 DEF until
      <3>2. as[k] = accounts[k]
        BY <1>3, <3>1
      <3>3. QED
        BY <2>2, <2>3, <2>4, <3>2
    <2>5. CASE ~(now < accounts[k].lockUntil)
      BY <1>1, <1>5, <2>3, <2>5 DEF until
    <2>6. QED
      BY <2>4, <2>5
  <1>7. CASE k # a
    <2>1. accounts'[k] = as[k]
      BY <1>2, <1>7
    <2>2. as[k] = accounts[k] => accounts'[k].lockUntil >= accounts[k].lockUntil
      BY <1>5, <2>1 DEF until
    <2>3. QED
      BY <1>3, <1>4, <2>1, <2>2
  <1>8. QED
    BY <1>6, <1>7

LEMMA LocksInit == Init => LocksStand
  BY DEF Init, LocksStand, LockStands, NoEntry

\* What one step does to the entry of an account.
LEMMA AccountStep ==
    ASSUME TypeOK, LocksStand, [Next]_vars, NEW k \in Accounts
    PROVE  /\ LockStands(accounts'[k], now')
           /\ \/ now >= accounts[k].lockUntil
              \/ accounts'[k].failures = 0
              \/ accounts'[k].lockUntil >= accounts[k].lockUntil
  <1> USE DEF vars, limiter, login
  <1>1. /\ now \in Nat /\ accounts[k] \in AccountEntry
        /\ accounts[k].lockUntil \in Nat /\ accounts[k].level \in 0..LevelMax
    BY DEF TypeOK, AccountEntry
  <1>2. LockStands(accounts[k], now)
    BY DEF LocksStand
  <1>3. ASSUME accounts'[k] = accounts[k], now' = now
        PROVE  /\ LockStands(accounts'[k], now')
               /\ accounts'[k].lockUntil >= accounts[k].lockUntil
    BY <1>1, <1>2, <1>3
  <1>4. ASSUME accounts'[k] = NoEntry
        PROVE  LockStands(accounts'[k], now') /\ accounts'[k].failures = 0
    BY <1>4 DEF LockStands, NoEntry
  <1>5. ASSUME NEW l \in Logins, NEW a, NEW i,
               CheckPasses(l, a, i) \/ TooMany(l, a, i)
        PROVE  accounts'[k] = accounts[k] /\ now' = now
    BY <1>5 DEF CheckPasses, TooMany
  <1>6. ASSUME NEW l \in Logins, Wrong(l)
        PROVE  /\ LockStands(accounts'[k], now')
               /\ \/ now >= accounts[k].lockUntil
                  \/ accounts'[k].failures = 0
                  \/ accounts'[k].lockUntil >= accounts[k].lockUntil
    <2>1. ip[l] \in IPs /\ Failure(account[l], ip[l]) /\ now' = now
      BY <1>6 DEF TypeOK, Wrong
    <2>2. QED
      BY <2>1, FailureOfAccount
  <1>7. ASSUME NEW l \in Logins, Right(l)
        PROVE  accounts'[k] \in {NoEntry, accounts[k]} /\ now' = now
    BY <1>7 DEF Right, Success
  <1>8. ASSUME NEW l \in Logins, LookupFails(l)
        PROVE  accounts'[k] = accounts[k] /\ now' = now
    BY <1>8 DEF LookupFails
  <1>9. CASE Restart
    BY <1>4, <1>9 DEF Restart
  <1>10. CASE Tick
    <2>1. accounts'[k] = accounts[k] /\ now' = now + 1
      BY <1>10 DEF Tick
    <2>2. Lockout(accounts[k].level) \in Nat
      BY <1>1, LockoutType
    <2>3. LockStands(accounts[k], now + 1)
      BY <1>1, <1>2, <2>2 DEF LockStands
    <2>4. QED
      BY <1>1, <2>1, <2>3
  <1>11. CASE UNCHANGED vars
    BY <1>3, <1>11
  <1>12. QED
    BY <1>3, <1>4, <1>5, <1>6, <1>7, <1>8, <1>9, <1>10, <1>11 DEF Next

\* While an account is locked, a failure that was on its way when the lock began never
\* makes the lock end earlier (limiter.go, Failure).
THEOREM LocksHold == Spec => LockNeverShortened
  <1>1. Init => LocksStand
    BY LocksInit
  <1>2. ASSUME TypeOK, LocksStand, [Next]_vars PROVE LocksStand'
    <2>1. \A k \in Accounts : LockStands(accounts'[k], now')
      BY <1>2, AccountStep
    <2>2. QED
      BY <2>1 DEF LocksStand, LockStands
  <1>3. ASSUME TypeOK, LocksStand, [Next]_vars, NEW k \in Accounts,
               now < accounts[k].lockUntil, accounts'[k].failures > 0
        PROVE  accounts'[k].lockUntil >= accounts[k].lockUntil
    <2>1. now \in Nat /\ accounts[k].lockUntil \in Nat
      BY <1>3 DEF TypeOK
    <2>2. QED
      BY <1>3, <2>1, AccountStep
  <1>4. TypeOK /\ LocksStand /\ [Next]_vars =>
            [\A a \in Accounts :
                now < accounts[a].lockUntil /\ accounts'[a].failures > 0 =>
                    accounts'[a].lockUntil >= accounts[a].lockUntil]_vars
    BY <1>3
  <1>5. QED
    BY <1>1, <1>2, <1>4, TypesHold, PTL DEF Spec, LockNeverShortened
=============================================================================
