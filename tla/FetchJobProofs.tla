---------------------------- MODULE FetchJobProofs ---------------------------
(***************************************************************************)
(* Theorems about one run of the article fetch, for any numbers of         *)
(* workers, days, topics, pages, retries and calls.                        *)
(***************************************************************************)
EXTENDS FetchJob, TLAPS

\* What a worker waits for.
Steps == {"unit", "page", "take", "swap", "answer", "backoff", "save"}

\* What the workers hold: a unit of their own provider, unless they wait for one.
WorkTyping ==
    /\ pc \in [Workers -> Steps]
    /\ unit \in [Workers -> Nat]
    /\ page \in [Workers -> 1..MaxPage]
    /\ retries \in [Workers -> 0..MaxRetries]
    /\ full \in [Workers -> BOOLEAN]
    /\ \A w \in Workers : pc[w] = "unit" <=> unit[w] = 0
    /\ \A w \in QiitaWorkers : unit[w] \in 0..Days
    /\ \A w \in ZennWorkers : unit[w] \in 0..Topics

\* What they share, and the result.
SharedTyping ==
    /\ main \in {"tags", "fetch", "retain", "message", "status", "done"}
    /\ ended \in BOOLEAN /\ dbFailed \in BOOLEAN
    /\ nextDay \in 1..(Days + 1)
    /\ nextTopic \in 1..(Topics + 1)
    /\ stopped \in BOOLEAN /\ down \in BOOLEAN
    /\ consecutive \in Nat /\ calls \in Nat
    /\ cur \in [Workers -> Nat]
    /\ got \in BOOLEAN /\ failed \in BOOLEAN
    /\ truncated \in BOOLEAN /\ said \in BOOLEAN
    /\ complete \subseteq Units
    /\ late \in [QiitaWorkers -> Nat]
    /\ result \in {"none", "succeeded", "partial", "failed"}

Typing == WorkTyping /\ SharedTyping

LEMMA TypingInit == Init => Typing
  <1> SUFFICES ASSUME Init PROVE Typing
    OBVIOUS
  <1> USE JobAssumption DEF Init, Steps
  <1>1. /\ pc \in [Workers -> Steps]
        /\ unit \in [Workers -> Nat]
        /\ page \in [Workers -> 1..MaxPage]
        /\ retries \in [Workers -> 0..MaxRetries]
        /\ full \in [Workers -> BOOLEAN]
    OBVIOUS
  <1>2. \A w \in Workers : pc[w] = "unit" /\ unit[w] = 0
    OBVIOUS
  <1>3. WorkTyping
    BY <1>1, <1>2 DEF WorkTyping, Workers
  <1>4. late \in [QiitaWorkers -> Nat]
    OBVIOUS
  <1>5. nextDay \in 1..(Days + 1) /\ nextTopic \in 1..(Topics + 1)
    OBVIOUS
  <1>6. /\ consecutive \in Nat /\ calls \in Nat /\ complete \subseteq Units
        /\ cur \in [Workers -> Nat]
    OBVIOUS
  <1>7. /\ main \in {"tags", "fetch", "retain", "message", "status", "done"}
        /\ result \in {"none", "succeeded", "partial", "failed"}
    OBVIOUS
  <1>8. SharedTyping
    BY <1>4, <1>5, <1>6, <1>7 DEF SharedTyping
  <1>9. QED
    BY <1>3, <1>8 DEF Typing

\* The unit of a worker that has one can be counted as complete.
LEMMA NameType ==
    ASSUME WorkTyping, NEW w \in Workers, pc[w] # "unit"
    PROVE  Name(w) \in Units
  <1>1. unit[w] # 0 /\ unit[w] \in Nat
    BY DEF WorkTyping
  <1>2. CASE w \in QiitaWorkers
    <2>1. unit[w] \in 1..Days
      BY <1>1, <1>2, JobAssumption DEF WorkTyping
    <2>2. QED
      BY <1>2, <2>1 DEF Name, Units
  <1>3. CASE w \notin QiitaWorkers
    <2>1. unit[w] \in 1..Topics
      BY <1>1, <1>3, JobAssumption DEF WorkTyping, Workers
    <2>2. QED
      BY <1>3, <2>1 DEF Name, Units
  <1>4. QED
    BY <1>2, <1>3

\* A worker that ends its unit leaves the workers well typed.
LEMMA EndUnitType ==
    ASSUME WorkTyping, NEW w \in Workers, EndUnit(w)
    PROVE  WorkTyping'
  <1>1. /\ pc \in [Workers -> Steps]
        /\ unit \in [Workers -> Nat]
        /\ page \in [Workers -> 1..MaxPage]
        /\ retries \in [Workers -> 0..MaxRetries]
        /\ full \in [Workers -> BOOLEAN]
    BY DEF WorkTyping
  <1>2. /\ pc' = [pc EXCEPT ![w] = "unit"] /\ unit' = [unit EXCEPT ![w] = 0]
        /\ page' = [page EXCEPT ![w] = 1] /\ retries' = [retries EXCEPT ![w] = 0]
        /\ full' = [full EXCEPT ![w] = FALSE]
    BY DEF EndUnit, Go
  <1>3. pc' \in [Workers -> Steps]
    BY <1>1, <1>2 DEF Steps
  <1>4. unit' \in [Workers -> Nat]
    BY <1>1, <1>2
  <1>5. page' \in [Workers -> 1..MaxPage] /\ retries' \in [Workers -> 0..MaxRetries]
    BY <1>1, <1>2, JobAssumption
  <1>6. full' \in [Workers -> BOOLEAN]
    BY <1>1, <1>2
  <1>7. \A v \in Workers : pc'[v] = "unit" <=> unit'[v] = 0
    BY <1>1, <1>2 DEF WorkTyping
  <1>8. /\ \A v \in QiitaWorkers : unit'[v] \in 0..Days
        /\ \A v \in ZennWorkers : unit'[v] \in 0..Topics
    BY <1>1, <1>2, JobAssumption DEF WorkTyping, Workers
  <1>9. QED
    BY <1>3, <1>4, <1>5, <1>6, <1>7, <1>8 DEF WorkTyping

\* So does one that goes on with the unit it has.
LEMMA GoOnType ==
    ASSUME WorkTyping, NEW w \in Workers, pc[w] # "unit",
           NEW to \in {"page", "take", "swap", "answer", "backoff", "save"}, Go(w, to),
           unit' = unit,
           page' \in [Workers -> 1..MaxPage],
           retries' \in [Workers -> 0..MaxRetries],
           full' \in [Workers -> BOOLEAN]
    PROVE  WorkTyping'
  <1>1. pc \in [Workers -> Steps]
    BY DEF WorkTyping
  <1>2. pc' = [pc EXCEPT ![w] = to]
    BY DEF Go
  <1>3. pc' \in [Workers -> Steps]
    BY <1>1, <1>2 DEF Steps
  <1>4. \A v \in Workers : pc'[v] = "unit" <=> unit'[v] = 0
    BY <1>1, <1>2 DEF WorkTyping
  <1>5. QED
    BY <1>3, <1>4 DEF WorkTyping

\* And one that takes a unit.
LEMMA ReceiveType ==
    ASSUME WorkTyping, NEW w \in Workers, NEW u \in Nat \ {0},
           w \in QiitaWorkers => u \in 1..Days,
           w \in ZennWorkers => u \in 1..Topics,
           NEW to \in {"page", "take"}, Go(w, to),
           unit' = [unit EXCEPT ![w] = u],
           page' = page, retries' = retries, full' = full
    PROVE  WorkTyping'
  <1>1. /\ pc \in [Workers -> Steps]
        /\ unit \in [Workers -> Nat]
    BY DEF WorkTyping
  <1>2. pc' = [pc EXCEPT ![w] = to]
    BY DEF Go
  <1>3. /\ pc' \in [Workers -> Steps]
        /\ unit' \in [Workers -> Nat]
    BY <1>1, <1>2 DEF Steps
  <1>4. \A v \in Workers : pc'[v] = "unit" <=> unit'[v] = 0
    BY <1>1, <1>2 DEF WorkTyping
  <1>5. \A v \in Workers : unit'[v] = IF v = w THEN u ELSE unit[v]
    BY <1>1
  <1>6. /\ \A v \in QiitaWorkers : unit'[v] \in 0..Days
        /\ \A v \in ZennWorkers : unit'[v] \in 0..Topics
    BY <1>5, JobAssumption DEF WorkTyping, Workers
  <1>7. QED
    BY <1>3, <1>4, <1>6 DEF WorkTyping

\* A worker that is about to begin another page.
LEMMA NextPageType ==
    ASSUME WorkTyping, NEW w \in Workers, page[w] # MaxPage,
           page' = [page EXCEPT ![w] = @ + 1],
           retries' = [retries EXCEPT ![w] = 0]
    PROVE  /\ page' \in [Workers -> 1..MaxPage]
           /\ retries' \in [Workers -> 0..MaxRetries]
  <1>1. page \in [Workers -> 1..MaxPage] /\ retries \in [Workers -> 0..MaxRetries]
    BY DEF WorkTyping
  <1>2. page[w] + 1 \in 1..MaxPage /\ 0 \in 0..MaxRetries
    BY <1>1, JobAssumption
  <1>3. QED
    BY <1>1, <1>2

LEMMA TypingStep == Typing /\ [Next]_vars => Typing'
  <1> SUFFICES ASSUME WorkTyping, SharedTyping, [Next]_vars
               PROVE  Typing'
    BY DEF Typing
  <1> USE JobAssumption DEF vars, flags, work, tally
  <1>0. /\ page \in [Workers -> 1..MaxPage]
        /\ retries \in [Workers -> 0..MaxRetries]
        /\ full \in [Workers -> BOOLEAN]
    BY DEF WorkTyping
  <1>1. ASSUME NEW w \in Workers, ReceiveTopic(w)
        PROVE  Typing'
    <2>1. SharedTyping'
      <3>1. nextTopic' \in 1..(Topics + 1)
        BY <1>1 DEF ReceiveTopic, SharedTyping
      <3>2. /\ truncated' \in BOOLEAN /\ said' \in BOOLEAN
            /\ UNCHANGED <<got, failed, complete>>
        BY <1>1 DEF ReceiveTopic, Truncate, SharedTyping
      <3>3. QED
        BY <1>1, <3>1, <3>2 DEF ReceiveTopic, SharedTyping
    <2>2. WorkTyping'
      <3>1. CASE down \/ Cancelled
        BY <1>1, <3>1 DEF ReceiveTopic, WorkTyping
      <3>2. CASE ~(down \/ Cancelled)
        <4>1. nextTopic \in Nat \ {0} /\ nextTopic \in 1..Topics /\ w \notin QiitaWorkers
          BY <1>1 DEF ReceiveTopic, SharedTyping
        <4>2. Go(w, "take") /\ unit' = [unit EXCEPT ![w] = nextTopic]
          BY <1>1, <3>2 DEF ReceiveTopic
        <4>3. page' = page /\ retries' = retries /\ full' = full
          BY <1>1 DEF ReceiveTopic
        <4>4. QED
          BY <4>1, <4>2, <4>3, ReceiveType
      <3>3. QED
        BY <3>1, <3>2
    <2>3. QED
      BY <2>1, <2>2 DEF Typing
  <1>2. ASSUME NEW w \in Workers, ReceiveDay(w)
        PROVE  Typing'
    <2>1. SharedTyping'
      BY <1>2 DEF ReceiveDay, SharedTyping
    <2>2. WorkTyping'
      <3>1. nextDay \in Nat \ {0} /\ nextDay \in 1..Days /\ w \notin ZennWorkers
        BY <1>2 DEF ReceiveDay, SharedTyping
      <3>2. Go(w, "page") /\ unit' = [unit EXCEPT ![w] = nextDay]
        BY <1>2 DEF ReceiveDay
      <3>3. page' = page /\ retries' = retries /\ full' = full
        BY <1>2 DEF ReceiveDay
      <3>4. QED
        BY <3>1, <3>2, <3>3, ReceiveType
    <2>3. QED
      BY <2>1, <2>2 DEF Typing
  <1>3. ASSUME NEW w \in Workers, NextPage(w)
        PROVE  Typing'
    <2>1. SharedTyping'
      <3>1. /\ truncated' \in BOOLEAN /\ said' \in BOOLEAN
            /\ UNCHANGED <<got, failed, complete>>
        BY <1>3 DEF NextPage, Truncate, SharedTyping
      <3>2. QED
        BY <1>3, <3>1 DEF NextPage, SharedTyping
    <2>2. WorkTyping'
      <3>1. CASE stopped \/ Cancelled
        BY <1>3, <3>1, EndUnitType DEF NextPage
      <3>2. CASE ~(stopped \/ Cancelled)
        BY <1>0, <1>3, <3>2, GoOnType DEF NextPage
      <3>3. QED
        BY <3>1, <3>2
    <2>3. QED
      BY <2>1, <2>2 DEF Typing
  <1>4. ASSUME NEW w \in Workers, GiveUpCall(w)
        PROVE  Typing'
    <2>1. SharedTyping'
      BY <1>4 DEF GiveUpCall, Truncate, SharedTyping
    <2>2. WorkTyping'
      BY <1>4, EndUnitType DEF GiveUpCall
    <2>3. QED
      BY <2>1, <2>2 DEF Typing
  <1>5. ASSUME NEW w \in Workers, Take(w)
        PROVE  Typing'
    <2>1. SharedTyping'
      <3>1. late' \in [QiitaWorkers -> Nat] /\ calls' \in Nat
        <4>1. late \in [QiitaWorkers -> Nat] /\ calls \in Nat
          BY DEF SharedTyping
        <4>2. CASE w \in QiitaWorkers
          <5>1. calls' = calls + 1 /\ late' = [late EXCEPT ![w] = IF stopped THEN @ + 1 ELSE @]
            BY <1>5, <4>2 DEF Take, Counted
          <5>2. (IF stopped THEN late[w] + 1 ELSE late[w]) \in Nat
            BY <4>1, <4>2
          <5>3. late' \in [QiitaWorkers -> Nat]
            BY <4>1, <5>1, <5>2
          <5>4. QED
            BY <4>1, <5>1, <5>3
        <4>3. CASE w \notin QiitaWorkers
          BY <1>5, <4>1, <4>3 DEF Take, Counted
        <4>4. QED
          BY <4>2, <4>3
      <3>2. cur' \in [Workers -> Nat]
        BY <1>5 DEF Take, SharedTyping
      <3>3. QED
        BY <1>5, <3>1, <3>2 DEF Take, SharedTyping
    <2>2. WorkTyping'
      BY <1>5, <1>0, GoOnType DEF Take
    <2>3. QED
      BY <2>1, <2>2 DEF Typing
  <1>6. ASSUME NEW w \in Workers, CallLimit(w)
        PROVE  Typing'
    <2>1. SharedTyping'
      <3>1. cur' \in [Workers -> Nat]
        BY <1>6 DEF CallLimit, SharedTyping
      <3>2. QED
        BY <1>6, <3>1 DEF CallLimit, Truncate, SharedTyping
    <2>2. WorkTyping'
      BY <1>6, EndUnitType DEF CallLimit, Reads
    <2>3. QED
      BY <2>1, <2>2 DEF Typing
  <1>7. ASSUME NEW w \in Workers, Retry(w)
        PROVE  Typing'
    <2>1. SharedTyping'
      BY <1>7 DEF Retry, SharedTyping
    <2>2. WorkTyping'
      BY <1>7, <1>0, GoOnType DEF Retry
    <2>3. QED
      BY <2>1, <2>2 DEF Typing
  <1>8. ASSUME NEW w \in Workers, NEW low \in BOOLEAN, NEW isFull \in BOOLEAN, AnswerOK(w, low, isFull)
        PROVE  Typing'
    <2>1. SharedTyping'
      <3>1. UNCHANGED tally \/ Truncate(TRUE)
        BY <1>8 DEF AnswerOK
      <3>2. stopped' \in BOOLEAN /\ consecutive' \in Nat
        BY <1>8 DEF AnswerOK, Warns, SharedTyping
      <3>3. got' \in BOOLEAN /\ failed' \in BOOLEAN /\ complete' \subseteq Units
        BY <3>1 DEF Truncate, SharedTyping
      <3>4. truncated' \in BOOLEAN /\ said' \in BOOLEAN
        BY <3>1 DEF Truncate, SharedTyping
      <3>5. QED
        BY <1>8, <3>2, <3>3, <3>4 DEF AnswerOK, SharedTyping
    <2>2. WorkTyping'
      <3>1. full' \in [Workers -> BOOLEAN]
        BY <1>0, <1>8 DEF AnswerOK
      <3>2. QED
        BY <1>0, <1>8, <3>1, GoOnType DEF AnswerOK
    <2>3. QED
      BY <2>1, <2>2 DEF Typing
  <1>9. ASSUME NEW w \in Workers, NEW low \in BOOLEAN, AnswerCancelled(w, low)
        PROVE  Typing'
    <2>1. SharedTyping'
      BY <1>9 DEF AnswerCancelled, Warns, Tells, Truncate, SharedTyping
    <2>2. WorkTyping'
      BY <1>9, EndUnitType DEF AnswerCancelled
    <2>3. QED
      BY <2>1, <2>2 DEF Typing
  <1>10. ASSUME NEW w \in Workers, NEW low \in BOOLEAN, AnswerTransient(w, low)
        PROVE  Typing'
    <2>1. SharedTyping'
      <3>1. UNCHANGED tally \/ Truncate(TRUE)
        BY <1>10 DEF AnswerTransient
      <3>2. stopped' \in BOOLEAN
        BY <1>10 DEF AnswerTransient, Warns, SharedTyping
      <3>3. got' \in BOOLEAN /\ failed' \in BOOLEAN /\ complete' \subseteq Units
        BY <3>1 DEF Truncate, SharedTyping
      <3>4. truncated' \in BOOLEAN /\ said' \in BOOLEAN
        BY <3>1 DEF Truncate, SharedTyping
      <3>5. QED
        BY <1>10, <3>2, <3>3, <3>4 DEF AnswerTransient, SharedTyping
    <2>2. WorkTyping'
      <3>1. retries' = [retries EXCEPT ![w] = @ + 1] /\ retries[w] + 1 \in 0..MaxRetries
        BY <1>0, <1>10 DEF AnswerTransient
      <3>2. retries' \in [Workers -> 0..MaxRetries]
        BY <1>0, <3>1
      <3>3. QED
        BY <1>0, <1>10, <3>2, GoOnType DEF AnswerTransient
    <2>3. QED
      BY <2>1, <2>2 DEF Typing
  <1>11. ASSUME NEW w \in Workers, NEW low \in BOOLEAN, NEW limited \in BOOLEAN, AnswerFailed(w, low, limited)
        PROVE  Typing'
    <2>1. SharedTyping'
      <3>1. consecutive' \in Nat /\ down' \in BOOLEAN
        <4>1. consecutive \in Nat /\ down \in BOOLEAN
          BY DEF SharedTyping
        <4>2. CASE w \in ZennWorkers
          <5>1. /\ consecutive' = consecutive + 1
                /\ down' = (down \/ consecutive' >= ZennMaxFailures)
            BY <1>11, <4>2 DEF AnswerFailed
          <5>2. QED
            BY <4>1, <5>1
        <4>3. CASE w \notin ZennWorkers
          BY <1>11, <4>1, <4>3 DEF AnswerFailed
        <4>4. QED
          BY <4>2, <4>3
      <3>2. stopped' \in BOOLEAN /\ truncated' \in BOOLEAN
        BY <1>11 DEF AnswerFailed, SharedTyping
      <3>3. QED
        BY <1>11, <3>1, <3>2 DEF AnswerFailed, SharedTyping
    <2>2. WorkTyping'
      BY <1>11, EndUnitType DEF AnswerFailed
    <2>3. QED
      BY <2>1, <2>2 DEF Typing
  <1>12. ASSUME NEW w \in Workers, NEW low \in BOOLEAN, AnswerTooLarge(w, low)
        PROVE  Typing'
    <2>1. SharedTyping'
      BY <1>12 DEF AnswerTooLarge, Warns, SharedTyping
    <2>2. WorkTyping'
      <3>1. CASE page[w] = MaxPage
        BY <1>12, <3>1, EndUnitType DEF AnswerTooLarge
      <3>2. CASE page[w] # MaxPage
        <4>1. page' \in [Workers -> 1..MaxPage] /\ retries' \in [Workers -> 0..MaxRetries]
          BY <1>12, <3>2, NextPageType DEF AnswerTooLarge
        <4>2. QED
          BY <1>0, <1>12, <3>2, <4>1, GoOnType DEF AnswerTooLarge
      <3>3. QED
        BY <3>1, <3>2
    <2>3. QED
      BY <2>1, <2>2 DEF Typing
  <1>13. ASSUME NEW w \in Workers, Saved(w)
        PROVE  Typing'
    <2>1. SharedTyping'
      <3>1. complete' \subseteq Units
        BY <1>13, NameType DEF Saved, SharedTyping
      <3>2. said' \in BOOLEAN
        BY <1>13 DEF Saved, SharedTyping
      <3>3. QED
        BY <1>13, <3>1, <3>2 DEF Saved, SharedTyping
    <2>2. WorkTyping'
      <3>1. CASE full[w] /\ page[w] < MaxPage
        <4>1. page' \in [Workers -> 1..MaxPage] /\ retries' \in [Workers -> 0..MaxRetries]
          BY <1>0, <1>13, <3>1, NextPageType DEF Saved
        <4>2. full' \in [Workers -> BOOLEAN]
          BY <1>0, <1>13, <3>1 DEF Saved
        <4>3. QED
          BY <1>13, <3>1, <4>1, <4>2, GoOnType DEF Saved
      <3>2. CASE ~(full[w] /\ page[w] < MaxPage)
        BY <1>13, <3>2, EndUnitType DEF Saved
      <3>3. QED
        BY <3>1, <3>2
    <2>3. QED
      BY <2>1, <2>2 DEF Typing
  <1>14. ASSUME NEW w \in Workers, SaveFails(w)
        PROVE  Typing'
    <2>1. SharedTyping'
      BY <1>14 DEF SaveFails, SharedTyping
    <2>2. WorkTyping'
      BY <1>14, EndUnitType DEF SaveFails
    <2>3. QED
      BY <2>1, <2>2 DEF Typing
  <1>15. ASSUME NEW w \in Workers, Load(w)
         PROVE  Typing'
    <2>1. SharedTyping'
      <3>1. cur' \in [Workers -> Nat]
        BY <1>15 DEF Load, SharedTyping
      <3>2. QED
        BY <1>15, <3>1 DEF Load, SharedTyping
    <2>2. WorkTyping'
      BY <1>15, <1>0, GoOnType DEF Load, Reads
    <2>3. QED
      BY <2>1, <2>2 DEF Typing
  <1>16. CASE Finish
    <2>1. UNCHANGED work
      BY <1>16 DEF Finish, ListTags, Join, Retain, Message, Status
    <2>2. UNCHANGED <<flags, nextDay, nextTopic, got, failed, truncated, complete, late>>
      BY <1>16 DEF Finish, ListTags, Join, Retain, Message, Status
    <2>3. /\ main' \in {"tags", "fetch", "retain", "message", "status", "done"}
          /\ result' \in {"none", "succeeded", "partial", "failed"}
      BY <1>16 DEF Finish, ListTags, Join, Retain, Message, Status, SharedTyping
    <2>4. said' \in BOOLEAN
      BY <1>16 DEF Finish, ListTags, Join, Retain, Message, Status, SharedTyping
    <2>5. SharedTyping'
      BY <2>2, <2>3, <2>4 DEF SharedTyping
    <2>6. QED
      BY <2>1, <2>5 DEF Typing, WorkTyping
  <1>17. CASE End
    BY <1>17 DEF End, Typing, WorkTyping, SharedTyping
  <1>18. CASE UNCHANGED vars
    BY <1>18 DEF Typing, WorkTyping, SharedTyping
  <1>19. QED
    BY <1>1, <1>2, <1>3, <1>4, <1>5, <1>6, <1>7, <1>8, <1>9, <1>10, <1>11, <1>12,
       <1>13, <1>14, <1>15, <1>16, <1>17, <1>18
    DEF Next, Work, Answer, Returned

LEMMA TypingHolds == Spec => []Typing
  BY TypingInit, TypingStep, PTL DEF Spec

\* The workers and the result keep their types, whatever the numbers of the workers,
\* units, pages and retries are (job.go, Execute).
THEOREM TypesHold == Spec => []TypeOK
  <1>1. Typing => TypeOK
    BY DEF Typing, WorkTyping, SharedTyping, TypeOK, Steps
  <1>2. QED
    BY <1>1, TypingHolds, PTL

-----------------------------------------------------------------------------
(* The calls to Qiita *)

LEMMA OnlyTakeCounts ==
    ASSUME [Next]_vars
    PROVE  UNCHANGED <<calls, late>> \/ \E w \in Workers : Take(w)
  <1> USE DEF vars, flags, work, tally
  <1>1. ASSUME NEW w \in Workers, Work(w)
        PROVE  UNCHANGED <<calls, late>> \/ Take(w)
    <2>1. CASE Answer(w)
      BY <2>1 DEF Answer, AnswerOK, AnswerCancelled, AnswerTransient, AnswerFailed,
                  AnswerTooLarge
    <2>2. CASE ~Answer(w)
      BY <1>1, <2>2 DEF Work, ReceiveTopic, ReceiveDay, NextPage, GiveUpCall, Load,
                        CallLimit, Retry, Saved, SaveFails
    <2>3. QED
      BY <2>1, <2>2
  <1>2. CASE Finish
    BY <1>2 DEF Finish, ListTags, Join, Retain, Message, Status
  <1>3. QED
    BY <1>1, <1>2 DEF Next, End, Returned

\* Whoever is in counter.take has read less than the limit, and no more than the
\* counter is by now.
Compared == \A w \in Workers :
    /\ cur[w] <= calls
    /\ pc[w] = "swap" => Limited(w) /\ cur[w] < QiitaMaxRequests

\* Nothing else than counter.take reads the counter or writes it.
LEMMA OnlyTakeReads ==
    ASSUME [Next]_vars, pc \in [Workers -> Steps]
    PROVE  \/ \E w \in Workers : Load(w) \/ Take(w) \/ CallLimit(w)
           \/ /\ UNCHANGED <<calls, cur>>
              /\ \A v \in Workers : pc'[v] = "swap" => pc[v] = "swap"
  <1> USE DEF vars, flags, work, tally
  <1>1. ASSUME NEW w \in Workers, Work(w), ~Load(w), ~Take(w), ~CallLimit(w)
        PROVE  /\ UNCHANGED <<calls, cur>>
               /\ \A v \in Workers : pc'[v] = "swap" => pc[v] = "swap"
    <2>1. CASE Answer(w)
      <3>1. UNCHANGED <<calls, cur>>
        BY <2>1 DEF Answer, AnswerOK, AnswerCancelled, AnswerTransient, AnswerFailed,
                    AnswerTooLarge
      <3>2. \E to \in Steps \ {"swap"} : pc' = [pc EXCEPT ![w] = to]
        BY <2>1 DEF Answer, AnswerOK, AnswerCancelled, AnswerTransient, AnswerFailed,
                    AnswerTooLarge, EndUnit, Go, Steps
      <3>3. QED
        BY <3>1, <3>2
    <2>2. CASE ~Answer(w)
      <3>1. UNCHANGED <<calls, cur>>
        BY <1>1, <2>2 DEF Work, ReceiveTopic, ReceiveDay, NextPage, GiveUpCall, Retry,
                          Saved, SaveFails
      <3>2. pc' = pc \/ \E to \in Steps \ {"swap"} : pc' = [pc EXCEPT ![w] = to]
        BY <1>1, <2>2 DEF Work, ReceiveTopic, ReceiveDay, NextPage, GiveUpCall, Retry,
                          Saved, SaveFails, EndUnit, Go, Steps
      <3>3. QED
        BY <3>1, <3>2
    <2>3. QED
      BY <2>1, <2>2
  <1>2. CASE Finish
    BY <1>2 DEF Finish, ListTags, Join, Retain, Message, Status
  <1>3. QED
    BY <1>1, <1>2 DEF Next, End, Returned

LEMMA ComparedStep ==
    ASSUME Typing, Compared, [Next]_vars
    PROVE  Compared'
  <1>1. /\ calls \in Nat /\ cur \in [Workers -> Nat] /\ pc \in [Workers -> Steps]
        /\ QiitaMaxRequests \in Nat
    BY JobAssumption DEF Typing, WorkTyping, SharedTyping, Steps
  <1>2. ASSUME NEW w \in Workers, Load(w) PROVE Compared'
    <2>1. /\ cur' = [cur EXCEPT ![w] = calls] /\ pc' = [pc EXCEPT ![w] = "swap"]
          /\ calls' = calls /\ Limited(w) /\ calls < QiitaMaxRequests
      BY <1>2 DEF Load, Go
    <2>2. ASSUME NEW v \in Workers
          PROVE  /\ cur'[v] <= calls
                 /\ pc'[v] = "swap" => Limited(v) /\ cur'[v] < QiitaMaxRequests
      BY <1>1, <2>1 DEF Compared
    <2>3. QED
      BY <2>1, <2>2 DEF Compared, Limited
  <1>3. ASSUME NEW w \in Workers, Take(w) \/ CallLimit(w) PROVE Compared'
    <2>1. /\ cur' = [cur EXCEPT ![w] = 0]
          /\ \E to \in {"answer", "unit"} : pc' = [pc EXCEPT ![w] = to]
      BY <1>3 DEF Take, CallLimit, EndUnit, Go
    <2>2. calls' \in Nat /\ calls <= calls'
      <3>1. calls' = calls \/ calls' = calls + 1
        BY <1>3 DEF Take, CallLimit, Counted
      <3>2. QED
        BY <1>1, <3>1
    <2>3. ASSUME NEW v \in Workers
          PROVE  /\ cur'[v] <= calls'
                 /\ pc'[v] = "swap" => Limited(v) /\ cur'[v] < QiitaMaxRequests
      <3>1. CASE v = w
        BY <1>1, <2>1, <2>2, <3>1
      <3>2. CASE v # w
        <4>1. cur'[v] = cur[v] /\ pc'[v] = pc[v] /\ cur[v] \in Nat
          BY <1>1, <2>1, <3>2
        <4>2. QED
          BY <1>1, <2>2, <4>1 DEF Compared
      <3>3. QED
        BY <3>1, <3>2
    <2>4. QED
      BY <2>3 DEF Compared, Limited
  <1>4. CASE /\ UNCHANGED <<calls, cur>>
             /\ \A v \in Workers : pc'[v] = "swap" => pc[v] = "swap"
    BY <1>4 DEF Compared, Limited
  <1>5. QED
    BY <1>1, <1>2, <1>3, <1>4, OnlyTakeReads

LEMMA ComparedHolds == Spec => []Compared
  <1>1. Init => Compared
    BY DEF Init, Compared
  <1>2. QED
    BY <1>1, ComparedStep, TypingHolds, PTL DEF Spec

\* However many workers read the counter before one of them raises it, a run makes no
\* more calls to Qiita than it may, retries included (retry.go, counter.take).
THEOREM LimitHolds == Spec => []CallsWithinLimit
  <1>1. Init => CallsWithinLimit
    BY JobAssumption DEF Init, CallsWithinLimit
  <1>2. ASSUME Typing, Compared, CallsWithinLimit, [Next]_vars
        PROVE  CallsWithinLimit'
    <2>1. CASE UNCHANGED <<calls, late>>
      BY <1>2, <2>1 DEF CallsWithinLimit
    <2>2. ASSUME NEW w \in Workers, Take(w)
          PROVE  CallsWithinLimit'
      <3>1. calls \in Nat
        BY <1>2 DEF Typing, SharedTyping
      <3>2. CASE w \in QiitaWorkers
        <4>1. calls' = calls + 1
          BY <2>2, <3>2 DEF Take, Counted
        <4>2. QiitaMaxRequests > 0 => calls < QiitaMaxRequests
          <5>1. QiitaMaxRequests > 0 => pc[w] = "swap" /\ calls = cur[w]
            BY <2>2, <3>2 DEF Take, Limited
          <5>2. QED
            BY <1>2, <5>1 DEF Compared
        <4>3. QED
          BY <3>1, <4>1, <4>2, JobAssumption DEF CallsWithinLimit
      <3>3. CASE w \notin QiitaWorkers
        BY <1>2, <2>2, <3>3 DEF Take, Counted, CallsWithinLimit
      <3>4. QED
        BY <3>2, <3>3
    <2>3. QED
      BY <1>2, <2>1, <2>2, OnlyTakeCounts
  <1>3. QED
    BY <1>1, <1>2, TypingHolds, ComparedHolds, PTL DEF Spec

\* What is to be known of a worker to bound its calls after the stop: none is made
\* before the stop, and those made since are the attempts of one page.
LateAt(v) ==
    /\ ~stopped => late[v] = 0
    /\ late[v] <= MaxRetries + 1
    /\ pc[v] \in {"take", "swap", "backoff"} => late[v] <= retries[v]
    /\ pc[v] = "answer" => late[v] <= retries[v] + 1

LateInv == \A v \in QiitaWorkers : LateAt(v)

\* Nothing takes the stop back.
LEMMA StopStays ==
    ASSUME [Next]_vars, stopped
    PROVE  stopped'
  <1> USE DEF vars, flags, work, tally
  <1>1. ASSUME NEW w \in Workers, Work(w)
        PROVE  stopped'
    <2>1. CASE Answer(w)
      BY <2>1 DEF Answer, AnswerOK, AnswerCancelled, AnswerTransient, AnswerFailed,
                  AnswerTooLarge, Warns
    <2>2. CASE ~Answer(w)
      BY <1>1, <2>2 DEF Work, ReceiveTopic, ReceiveDay, NextPage, GiveUpCall, Load,
                        Take, CallLimit, Retry, Saved, SaveFails
    <2>3. QED
      BY <2>1, <2>2
  <1>2. CASE Finish
    BY <1>2 DEF Finish, ListTags, Join, Retain, Message, Status
  <1>3. QED
    BY <1>1, <1>2 DEF Next, End, Returned

\* A worker that ends its unit or its page, or that does nothing, keeps LateAt.
LEMMA LateQuiet ==
    ASSUME LateInv, NEW v \in QiitaWorkers, late'[v] = late[v],
           stopped => stopped',
           \/ pc'[v] = pc[v] /\ retries'[v] = retries[v]
           \/ pc'[v] \notin {"take", "swap", "backoff", "answer"}
    PROVE  LateAt(v)'
  BY DEF LateInv, LateAt

LEMMA LateStep ==
    ASSUME Typing, LateInv, [Next]_vars
    PROVE  LateInv'
  <1> SUFFICES ASSUME NEW v \in QiitaWorkers
               PROVE  LateAt(v)'
    BY DEF LateInv
  <1> USE DEF vars, flags, work, tally
  <1>1. /\ v \in Workers
        /\ pc \in [Workers -> Steps]
        /\ retries \in [Workers -> 0..MaxRetries]
        /\ late \in [QiitaWorkers -> Nat]
    BY DEF Typing, WorkTyping, SharedTyping, Workers
  <1>2. LateAt(v) /\ MaxRetries \in Nat /\ retries[v] \in 0..MaxRetries /\ late[v] \in Nat
    BY <1>1, JobAssumption DEF LateInv
  <1>3. stopped => stopped'
    BY StopStays
  <1>4. ASSUME NEW w \in Workers, EndUnit(w), late' = late
        PROVE  LateAt(v)'
    <2>1. /\ pc' = [pc EXCEPT ![w] = "unit"]
          /\ retries' = [retries EXCEPT ![w] = 0]
      BY <1>4 DEF EndUnit, Go
    <2>2. CASE v = w
      <3>1. pc'[v] = "unit"
        BY <1>1, <2>1, <2>2
      <3>2. QED
        BY <1>3, <1>4, <3>1, LateQuiet
    <2>3. CASE v # w
      <3>1. pc'[v] = pc[v] /\ retries'[v] = retries[v]
        BY <1>1, <2>1, <2>3
      <3>2. QED
        BY <1>3, <1>4, <3>1, LateQuiet
    <2>4. QED
      BY <2>2, <2>3
  <1>5. ASSUME NEW w \in Workers, NEW to \in {"page", "save"}, Go(w, to), late' = late,
               retries' = retries \/ retries' = [retries EXCEPT ![w] = 0]
        PROVE  LateAt(v)'
    <2>1. pc' = [pc EXCEPT ![w] = to]
      BY <1>5 DEF Go
    <2>2. CASE v = w
      <3>1. pc'[v] = to
        BY <1>1, <2>1, <2>2
      <3>2. QED
        BY <1>3, <1>5, <3>1, LateQuiet
    <2>3. CASE v # w
      <3>1. pc'[v] = pc[v]
        BY <1>1, <2>1, <2>3
      <3>2. retries'[v] = retries[v]
        BY <1>1, <1>5, <2>3
      <3>3. QED
        BY <1>3, <1>5, <3>1, <3>2, LateQuiet
    <2>4. QED
      BY <2>2, <2>3
  <1>6. ASSUME NEW w \in Workers, ReceiveTopic(w) PROVE LateAt(v)'
    <2>1. w \in ZennWorkers /\ v # w
      BY <1>6, JobAssumption DEF ReceiveTopic
    <2>2. pc' = pc \/ pc' = [pc EXCEPT ![w] = "take"]
      BY <1>6 DEF ReceiveTopic, Go
    <2>3. pc'[v] = pc[v]
      BY <1>1, <2>1, <2>2
    <2>4. retries' = retries /\ late' = late
      BY <1>6 DEF ReceiveTopic
    <2>5. QED
      BY <1>3, <2>3, <2>4, LateQuiet
  <1>7. ASSUME NEW w \in Workers, ReceiveDay(w) PROVE LateAt(v)'
    BY <1>5, <1>7 DEF ReceiveDay
  <1>8. ASSUME NEW w \in Workers, NextPage(w) PROVE LateAt(v)'
    <2>1. CASE stopped \/ Cancelled
      BY <1>4, <1>8, <2>1 DEF NextPage
    <2>2. CASE ~(stopped \/ Cancelled)
      <3>1. /\ pc' = [pc EXCEPT ![w] = "take"]
            /\ retries' = retries /\ late' = late /\ ~stopped /\ stopped' = stopped
        BY <1>8, <2>2 DEF NextPage, Go
      <3>2. late'[v] = 0 /\ retries'[v] = retries[v]
        BY <1>2, <3>1 DEF LateAt
      <3>3. QED
        BY <1>2, <3>1, <3>2 DEF LateAt
    <2>3. QED
      BY <2>1, <2>2
  <1>9. ASSUME NEW w \in Workers, GiveUpCall(w) PROVE LateAt(v)'
    BY <1>4, <1>9 DEF GiveUpCall
  <1>10. ASSUME NEW w \in Workers, Take(w) PROVE LateAt(v)'
    <2>1. /\ pc[w] \in {"take", "swap"} /\ pc' = [pc EXCEPT ![w] = "answer"]
          /\ retries' = retries /\ stopped' = stopped
      BY <1>10 DEF Take, Go
    <2>2. CASE w = v
      <3>1. late' = [late EXCEPT ![v] = IF stopped THEN @ + 1 ELSE @]
        BY <1>10, <2>2 DEF Take, Counted
      <3>2. late'[v] = IF stopped THEN late[v] + 1 ELSE late[v]
        BY <1>1, <3>1
      <3>3. pc'[v] = "answer" /\ retries'[v] = retries[v]
        BY <1>1, <2>1, <2>2
      <3>4. late[v] <= retries[v]
        BY <1>2, <2>1, <2>2 DEF LateAt
      <3>5. late'[v] <= retries[v] + 1 /\ late'[v] <= MaxRetries + 1
        BY <1>2, <3>2, <3>4
      <3>6. ~stopped' => late'[v] = 0
        BY <1>2, <2>1, <3>2 DEF LateAt
      <3>7. QED
        BY <3>3, <3>5, <3>6 DEF LateAt
    <2>3. CASE w # v
      <3>1. late' = late \/ late' = [late EXCEPT ![w] = IF stopped THEN @ + 1 ELSE @]
        BY <1>10 DEF Take, Counted
      <3>2. late'[v] = late[v] /\ pc'[v] = pc[v] /\ retries'[v] = retries[v]
        BY <1>1, <2>1, <2>3, <3>1
      <3>3. QED
        BY <1>3, <3>2, LateQuiet
    <2>4. QED
      BY <2>2, <2>3
  <1>11. ASSUME NEW w \in Workers, CallLimit(w) PROVE LateAt(v)'
    BY <1>4, <1>11 DEF CallLimit
  <1>12. ASSUME NEW w \in Workers, Retry(w) PROVE LateAt(v)'
    <2>1. /\ pc[w] = "backoff" /\ pc' = [pc EXCEPT ![w] = "take"]
          /\ retries' = retries /\ late' = late /\ stopped' = stopped
      BY <1>12 DEF Retry, Go
    <2>2. CASE v = w
      <3>1. pc[v] = "backoff" /\ pc'[v] = "take"
        BY <1>1, <2>1, <2>2
      <3>2. QED
        BY <1>2, <2>1, <3>1 DEF LateAt
    <2>3. CASE v # w
      <3>1. pc'[v] = pc[v]
        BY <1>1, <2>1, <2>3
      <3>2. QED
        BY <1>3, <2>1, <3>1, LateQuiet
    <2>4. QED
      BY <2>2, <2>3
  <1>13. ASSUME NEW w \in Workers, Answer(w) PROVE LateAt(v)'
    <2>1. ASSUME NEW low \in BOOLEAN, NEW isFull \in BOOLEAN, AnswerOK(w, low, isFull)
          PROVE  LateAt(v)'
      BY <1>5, <2>1 DEF AnswerOK
    <2>2. ASSUME NEW low \in BOOLEAN, AnswerCancelled(w, low)
          PROVE  LateAt(v)'
      BY <1>4, <2>2 DEF AnswerCancelled
    <2>3. ASSUME NEW low \in BOOLEAN, AnswerTransient(w, low)
          PROVE  LateAt(v)'
      <3>1. /\ pc[w] = "answer" /\ pc' = [pc EXCEPT ![w] = "backoff"]
            /\ retries' = [retries EXCEPT ![w] = @ + 1] /\ late' = late
        BY <2>3 DEF AnswerTransient, Go
      <3>2. CASE w = v
        <4>1. pc'[v] = "backoff" /\ retries'[v] = retries[v] + 1
          BY <1>1, <3>1, <3>2
        <4>2. late[v] <= retries[v] + 1
          BY <1>2, <3>1, <3>2 DEF LateAt
        <4>3. ~stopped' => late[v] = 0
          BY <1>2, <1>3 DEF LateAt
        <4>4. QED
          BY <1>2, <3>1, <4>1, <4>2, <4>3 DEF LateAt
      <3>3. CASE w # v
        <4>1. pc'[v] = pc[v] /\ retries'[v] = retries[v]
          BY <1>1, <3>1, <3>3
        <4>2. QED
          BY <1>3, <3>1, <4>1, LateQuiet
      <3>4. QED
        BY <3>2, <3>3
    <2>4. ASSUME NEW low \in BOOLEAN, NEW limited \in BOOLEAN, AnswerFailed(w, low, limited)
          PROVE  LateAt(v)'
      BY <1>4, <2>4 DEF AnswerFailed
    <2>5. ASSUME NEW low \in BOOLEAN, AnswerTooLarge(w, low)
          PROVE  LateAt(v)'
      <3>1. CASE page[w] = MaxPage
        BY <1>4, <2>5, <3>1 DEF AnswerTooLarge
      <3>2. CASE page[w] # MaxPage
        BY <1>5, <2>5, <3>2 DEF AnswerTooLarge
      <3>3. QED
        BY <3>1, <3>2
    <2>6. QED
      BY <1>13, <2>1, <2>2, <2>3, <2>4, <2>5 DEF Answer
  <1>14. ASSUME NEW w \in Workers, Saved(w) PROVE LateAt(v)'
    <2>1. CASE full[w] /\ page[w] < MaxPage
      BY <1>5, <1>14, <2>1 DEF Saved
    <2>2. CASE ~(full[w] /\ page[w] < MaxPage)
      BY <1>4, <1>14, <2>2 DEF Saved
    <2>3. QED
      BY <2>1, <2>2
  <1>15. ASSUME NEW w \in Workers, SaveFails(w) PROVE LateAt(v)'
    BY <1>4, <1>15 DEF SaveFails
  <1>16. ASSUME NEW w \in Workers, Load(w) PROVE LateAt(v)'
    <2>1. /\ pc[w] \in {"take", "swap"} /\ pc' = [pc EXCEPT ![w] = "swap"]
          /\ retries' = retries /\ late' = late /\ stopped' = stopped
      BY <1>16 DEF Load, Reads, Go
    <2>2. CASE v = w
      <3>1. pc[v] \in {"take", "swap"} /\ pc'[v] = "swap"
        BY <1>1, <2>1, <2>2
      <3>2. QED
        BY <1>2, <2>1, <3>1 DEF LateAt
    <2>3. CASE v # w
      <3>1. pc'[v] = pc[v]
        BY <1>1, <2>1, <2>3
      <3>2. QED
        BY <1>3, <2>1, <3>1, LateQuiet
    <2>4. QED
      BY <2>2, <2>3
  <1>17. CASE UNCHANGED <<pc, retries, late>>
    BY <1>3, <1>17, LateQuiet
  <1>18. CASE Finish
    BY <1>17, <1>18 DEF Finish, ListTags, Join, Retain, Message, Status
  <1>19. QED
    BY <1>6, <1>7, <1>8, <1>9, <1>10, <1>11, <1>12, <1>13, <1>14, <1>15, <1>16, <1>17, <1>18
    DEF Next, Work, End, Returned

\* After the stop a worker of Qiita makes no more calls than the attempts of the page
\* that it has begun (job.go, qiitaDay; retry.go, caller.do).
THEOREM LateHolds == Spec => []LateCallsBounded
  <1>1. ASSUME Init PROVE LateInv
    <2>1. ASSUME NEW v \in QiitaWorkers
          PROVE  late[v] = 0 /\ pc[v] = "unit"
      BY <1>1 DEF Init, Workers
    <2>2. QED
      BY <2>1, JobAssumption DEF LateInv, LateAt
  <1>2. LateInv => LateCallsBounded
    BY DEF LateInv, LateAt, LateCallsBounded
  <1>3. QED
    BY <1>1, <1>2, LateStep, TypingHolds, PTL DEF Spec

-----------------------------------------------------------------------------
(* Success *)

\* Something that Execute knows went wrong.
Problem == failed \/ truncated \/ ended \/ dbFailed

\* A unit that was handed out to a worker.
Sent(u) == \/ \E d \in 1..Days : u = <<d, "day">> /\ d < nextDay
           \/ \E t \in 1..Topics : u = <<t, "topic">> /\ t < nextTopic

\* Some worker has it.
Held(u) == \E w \in Workers : pc[w] # "unit" /\ Name(w) = u

\* No unit gets lost without a problem.
Accounted == Problem \/ \A u \in Units : Sent(u) => u \in complete \/ Held(u)

\* When the workers are joined, nothing is left.
Joined ==
    main \in {"retain", "message", "status"} =>
        /\ nextDay > Days /\ nextTopic > Topics
        /\ \A w \in Workers : pc[w] = "unit"

SuccessInv == Accounted /\ Joined /\ SucceededMeansComplete

\* Nothing takes a problem back, or a unit that is complete.
LEMMA ProblemStays ==
    ASSUME [Next]_vars
    PROVE  (Problem => Problem') /\ complete \subseteq complete'
  <1> USE DEF vars, flags, work, tally
  <1>1. ASSUME NEW w \in Workers, Work(w)
        PROVE  (Problem => Problem') /\ complete \subseteq complete'
    <2>1. CASE Answer(w)
      BY <2>1 DEF Answer, AnswerOK, AnswerCancelled, AnswerTransient, AnswerFailed,
                  AnswerTooLarge, Truncate, Problem
    <2>2. CASE ReceiveTopic(w) \/ ReceiveDay(w) \/ NextPage(w) \/ GiveUpCall(w)
      BY <2>2 DEF ReceiveTopic, ReceiveDay, NextPage, GiveUpCall, Truncate, Problem
    <2>3. CASE Load(w) \/ Take(w) \/ CallLimit(w) \/ Retry(w)
      BY <2>3 DEF Load, Take, CallLimit, Retry, Truncate, Problem
    <2>4. CASE Saved(w)
      BY <2>4 DEF Saved, Problem
    <2>5. CASE SaveFails(w)
      BY <2>5 DEF SaveFails, Problem
    <2>6. QED
      BY <1>1, <2>1, <2>2, <2>3, <2>4, <2>5 DEF Work
  <1>2. CASE Finish
    BY <1>2 DEF Finish, ListTags, Join, Retain, Message, Status, Problem
  <1>3. CASE End
    BY <1>3 DEF End, Problem
  <1>4. QED
    BY <1>1, <1>2, <1>3 DEF Next, Returned, Problem

\* A worker that goes on with its unit leaves every unit where it was.
LEMMA GoOnAccounted ==
    ASSUME WorkTyping, Accounted, ~Problem,
           NEW w \in Workers, pc[w] # "unit", NEW to \in Steps \ {"unit"},
           Go(w, to), UNCHANGED <<nextDay, nextTopic, unit, complete>>
    PROVE  Accounted'
  <1>1. pc' = [pc EXCEPT ![w] = to] /\ pc \in [Workers -> Steps]
    BY DEF Go, WorkTyping, Steps
  <1>2. \A v \in Workers : pc[v] # "unit" => pc'[v] # "unit"
    BY <1>1
  <1>3. \A v \in Workers : Name(v)' = Name(v)
    BY DEF Name
  <1>4. \A u \in Units : Held(u) => Held(u)'
    BY <1>2, <1>3 DEF Held
  <1>5. \A u \in Units : Sent(u)' => Sent(u)
    BY DEF Sent
  <1>6. QED
    BY <1>4, <1>5 DEF Accounted, Units

\* One that takes the next unit holds it.
LEMMA ReceiveAccounted ==
    ASSUME WorkTyping, Accounted, ~Problem,
           NEW w \in Workers, pc[w] = "unit", NEW u \in Nat, NEW to \in Steps \ {"unit"},
           Go(w, to), unit' = [unit EXCEPT ![w] = u], complete' = complete,
           \A x \in Units : Sent(x)' =>
               Sent(x) \/ x = <<u, IF w \in QiitaWorkers THEN "day" ELSE "topic">>
    PROVE  Accounted'
  <1>1. /\ pc' = [pc EXCEPT ![w] = to] /\ pc \in [Workers -> Steps]
        /\ unit \in [Workers -> Nat]
    BY DEF Go, WorkTyping, Steps
  <1>2. pc'[w] # "unit" /\ Name(w)' = <<u, IF w \in QiitaWorkers THEN "day" ELSE "topic">>
    BY <1>1 DEF Name
  <1>3. ASSUME NEW v \in Workers, pc[v] # "unit"
        PROVE  pc'[v] # "unit" /\ Name(v)' = Name(v)
    <2>1. v # w
      BY <1>3
    <2>2. pc'[v] = pc[v] /\ unit'[v] = unit[v]
      BY <1>1, <2>1
    <2>3. QED
      BY <1>3, <2>2 DEF Name
  <1>4. ASSUME NEW x \in Units, Sent(x)'
        PROVE  x \in complete' \/ Held(x)'
    <2>1. CASE Sent(x)
      <3>1. x \in complete \/ Held(x)
        BY <2>1 DEF Accounted
      <3>2. QED
        BY <1>3, <3>1 DEF Held
    <2>2. CASE ~Sent(x)
      BY <1>2, <1>4, <2>2 DEF Held
    <2>3. QED
      BY <2>1, <2>2
  <1>5. QED
    BY <1>4 DEF Accounted, Units

LEMMA AccountedStep ==
    ASSUME Typing, Accounted, ~Problem, ~Problem', [Next]_vars
    PROVE  Accounted'
  <1> USE DEF vars, flags, work, tally, Steps
  <1>1. WorkTyping /\ SharedTyping
    BY DEF Typing
  <1>2. ASSUME NEW w \in Workers, ReceiveTopic(w) PROVE Accounted'
    <2>1. ~(down \/ Cancelled)
      BY <1>2 DEF ReceiveTopic, Truncate, Problem
    <2>2. /\ Go(w, "take") /\ unit' = [unit EXCEPT ![w] = nextTopic]
          /\ complete' = complete /\ nextDay' = nextDay
      BY <1>2, <2>1 DEF ReceiveTopic
    <2>3. /\ pc[w] = "unit" /\ w \notin QiitaWorkers /\ nextTopic \in Nat
          /\ nextTopic' = nextTopic + 1
      BY <1>1, <1>2, JobAssumption DEF ReceiveTopic, SharedTyping
    <2>4. \A x \in Units : Sent(x)' => Sent(x) \/ x = <<nextTopic, "topic">>
      BY <2>2, <2>3, JobAssumption DEF Sent
    <2>5. QED
      BY <1>1, <2>2, <2>3, <2>4, ReceiveAccounted
  <1>3. ASSUME NEW w \in Workers, ReceiveDay(w) PROVE Accounted'
    <2>1. /\ Go(w, "page") /\ unit' = [unit EXCEPT ![w] = nextDay]
          /\ complete' = complete /\ nextTopic' = nextTopic
      BY <1>3 DEF ReceiveDay
    <2>2. /\ pc[w] = "unit" /\ w \in QiitaWorkers /\ nextDay \in Nat
          /\ nextDay' = nextDay + 1
      BY <1>1, <1>3 DEF ReceiveDay, SharedTyping
    <2>3. \A x \in Units : Sent(x)' => Sent(x) \/ x = <<nextDay, "day">>
      BY <2>1, <2>2, JobAssumption DEF Sent
    <2>4. QED
      BY <1>1, <2>1, <2>2, <2>3, ReceiveAccounted
  <1>4. ASSUME NEW w \in Workers, NextPage(w) PROVE Accounted'
    <2>1. ~(stopped \/ Cancelled)
      BY <1>4 DEF NextPage, Truncate, Problem
    <2>2. QED
      BY <1>1, <1>4, <2>1, GoOnAccounted DEF NextPage
  <1>5. ASSUME NEW w \in Workers, GiveUpCall(w) PROVE Accounted'
    BY <1>5 DEF GiveUpCall, Truncate, Problem
  <1>6. ASSUME NEW w \in Workers, Take(w) PROVE Accounted'
    BY <1>1, <1>6, GoOnAccounted DEF Take
  <1>7. ASSUME NEW w \in Workers, CallLimit(w) PROVE Accounted'
    BY <1>7 DEF CallLimit, Truncate, Problem
  <1>8. ASSUME NEW w \in Workers, Retry(w) PROVE Accounted'
    BY <1>1, <1>8, GoOnAccounted DEF Retry
  <1>9. ASSUME NEW w \in Workers, Answer(w) PROVE Accounted'
    <2>1. ASSUME NEW low \in BOOLEAN, NEW isFull \in BOOLEAN, AnswerOK(w, low, isFull)
          PROVE  Accounted'
      <3>1. complete' = complete
        BY <2>1 DEF AnswerOK, Truncate
      <3>2. QED
        BY <1>1, <2>1, <3>1, GoOnAccounted DEF AnswerOK
    <2>2. ASSUME NEW low \in BOOLEAN, AnswerTransient(w, low)
          PROVE  Accounted'
      <3>1. complete' = complete
        BY <2>2 DEF AnswerTransient, Truncate
      <3>2. QED
        BY <1>1, <2>2, <3>1, GoOnAccounted DEF AnswerTransient
    <2>3. QED
      BY <1>9, <2>1, <2>2 DEF Answer, AnswerCancelled, AnswerFailed, AnswerTooLarge,
                             Truncate, Problem
  <1>10. ASSUME NEW w \in Workers, Saved(w) PROVE Accounted'
    <2>1. CASE full[w] /\ page[w] < MaxPage
      BY <1>1, <1>10, <2>1, GoOnAccounted DEF Saved
    <2>2. CASE ~(full[w] /\ page[w] < MaxPage)
      <3>1. /\ pc' = [pc EXCEPT ![w] = "unit"] /\ unit' = [unit EXCEPT ![w] = 0]
            /\ complete' = complete \cup {Name(w)}
            /\ UNCHANGED <<nextDay, nextTopic>>
        BY <1>10, <2>2 DEF Saved, EndUnit, Go
      <3>2. pc \in [Workers -> Steps] /\ unit \in [Workers -> Nat]
        BY <1>1 DEF WorkTyping, Steps
      <3>3. ASSUME NEW v \in Workers, v # w
            PROVE  pc'[v] = pc[v] /\ Name(v)' = Name(v)
        BY <3>1, <3>2, <3>3 DEF Name
      <3>4. ASSUME NEW u \in Units, Sent(u)'
            PROVE  u \in complete' \/ Held(u)'
        <4>1. Sent(u)
          BY <3>1, <3>4 DEF Sent
        <4>2. u \in complete \/ Held(u)
          BY <4>1 DEF Accounted
        <4>3. QED
          BY <3>1, <3>3, <4>2 DEF Held
      <3>5. QED
        BY <3>4 DEF Accounted, Units
    <2>3. QED
      BY <2>1, <2>2
  <1>11. ASSUME NEW w \in Workers, SaveFails(w) PROVE Accounted'
    BY <1>11 DEF SaveFails, Cancelled, Problem
  <1>12. ASSUME NEW w \in Workers, Load(w) PROVE Accounted'
    BY <1>1, <1>12, GoOnAccounted DEF Load, Reads
  <1>13. CASE UNCHANGED <<work, complete>>
    BY <1>13 DEF Accounted, Sent, Held, Name, Units
  <1>14. CASE Finish
    BY <1>13, <1>14 DEF Finish, ListTags, Join, Retain, Message, Status
  <1>15. QED
    BY <1>2, <1>3, <1>4, <1>5, <1>6, <1>7, <1>8, <1>9, <1>10, <1>11, <1>12, <1>13, <1>14
    DEF Next, Work, End, Returned

LEMMA JoinedStep ==
    ASSUME Typing, Joined, [Next]_vars
    PROVE  Joined'
  <1> USE DEF vars, flags, work, tally
  <1>1. ASSUME NEW w \in Workers, Work(w) PROVE Joined'
    <2>1. main' = main
      <3>1. CASE Answer(w)
        BY <3>1 DEF Answer, AnswerOK, AnswerCancelled, AnswerTransient, AnswerFailed,
                    AnswerTooLarge
      <3>2. CASE ~Answer(w)
        BY <1>1, <3>2 DEF Work, ReceiveTopic, ReceiveDay, NextPage, GiveUpCall, Load,
                          Take, CallLimit, Retry, Saved, SaveFails, Reads
      <3>3. QED
        BY <3>1, <3>2
    <2>2. main = "fetch" \/ pc[w] # "unit"
      <3>1. CASE Answer(w)
        BY <3>1 DEF Answer, AnswerOK, AnswerCancelled, AnswerTransient, AnswerFailed,
                    AnswerTooLarge
      <3>2. CASE ~Answer(w)
        BY <1>1, <3>2 DEF Work, ReceiveTopic, ReceiveDay, NextPage, GiveUpCall, Load,
                          Take, CallLimit, Retry, Saved, SaveFails, Reads
      <3>3. QED
        BY <3>1, <3>2
    <2>3. QED
      BY <2>1, <2>2 DEF Joined
  <1>2. CASE Finish
    BY <1>2 DEF Finish, ListTags, Join, Retain, Message, Status, Joined
  <1>3. QED
    BY <1>1, <1>2 DEF Next, End, Returned, Joined

\* A run that counts as succeeded has fetched and saved every day and every topic to
\* its end: no interleaving of the workers loses one without a problem (job.go,
\* Execute).
THEOREM SuccessHolds == Spec => []SucceededMeansComplete
  <1>1. ASSUME Init PROVE SuccessInv
    <2>1. \A u \in Units : ~Sent(u)
      BY <1>1, JobAssumption DEF Init, Sent
    <2>2. QED
      BY <1>1, <2>1 DEF Init, SuccessInv, Accounted, Joined, SucceededMeansComplete
  <1>2. ASSUME Typing, Typing', SuccessInv, [Next]_vars
        PROVE  SuccessInv'
    <2>1. Accounted'
      BY <1>2, AccountedStep, ProblemStays DEF SuccessInv, Accounted
    <2>2. Joined'
      BY <1>2, JoinedStep DEF SuccessInv
    <2>3. SucceededMeansComplete'
      <3>1. CASE Status
        <4>1. CASE Problem
          <5>1. result' # "succeeded"
            BY <3>1, <4>1 DEF Status, AnyProblem, Problem
          <5>2. QED
            BY <5>1 DEF SucceededMeansComplete
        <4>2. CASE ~Problem
          <5>1. /\ nextDay > Days /\ nextTopic > Topics
                /\ \A w \in Workers : pc[w] = "unit"
            BY <1>2, <3>1 DEF Status, SuccessInv, Joined
          <5>2. \A u \in Units : Sent(u) /\ ~Held(u)
            BY <1>2, <5>1, JobAssumption DEF Units, Sent, Held, Typing, SharedTyping
          <5>3. Units \subseteq complete
            BY <1>2, <4>2, <5>2 DEF SuccessInv, Accounted
          <5>4. complete' = Units
            BY <1>2, <3>1, <5>3 DEF Status, tally, Typing, SharedTyping
          <5>5. QED
            BY <5>4 DEF SucceededMeansComplete, Units
        <4>3. QED
          BY <4>1, <4>2
      <3>2. CASE ~Status
        <4>1. result' = result \/ result' = "failed"
          <5>1. ASSUME NEW w \in Workers, Work(w) PROVE result' = result
            <6>1. CASE Answer(w)
              BY <6>1 DEF Answer, AnswerOK, AnswerCancelled, AnswerTransient,
                          AnswerFailed, AnswerTooLarge
            <6>2. CASE ~Answer(w)
              BY <5>1, <6>2 DEF Work, ReceiveTopic, ReceiveDay, NextPage, GiveUpCall,
                                Load, Take, CallLimit, Retry, Saved, SaveFails
            <6>3. QED
              BY <6>1, <6>2
          <5>2. QED
            BY <1>2, <3>2, <5>1
            DEF Next, Finish, ListTags, Join, Retain, Message, End, Returned, vars
        <4>2. CASE result = "succeeded"
          <5>1. Units \subseteq complete'
            BY <1>2, <4>2, ProblemStays DEF SuccessInv, SucceededMeansComplete
          <5>2. complete' \subseteq Units
            BY <1>2 DEF Typing, SharedTyping, Units
          <5>3. QED
            BY <5>1, <5>2 DEF SucceededMeansComplete, Units
        <4>3. QED
          BY <4>1, <4>2 DEF SucceededMeansComplete
      <3>3. QED
        BY <3>1, <3>2
    <2>4. QED
      BY <2>1, <2>2, <2>3 DEF SuccessInv
  <1>3. SuccessInv => SucceededMeansComplete
    BY DEF SuccessInv
  <1>4. QED
    BY <1>1, <1>2, <1>3, TypingHolds, PTL DEF Spec

-----------------------------------------------------------------------------
(* Messages *)

\* Every flag that stops the fetch from one provider was put up with a message, and
\* so was every failure; a unit is left out for such a flag, or because the context
\* is over.
Explained ==
    /\ failed \/ stopped \/ down => said
    /\ truncated => said \/ Cancelled

\* Execute has put the messages together when it decides on the status.
MessagesPut == main = "status" /\ dbFailed => said

SaidInv == Joined /\ Explained /\ MessagesPut /\ ProblemSaid

\* Nothing takes back a message, or the end of the context.
LEMMA SaidStays ==
    ASSUME Typing, [Next]_vars
    PROVE  (said => said') /\ (ended => ended') /\ (dbFailed => dbFailed')
  <1> USE DEF vars, flags, work, tally
  <1>0. said \in BOOLEAN /\ ended \in BOOLEAN /\ dbFailed \in BOOLEAN
    BY DEF Typing, SharedTyping
  <1>1. ASSUME NEW w \in Workers, Work(w)
        PROVE  (said => said') /\ (ended => ended') /\ (dbFailed => dbFailed')
    <2>1. CASE Answer(w)
      BY <1>0, <2>1 DEF Answer, AnswerOK, AnswerCancelled, AnswerTransient, AnswerFailed,
                  AnswerTooLarge, Truncate
    <2>2. CASE ReceiveTopic(w) \/ ReceiveDay(w) \/ NextPage(w) \/ GiveUpCall(w)
      BY <1>0, <2>2 DEF ReceiveTopic, ReceiveDay, NextPage, GiveUpCall, Truncate
    <2>3. CASE Load(w) \/ Take(w) \/ CallLimit(w) \/ Retry(w)
      BY <1>0, <2>3 DEF Load, Take, CallLimit, Retry, Truncate
    <2>4. CASE Saved(w)
      BY <1>0, <2>4 DEF Saved
    <2>5. CASE SaveFails(w)
      BY <1>0, <2>5 DEF SaveFails
    <2>6. QED
      BY <1>1, <2>1, <2>2, <2>3, <2>4, <2>5 DEF Work
  <1>2. CASE Finish
    BY <1>0, <1>2 DEF Finish, ListTags, Join, Retain, Message, Status
  <1>3. QED
    BY <1>1, <1>2 DEF Next, End, Returned

LEMMA ExplainedStep ==
    ASSUME Typing, Explained, [Next]_vars
    PROVE  Explained'
  <1> USE DEF vars, flags, work, tally
  <1>1. /\ said => said'
        /\ Cancelled => Cancelled'
    BY SaidStays DEF Cancelled
  \* A step that puts up no flag and leaves out no unit.
  <1>2. ASSUME UNCHANGED <<failed, stopped, down, truncated>>
        PROVE  Explained'
    BY <1>1, <1>2 DEF Explained
  \* A step with a message.
  <1>3. ASSUME said'
        PROVE  Explained'
    BY <1>3 DEF Explained
  \* A unit that is left out without one.
  <1>4. ASSUME UNCHANGED <<failed, stopped, down>>, stopped \/ down \/ Cancelled
        PROVE  Explained'
    BY <1>1, <1>4 DEF Explained
  <1>5. ASSUME NEW w \in Workers, Work(w)
        PROVE  Explained'
    <2>1. ASSUME NEW low \in BOOLEAN, NEW isFull \in BOOLEAN, AnswerOK(w, low, isFull)
          PROVE  Explained'
      <3>1. CASE Tells(w, low)
        BY <1>3, <2>1, <3>1 DEF AnswerOK, Truncate
      <3>2. CASE ~Tells(w, low)
        <4>1. UNCHANGED <<failed, down, truncated>>
          BY <2>1, <3>2 DEF AnswerOK
        <4>2. stopped' <=> stopped
          BY <2>1, <3>2 DEF AnswerOK, Warns, Tells
        <4>3. QED
          BY <1>1, <4>1, <4>2 DEF Explained
      <3>3. QED
        BY <3>1, <3>2
    <2>2. ASSUME NEW low \in BOOLEAN, AnswerCancelled(w, low)
          PROVE  Explained'
      <3>1. /\ Cancelled /\ failed' = failed /\ down' = down
            /\ Truncate(Tells(w, low)) /\ Warns(w, low)
        BY <2>2 DEF AnswerCancelled, Truncate
      <3>2. CASE Tells(w, low)
        BY <1>3, <3>1, <3>2 DEF Truncate
      <3>3. CASE ~Tells(w, low)
        <4>1. stopped' <=> stopped
          BY <3>1, <3>3 DEF Warns, Tells
        <4>2. QED
          BY <1>1, <3>1, <4>1 DEF Explained
      <3>4. QED
        BY <3>2, <3>3
    <2>3. ASSUME NEW low \in BOOLEAN, AnswerTransient(w, low)
          PROVE  Explained'
      <3>1. CASE Tells(w, low)
        BY <1>3, <2>3, <3>1 DEF AnswerTransient, Truncate
      <3>2. CASE ~Tells(w, low)
        <4>1. UNCHANGED <<failed, down, truncated>>
          BY <2>3, <3>2 DEF AnswerTransient
        <4>2. stopped' <=> stopped
          BY <2>3, <3>2 DEF AnswerTransient, Warns, Tells
        <4>3. QED
          BY <1>1, <4>1, <4>2 DEF Explained
      <3>3. QED
        BY <3>1, <3>2
    <2>4. ASSUME NEW low \in BOOLEAN, NEW limited \in BOOLEAN,
                 AnswerFailed(w, low, limited)
          PROVE  Explained'
      BY <1>3, <2>4 DEF AnswerFailed
    <2>5. ASSUME NEW low \in BOOLEAN, AnswerTooLarge(w, low)
          PROVE  Explained'
      BY <1>3, <2>5 DEF AnswerTooLarge
    <2>6. CASE ReceiveTopic(w)
      <3>1. CASE down \/ Cancelled
        BY <1>4, <2>6, <3>1 DEF ReceiveTopic, Truncate
      <3>2. CASE ~(down \/ Cancelled)
        BY <1>2, <2>6, <3>2 DEF ReceiveTopic
      <3>3. QED
        BY <3>1, <3>2
    <2>7. CASE NextPage(w)
      <3>1. CASE stopped \/ Cancelled
        BY <1>4, <2>7, <3>1 DEF NextPage, Truncate
      <3>2. CASE ~(stopped \/ Cancelled)
        BY <1>2, <2>7, <3>2 DEF NextPage
      <3>3. QED
        BY <3>1, <3>2
    <2>8. CASE GiveUpCall(w)
      BY <1>4, <2>8 DEF GiveUpCall, Truncate
    <2>9. CASE CallLimit(w)
      BY <1>3, <2>9 DEF CallLimit, Truncate
    <2>10. CASE ReceiveDay(w) \/ Load(w) \/ Take(w) \/ Retry(w)
      BY <1>2, <2>10 DEF ReceiveDay, Load, Take, Retry
    <2>11. CASE Saved(w) \/ SaveFails(w)
      BY <1>2, <2>11 DEF Saved, SaveFails
    <2>12. QED
      BY <1>5, <2>1, <2>2, <2>3, <2>4, <2>5, <2>6, <2>7, <2>8, <2>9, <2>10, <2>11
      DEF Work, Answer
  <1>6. CASE Finish
    BY <1>2, <1>6 DEF Finish, ListTags, Join, Retain, Message, Status
  <1>7. QED
    BY <1>2, <1>5, <1>6 DEF Next, End, Returned

\* The end of the transactions is over when the workers are joined.
LEMMA MessagesPutStep ==
    ASSUME Typing, Joined, MessagesPut, [Next]_vars
    PROVE  MessagesPut'
  <1> USE DEF vars, flags, work, tally
  <1>1. CASE Message
    BY <1>1 DEF Message, MessagesPut
  <1>2. ASSUME NEW w \in Workers, SaveFails(w)
        PROVE  MessagesPut'
    BY <1>2 DEF SaveFails, Joined, MessagesPut
  <1>3. ASSUME ~Message, \A w \in Workers : ~SaveFails(w)
        PROVE  dbFailed' = dbFailed /\ (main' = "status" => main = "status")
    <2>1. ASSUME NEW w \in Workers, Work(w)
          PROVE  dbFailed' = dbFailed /\ main' = main
      <3>1. CASE Answer(w)
        BY <3>1 DEF Answer, AnswerOK, AnswerCancelled, AnswerTransient, AnswerFailed,
                    AnswerTooLarge
      <3>2. CASE ~Answer(w)
        BY <1>3, <2>1, <3>2
        DEF Work, ReceiveTopic, ReceiveDay, NextPage, GiveUpCall, Load, Take,
            CallLimit, Retry, Saved
      <3>3. QED
        BY <3>1, <3>2
    <2>2. CASE Finish
      BY <1>3, <2>2 DEF Finish, ListTags, Join, Retain, Status
    <2>3. QED
      BY <2>1, <2>2 DEF Next, End, Returned
  <1>4. QED
    BY <1>1, <1>2, <1>3, SaidStays DEF MessagesPut

\* Whatever the workers run into, in whatever order: a run that ends as partial or
\* failed has a message of what stopped it, unless its context ended after the
\* messages were put together (job.go, Execute and addMessageLocked).
THEOREM SaidHolds == Spec => []ProblemSaid
  <1>1. ASSUME Init PROVE SaidInv
    BY <1>1 DEF Init, SaidInv, Joined, Explained, MessagesPut, ProblemSaid
  <1>2. ASSUME Typing, Typing', SaidInv, [Next]_vars
        PROVE  SaidInv'
    <2>1. Joined' /\ Explained' /\ MessagesPut'
      BY <1>2, JoinedStep, ExplainedStep, MessagesPutStep DEF SaidInv
    <2>2. ProblemSaid'
      <3>1. CASE Status
        <4>1. dbFailed \/ failed \/ truncated => said \/ ended
          BY <1>2, <3>1
          DEF SaidInv, Explained, MessagesPut, Cancelled, Status
        <4>2. said' = said /\ ended' = ended
          BY <3>1 DEF Status, flags, tally
        <4>3. CASE dbFailed \/ failed \/ truncated \/ ended
          BY <4>1, <4>2, <4>3 DEF ProblemSaid
        <4>4. CASE ~(dbFailed \/ failed \/ truncated \/ ended)
          BY <3>1, <4>4 DEF Status, AnyProblem, ProblemSaid
        <4>5. QED
          BY <4>3, <4>4
      <3>2. CASE ListTags
        BY <1>2, <3>2, SaidStays DEF ListTags, SaidInv, ProblemSaid
      <3>3. CASE ~Status /\ ~ListTags
        <4>1. result' = result
          <5>1. ASSUME NEW w \in Workers, Work(w) PROVE result' = result
            <6>1. CASE Answer(w)
              BY <6>1 DEF Answer, AnswerOK, AnswerCancelled, AnswerTransient,
                          AnswerFailed, AnswerTooLarge
            <6>2. CASE ~Answer(w)
              BY <5>1, <6>2 DEF Work, ReceiveTopic, ReceiveDay, NextPage, GiveUpCall,
                                Load, Take, CallLimit, Retry, Saved, SaveFails
            <6>3. QED
              BY <6>1, <6>2
          <5>2. QED
            BY <1>2, <3>3, <5>1
            DEF Next, Finish, Join, Retain, Message, End, Returned, vars
        <4>2. QED
          BY <1>2, <4>1, SaidStays DEF SaidInv, ProblemSaid
      <3>4. QED
        BY <3>1, <3>2, <3>3
    <2>3. QED
      BY <2>1, <2>2 DEF SaidInv
  <1>3. SaidInv => ProblemSaid
    BY DEF SaidInv
  <1>4. QED
    BY <1>1, <1>2, <1>3, TypingHolds, PTL DEF Spec
-----------------------------------------------------------------------------
(* That a run comes to an end *)

\* How far a worker is with a page, and how far Execute is.
Stage == [unit |-> 0, page |-> 0, backoff |-> 1, take |-> 2, swap |-> 3,
          answer |-> 4, save |-> 5]
Phase == [tags |-> 0, fetch |-> 1, retain |-> 2, message |-> 3, status |-> 4, done |-> 5]

Ahead(w) ==
    \/ page'[w] > page[w]
    \/ page'[w] = page[w] /\ retries'[w] > retries[w]
    \/ page'[w] = page[w] /\ retries'[w] = retries[w] /\ Stage[pc'[w]] > Stage[pc[w]]
    \/ /\ page'[w] = page[w] /\ retries'[w] = retries[w] /\ pc'[w] = pc[w]
       /\ cur'[w] > cur[w]

Sends == nextDay' + nextTopic' > nextDay + nextTopic

\* What w has done is not done again: it gets a unit that was just sent, comes nearer to
\* the end of its unit, or ends it.
Advances(w) ==
    \/ unit[w] = 0 /\ unit'[w] # 0 /\ Sends
    \/ unit[w] # 0 /\ unit'[w] \in {0, unit[w]} /\ (unit'[w] = 0 \/ Ahead(w))

Keeps(w) ==
    /\ pc'[w] = pc[w] /\ unit'[w] = unit[w] /\ page'[w] = page[w]
    /\ retries'[w] = retries[w] /\ cur'[w] = cur[w]

\* No step repeats work, whatever the answers are, timeouts, pages that are too large or
\* warnings in any order: each one takes Execute onward, sends a unit, ends the context or
\* lets a worker advance, and none takes any of this back.  All of it is bounded, so a
\* run has finitely many steps (job.go, qiitaDay; retry.go, caller.do).
WorkShrinks ==
    [][/\ Phase[main'] >= Phase[main] /\ (ended => ended')
       /\ nextDay' >= nextDay /\ nextTopic' >= nextTopic
       /\ \A w \in Workers : Keeps(w) \/ Advances(w)
       /\ \/ Phase[main'] > Phase[main] \/ ended' # ended \/ Sends
          \/ \E w \in Workers : Advances(w)]_vars

\* What a step lets a worker do: end its unit, go on with it, or get one.
OthersRead(w) == \A v \in Workers \ {w} : cur'[v] = cur[v]

EndsUnit(w) == pc[w] # "unit" /\ EndUnit(w) /\ OthersRead(w)

GoesOn(w) ==
    /\ pc[w] # "unit" /\ unit' = unit
    /\ \E to \in Steps \ {"unit"} : Go(w, to)
    /\ \A v \in Workers \ {w} : page'[v] = page[v] /\ retries'[v] = retries[v]
    /\ OthersRead(w)
    /\ Ahead(w)

GetsUnit(w) ==
    /\ pc[w] = "unit" /\ Sends
    /\ \E u \in Nat \ {0} : unit' = [unit EXCEPT ![w] = u]
    /\ \E to \in Steps \ {"unit"} : Go(w, to)
    /\ UNCHANGED <<page, retries, cur>>

\* The unit is left out.
LeavesOut == Sends /\ UNCHANGED <<pc, unit, page, retries, cur>>

\* Whoever goes on with a page is ahead of where it was.
LEMMA StageAhead ==
    ASSUME WorkTyping, NEW w \in Workers, NEW to \in Steps \ {"unit"}, Go(w, to),
           page' = page
    PROVE  /\ retries' = retries /\ Stage[to] > Stage[pc[w]] => Ahead(w)
           /\ retries' = [retries EXCEPT ![w] = @ + 1] => Ahead(w)
  <1>1. pc'[w] = to
    BY DEF Go, WorkTyping
  <1>2. retries[w] \in Nat
    BY JobAssumption DEF WorkTyping
  <1>3. retries' = [retries EXCEPT ![w] = @ + 1] => retries'[w] > retries[w]
    BY <1>2 DEF WorkTyping
  <1>4. QED
    BY <1>1, <1>3 DEF Ahead

\* And so is whoever begins another one.
LEMMA PageAhead ==
    ASSUME WorkTyping, NEW w \in Workers, page' = [page EXCEPT ![w] = @ + 1]
    PROVE  Ahead(w)
  <1>1. page[w] \in Nat
    BY JobAssumption DEF WorkTyping
  <1>2. page'[w] > page[w]
    BY <1>1 DEF WorkTyping
  <1>3. QED
    BY <1>2 DEF Ahead

LEMMA AnswerSteps ==
    ASSUME WorkTyping, NEW w \in Workers, Answer(w)
    PROVE  EndsUnit(w) \/ GoesOn(w)
  <1> USE DEF Steps
  <1>0. OthersRead(w)
    BY DEF Answer, AnswerOK, AnswerCancelled, AnswerTransient, AnswerFailed, AnswerTooLarge,
           OthersRead
  <1>1. PICK low \in BOOLEAN :
            \/ \E isFull \in BOOLEAN : AnswerOK(w, low, isFull)
            \/ AnswerCancelled(w, low)
            \/ AnswerTransient(w, low)
            \/ \E limited \in BOOLEAN : AnswerFailed(w, low, limited)
            \/ AnswerTooLarge(w, low)
    BY DEF Answer
  <1>2. ASSUME NEW isFull \in BOOLEAN, AnswerOK(w, low, isFull)
        PROVE  GoesOn(w)
    <2>1. /\ pc[w] = "answer" /\ Go(w, "save")
          /\ UNCHANGED <<unit, page, retries>>
      BY <1>2 DEF AnswerOK
    <2>2. Ahead(w)
      BY <2>1, StageAhead DEF Stage
    <2>3. QED
      BY <1>0, <2>1, <2>2 DEF GoesOn
  <1>3. CASE AnswerCancelled(w, low)
    BY <1>0, <1>3 DEF AnswerCancelled, EndsUnit
  <1>4. CASE AnswerTransient(w, low)
    <2>1. /\ pc[w] = "answer" /\ Go(w, "backoff")
          /\ retries' = [retries EXCEPT ![w] = @ + 1]
          /\ UNCHANGED <<unit, page>>
      BY <1>4 DEF AnswerTransient
    <2>2. Ahead(w)
      BY <2>1, StageAhead
    <2>3. \A v \in Workers \ {w} : retries'[v] = retries[v]
      BY <2>1 DEF WorkTyping
    <2>4. QED
      BY <1>0, <2>1, <2>2, <2>3 DEF GoesOn
  <1>5. ASSUME NEW limited \in BOOLEAN, AnswerFailed(w, low, limited)
        PROVE  EndsUnit(w)
    BY <1>0, <1>5 DEF AnswerFailed, EndsUnit
  <1>6. CASE AnswerTooLarge(w, low)
    <2>1. pc[w] = "answer"
      BY <1>6 DEF AnswerTooLarge
    <2>2. CASE page[w] = MaxPage
      BY <1>0, <1>6, <2>1, <2>2 DEF AnswerTooLarge, EndsUnit
    <2>3. CASE page[w] # MaxPage
      <3>1. /\ Go(w, "page") /\ unit' = unit
            /\ page' = [page EXCEPT ![w] = @ + 1]
            /\ retries' = [retries EXCEPT ![w] = 0]
        BY <1>6, <2>3 DEF AnswerTooLarge
      <3>2. \A v \in Workers \ {w} : page'[v] = page[v] /\ retries'[v] = retries[v]
        BY <3>1 DEF WorkTyping
      <3>3. QED
        BY <1>0, <2>1, <3>1, <3>2, PageAhead DEF GoesOn
    <2>4. QED
      BY <2>2, <2>3
  <1>7. QED
    BY <1>1, <1>2, <1>3, <1>4, <1>5, <1>6

LEMMA WorkSteps ==
    ASSUME Typing, Compared, NEW w \in Workers, Work(w)
    PROVE  EndsUnit(w) \/ GoesOn(w) \/ GetsUnit(w) \/ LeavesOut
  <1> USE DEF Steps, flags
  <1>0. WorkTyping /\ nextDay \in Nat \ {0} /\ nextTopic \in Nat \ {0}
    BY JobAssumption DEF Typing, SharedTyping
  <1>others. OthersRead(w)
    <2>1. CASE Load(w) \/ Take(w) \/ CallLimit(w)
      <3>1. \E n \in Nat : cur' = [cur EXCEPT ![w] = n]
        BY <2>1 DEF Load, Take, CallLimit, Typing, SharedTyping
      <3>2. QED
        BY <3>1 DEF OthersRead, Typing, SharedTyping
    <2>2. CASE Answer(w)
      BY <2>2 DEF Answer, AnswerOK, AnswerCancelled, AnswerTransient, AnswerFailed,
                  AnswerTooLarge, OthersRead
    <2>3. CASE ~Answer(w) /\ ~Load(w) /\ ~Take(w) /\ ~CallLimit(w)
      <3>1. cur' = cur
        BY <2>3 DEF Work, ReceiveTopic, ReceiveDay, NextPage, GiveUpCall, Retry, Saved,
                    SaveFails
      <3>2. QED
        BY <3>1 DEF OthersRead
    <2>4. QED
      BY <2>1, <2>2, <2>3
  <1>1. CASE ReceiveTopic(w)
    <2>1. /\ pc[w] = "unit" /\ nextTopic' = nextTopic + 1 /\ nextDay' = nextDay
          /\ UNCHANGED <<page, retries, cur>>
      BY <1>1 DEF ReceiveTopic
    <2>2. Sends
      BY <1>0, <2>1 DEF Sends
    <2>3. CASE down \/ Cancelled
      BY <1>1, <2>1, <2>2, <2>3 DEF ReceiveTopic, LeavesOut
    <2>4. CASE ~(down \/ Cancelled)
      <3>1. Go(w, "take") /\ unit' = [unit EXCEPT ![w] = nextTopic]
        BY <1>1, <2>4 DEF ReceiveTopic
      <3>2. QED
        BY <1>0, <2>1, <2>2, <3>1 DEF GetsUnit
    <2>5. QED
      BY <2>3, <2>4
  <1>2. CASE ReceiveDay(w)
    <2>1. /\ pc[w] = "unit" /\ nextDay' = nextDay + 1 /\ nextTopic' = nextTopic
          /\ Go(w, "page") /\ unit' = [unit EXCEPT ![w] = nextDay]
          /\ UNCHANGED <<page, retries, cur>>
      BY <1>2 DEF ReceiveDay
    <2>2. Sends
      BY <1>0, <2>1 DEF Sends
    <2>3. QED
      BY <1>0, <2>1, <2>2 DEF GetsUnit
  <1>3. CASE NextPage(w)
    <2>1. pc[w] = "page"
      BY <1>3 DEF NextPage
    <2>2. CASE stopped \/ Cancelled
      BY <1>others, <1>3, <2>1, <2>2 DEF NextPage, EndsUnit
    <2>3. CASE ~(stopped \/ Cancelled)
      <3>1. Go(w, "take") /\ UNCHANGED <<unit, page, retries>>
        BY <1>3, <2>3 DEF NextPage
      <3>2. Ahead(w)
        BY <1>0, <2>1, <3>1, StageAhead DEF Stage
      <3>3. QED
        BY <1>others, <2>1, <3>1, <3>2 DEF GoesOn
    <2>4. QED
      BY <2>2, <2>3
  <1>4. CASE GiveUpCall(w)
    BY <1>others, <1>4 DEF GiveUpCall, EndsUnit
  <1>5. CASE Take(w)
    <2>1. /\ pc[w] \in {"take", "swap"} /\ Go(w, "answer")
          /\ UNCHANGED <<unit, page, retries>>
      BY <1>5 DEF Take
    <2>2. Ahead(w)
      BY <1>0, <2>1, StageAhead DEF Stage
    <2>3. QED
      BY <1>others, <2>1, <2>2 DEF GoesOn
  <1>6. CASE CallLimit(w)
    BY <1>others, <1>6 DEF CallLimit, Reads, EndsUnit
  <1>7. CASE Retry(w)
    <2>1. pc[w] = "backoff" /\ Go(w, "take") /\ UNCHANGED <<unit, page, retries>>
      BY <1>7 DEF Retry
    <2>2. Ahead(w)
      BY <1>0, <2>1, StageAhead DEF Stage
    <2>3. QED
      BY <1>others, <2>1, <2>2 DEF GoesOn
  <1>8. CASE Answer(w)
    BY <1>0, <1>8, AnswerSteps
  <1>9. CASE Saved(w)
    <2>1. pc[w] = "save"
      BY <1>9 DEF Saved
    <2>2. CASE full[w] /\ page[w] < MaxPage
      <3>1. /\ Go(w, "page") /\ unit' = unit
            /\ page' = [page EXCEPT ![w] = @ + 1]
            /\ retries' = [retries EXCEPT ![w] = 0]
        BY <1>9, <2>2 DEF Saved
      <3>2. \A v \in Workers \ {w} : page'[v] = page[v] /\ retries'[v] = retries[v]
        BY <1>0, <3>1 DEF WorkTyping
      <3>3. QED
        BY <1>others, <1>0, <2>1, <3>1, <3>2, PageAhead DEF GoesOn
    <2>3. CASE ~(full[w] /\ page[w] < MaxPage)
      BY <1>others, <1>9, <2>1, <2>3 DEF Saved, EndsUnit
    <2>4. QED
      BY <2>2, <2>3
  <1>10. CASE SaveFails(w)
    BY <1>others, <1>10 DEF SaveFails, EndsUnit
  <1>11. CASE Load(w)
    <2>1. Go(w, "swap") /\ UNCHANGED <<unit, page, retries>>
      BY <1>11 DEF Load
    <2>2. CASE pc[w] = "take"
      <3>1. Ahead(w)
        BY <1>0, <2>1, <2>2, StageAhead DEF Stage
      <3>2. QED
        BY <1>others, <2>1, <2>2, <3>1 DEF GoesOn
    \* The counter has been raised since w read it.
    <2>3. CASE pc[w] = "swap" /\ calls # cur[w]
      <3>1. cur' = [cur EXCEPT ![w] = calls] /\ cur[w] \in Nat /\ calls \in Nat
        BY <1>11 DEF Load, Typing, SharedTyping
      <3>2. cur[w] <= calls
        BY DEF Compared
      <3>3. cur'[w] > cur[w]
        BY <2>3, <3>1, <3>2 DEF Typing, SharedTyping
      <3>4. pc'[w] = pc[w]
        BY <1>0, <2>1, <2>3 DEF Go, WorkTyping
      <3>5. Ahead(w)
        BY <2>1, <3>3, <3>4 DEF Ahead
      <3>6. QED
        BY <1>others, <2>1, <2>3, <3>5 DEF GoesOn
    <2>4. QED
      BY <1>11, <2>2, <2>3 DEF Load, Reads
  <1>12. QED
    BY <1>1, <1>2, <1>3, <1>4, <1>5, <1>6, <1>7, <1>8, <1>9, <1>10, <1>11 DEF Work

\* The step of one worker takes none of the others back.
LEMMA WorkersAdvance ==
    ASSUME WorkTyping, NEW w \in Workers,
           EndsUnit(w) \/ GoesOn(w) \/ GetsUnit(w) \/ LeavesOut
    PROVE  /\ \A v \in Workers : Keeps(v) \/ Advances(v)
           /\ Sends \/ Advances(w)
  <1> USE DEF Steps
  <1>0. /\ pc \in [Workers -> Steps] /\ unit \in [Workers -> Nat]
        /\ page \in [Workers -> 1..MaxPage] /\ retries \in [Workers -> 0..MaxRetries]
        /\ pc[w] = "unit" <=> unit[w] = 0
    BY DEF WorkTyping
  <1>1. CASE EndsUnit(w)
    <2>1. /\ pc' = [pc EXCEPT ![w] = "unit"] /\ unit' = [unit EXCEPT ![w] = 0]
          /\ page' = [page EXCEPT ![w] = 1] /\ retries' = [retries EXCEPT ![w] = 0]
          /\ pc[w] # "unit"
      BY <1>1 DEF EndsUnit, EndUnit, Go
    <2>2. unit[w] # 0 /\ unit'[w] = 0
      BY <1>0, <2>1
    <2>3. \A v \in Workers : v # w => Keeps(v)
      BY <1>0, <1>1, <2>1 DEF EndsUnit, OthersRead, Keeps
    <2>4. QED
      BY <2>2, <2>3 DEF Advances
  <1>2. CASE GoesOn(w)
    <2>1. PICK to \in Steps : pc' = [pc EXCEPT ![w] = to]
      BY <1>2 DEF GoesOn, Go
    <2>2. \A v \in Workers : v # w => pc'[v] = pc[v]
      BY <1>0, <2>1
    <2>3. \A v \in Workers : v # w => Keeps(v)
      BY <1>2, <2>2 DEF GoesOn, OthersRead, Keeps
    <2>4. Advances(w)
      BY <1>0, <1>2 DEF GoesOn, Advances
    <2>5. QED
      BY <2>3, <2>4
  <1>3. CASE GetsUnit(w)
    <2>1. PICK to \in Steps, u \in Nat \ {0} :
              pc' = [pc EXCEPT ![w] = to] /\ unit' = [unit EXCEPT ![w] = u]
      BY <1>3 DEF GetsUnit, Go
    <2>2. \A v \in Workers : v # w => Keeps(v)
      BY <1>0, <1>3, <2>1 DEF GetsUnit, Keeps
    <2>3. unit[w] = 0 /\ unit'[w] # 0
      BY <1>0, <1>3, <2>1 DEF GetsUnit
    <2>4. Advances(w) /\ Sends
      BY <1>3, <2>3 DEF GetsUnit, Advances
    <2>5. QED
      BY <2>2, <2>4
  <1>4. CASE LeavesOut
    BY <1>4 DEF LeavesOut, Keeps
  <1>5. QED
    BY <1>1, <1>2, <1>3, <1>4

\* Nothing but Execute takes it onward, and nothing takes back what was sent.
LEMMA SharedAdvance ==
    ASSUME Typing, [Next]_vars
    PROVE  /\ Phase[main'] >= Phase[main] /\ (ended => ended')
           /\ nextDay' >= nextDay /\ nextTopic' >= nextTopic
           /\ Finish => Phase[main'] > Phase[main] /\ UNCHANGED work
  <1> USE DEF vars, flags, work, tally
  <1>0. /\ main \in {"tags", "fetch", "retain", "message", "status", "done"}
        /\ nextDay \in Nat /\ nextTopic \in Nat
        /\ Phase[main] \in Nat
    BY JobAssumption DEF Typing, SharedTyping, Phase
  <1>1. ASSUME NEW w \in Workers, Work(w)
        PROVE  /\ main' = main /\ ended' = ended
               /\ nextDay' \in {nextDay, nextDay + 1}
               /\ nextTopic' \in {nextTopic, nextTopic + 1}
    <2>1. CASE Answer(w)
      BY <2>1 DEF Answer, AnswerOK, AnswerCancelled, AnswerTransient, AnswerFailed,
                  AnswerTooLarge
    <2>2. CASE ~Answer(w)
      BY <1>1, <2>2 DEF Work, ReceiveTopic, ReceiveDay, NextPage, GiveUpCall, Load,
                        Take, CallLimit, Retry, Saved, SaveFails
    <2>3. QED
      BY <2>1, <2>2
  <1>2. ASSUME Finish
        PROVE  /\ Phase[main'] > Phase[main] /\ Phase[main'] \in Nat
               /\ ended' = ended /\ UNCHANGED work
    <2>1. CASE ListTags
      BY <2>1 DEF ListTags, Phase
    <2>2. CASE Join
      BY <2>2 DEF Join, Phase
    <2>3. CASE Retain
      BY <2>3 DEF Retain, Phase
    <2>4. CASE Message
      BY <2>4 DEF Message, Phase
    <2>5. CASE Status
      BY <2>5 DEF Status, Phase
    <2>6. QED
      BY <1>2, <2>1, <2>2, <2>3, <2>4, <2>5 DEF Finish
  <1>3. /\ Phase[main'] >= Phase[main] /\ (ended => ended')
        /\ nextDay' >= nextDay /\ nextTopic' >= nextTopic
    <2>1. CASE \E w \in Workers : Work(w)
      BY <1>0, <1>1, <2>1
    <2>2. CASE Finish
      BY <1>0, <1>2, <2>2
    <2>3. CASE End
      BY <1>0, <2>3 DEF End
    <2>4. CASE UNCHANGED vars
      BY <1>0, <2>4
    <2>5. QED
      BY <2>1, <2>2, <2>3, <2>4 DEF Next, Returned
  <1>4. QED
    BY <1>2, <1>3

\* No step of a run repeats work, for any number of workers, days, topics, pages and
\* retries: the step of a worker ends its unit or brings it nearer to its end, and units
\* are sent only once.  So a run cannot go on for ever, whatever answers it gets
\* (job.go, qiitaDay; retry.go, caller.do).
THEOREM WorkShrinksHolds == Spec => WorkShrinks
  <1>1. ASSUME Typing, Compared, [Next]_vars, vars' # vars
        PROVE  /\ \A w \in Workers : Keeps(w) \/ Advances(w)
               /\ \/ Phase[main'] > Phase[main] \/ ended' # ended \/ Sends
                  \/ \E w \in Workers : Advances(w)
    <2>1. ASSUME NEW w \in Workers, Work(w)
          PROVE  /\ \A v \in Workers : Keeps(v) \/ Advances(v)
                 /\ Sends \/ \E v \in Workers : Advances(v)
      <3>1. EndsUnit(w) \/ GoesOn(w) \/ GetsUnit(w) \/ LeavesOut
        BY <1>1, <2>1, WorkSteps
      <3>2. WorkTyping
        BY <1>1 DEF Typing
      <3>3. QED
        BY <3>1, <3>2, WorkersAdvance
    <2>2. CASE Finish
      <3>1. cur' = cur
        BY <2>2 DEF Finish, ListTags, Join, Retain, Message, Status, flags
      <3>2. QED
        BY <1>1, <2>2, <3>1, SharedAdvance DEF work, Keeps
    <2>3. CASE End
      BY <2>3 DEF End, work, Keeps
    <2>4. QED
      BY <1>1, <2>1, <2>2, <2>3 DEF Next, Returned
  <1>2. Typing /\ Compared /\ [Next]_vars =>
            [/\ Phase[main'] >= Phase[main] /\ (ended => ended')
             /\ nextDay' >= nextDay /\ nextTopic' >= nextTopic
             /\ \A w \in Workers : Keeps(w) \/ Advances(w)
             /\ \/ Phase[main'] > Phase[main] \/ ended' # ended \/ Sends
                \/ \E w \in Workers : Advances(w)]_vars
    BY <1>1, SharedAdvance
  <1>3. QED
    BY <1>2, TypingHolds, ComparedHolds, PTL DEF Spec, WorkShrinks
=============================================================================
