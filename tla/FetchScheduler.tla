--------------------------- MODULE FetchScheduler ----------------------------
(***************************************************************************)
(* The scheduled article fetch: every API instance runs a Scheduler, and   *)
(* the instances share an advisory lock of PostgreSQL and the table        *)
(* fetch_runs (server/internal/articlefetch/scheduler.go, schedule.go;     *)
(* server/internal/store/articles.go; cmd/api/main.go).                    *)
(*                                                                         *)
(* Each action is one call of Scheduler.step that leaves the process, with *)
(* the code up to the next one.  A call may fail after the database has    *)
(* done its part; an instance may be stopped, or crash, between any two.   *)
(* All instances read the same clock, which does not run backwards.        *)
(***************************************************************************)
EXTENDS Naturals, Sequences, FiniteSetsExt

CONSTANTS
    Instances,   \* the API processes with ARTICLE_FETCH_ENABLED
    Free,        \* nobody holds the lock
    Orphan,      \* a connection without a process holds the lock
    Fragile,     \* <<i, step>>: the connection of i with the lock may break in that step
    DayLength,   \* ticks in a day
    SlotTimes,   \* the times of day at which a fetch is due (slotTimes)
    MaxAttempts, \* maxAttempts
    FirstDelay,  \* retryDelay(1)
    LaterDelay,  \* retryDelay(2)
    RunTimeout,  \* RunTimeout, in ticks: how long Execute takes at most
    Start,       \* the time at which the history begins, after the first day
    MaxTime      \* bound of the clock, for model checking

ASSUME SchedulerAssumption ==
    /\ Free \notin Instances /\ Orphan \notin Instances /\ Free # Orphan
    /\ DayLength \in Nat \ {0}
    /\ SlotTimes \subseteq 0..(DayLength - 1) /\ SlotTimes # {}
    /\ MaxAttempts \in Nat \ {0}
    /\ FirstDelay \in Nat \ {0} /\ LaterDelay \in Nat \ {0}
    /\ RunTimeout \in Nat \ {0}
    /\ Start \in Nat /\ Start >= DayLength
    /\ MaxTime \in Nat

VARIABLES
    now,        \* the clock
    lock,       \* who holds the advisory lock
    runs,       \* the rows of fetch_runs in the order of their ids
    pc,         \* pc[i]: the call that instance i makes next
    stopping,   \* stopping[i]: the context of i's scheduler is cancelled
    slot,       \* slot[i]: the slot that process works for
    at,         \* at[i]: the clock as step has read it, or when Execute was called
    attempt,    \* attempt[i]: decision.attempt
    run,        \* run[i]: the id of the row that i's StartRun inserted; 0 when unset
    wake        \* wake[i]: retryAt, or the time i sleeps until; 0 when unset

local == <<pc, stopping, slot, at, attempt, run, wake>>
vars  == <<now, lock, runs, local>>

InStep == {"abandon", "read", "start", "execute", "finish", "unlock"}
PC     == {"down", "waitSlot", "waitRetry", "lock"} \cup InStep

Outcomes == {"succeeded", "partial", "failed"}

Row == [slot : Nat, attempt : 1..MaxAttempts, status : Outcomes \cup {"running"},
        started : Nat, finished : Nat]

TypeOK ==
    /\ now \in Nat
    /\ lock \in Instances \cup {Free, Orphan}
    /\ runs \in Seq(Row)
    /\ pc \in [Instances -> PC]
    /\ stopping \in [Instances -> BOOLEAN]
    /\ slot \in [Instances -> Nat]
    /\ at \in [Instances -> Nat]
    /\ attempt \in [Instances -> 0..MaxAttempts]
    /\ run \in [Instances -> 0..Len(runs)]
    /\ wake \in [Instances -> Nat]

Init ==
    /\ now = Start
    /\ lock = Free
    /\ runs = <<>>
    /\ pc = [i \in Instances |-> "down"]
    /\ stopping = [i \in Instances |-> FALSE]
    /\ slot = [i \in Instances |-> 0]
    /\ at = [i \in Instances |-> 0]
    /\ attempt = [i \in Instances |-> 0]
    /\ run = [i \in Instances |-> 0]
    /\ wake = [i \in Instances |-> 0]

-----------------------------------------------------------------------------
(* schedule.go *)

\* slotOn: the slot at time of day s of the day of t.
SlotOn(t, s) == t - (t % DayLength) + s

LatestSlot(t) ==
    LET today == {s \in SlotTimes : SlotOn(t, s) <= t}
    IN  IF today # {} THEN SlotOn(t, Max(today))
                      ELSE SlotOn(t - DayLength, Max(SlotTimes))

NextSlot(t) ==
    LET today == {s \in SlotTimes : SlotOn(t, s) > t}
    IN  IF today # {} THEN SlotOn(t, Min(today))
                      ELSE SlotOn(t + DayLength, Min(SlotTimes))

RetryDelay(n) == IF n <= 1 THEN FirstDelay ELSE LaterDelay

-----------------------------------------------------------------------------
(* decide, over the rows that RunsForSlot returns *)

RowsOf(s) == {n \in DOMAIN runs : runs[n].slot = s}

LastAttempt(s) == Max({0} \cup {runs[n].attempt : n \in RowsOf(s)})

\* ORDER BY started_at DESC, id DESC
Newest(s) ==
    CHOOSE n \in RowsOf(s) : \A m \in RowsOf(s) :
        \/ runs[m].started < runs[n].started
        \/ runs[m].started = runs[n].started /\ m <= n

Skips(s) ==
    \/ \E n \in RowsOf(s) : runs[n].status \in {"succeeded", "partial", "running"}
    \/ LastAttempt(s) >= MaxAttempts

\* Mutant: the delay is counted from the time of the decision.
NotBeforeNow(s, t) == t

NotBefore(s, t) ==
    IF RowsOf(s) = {} THEN t
    ELSE LET last == runs[Newest(s)].finished
         IN  (IF last = 0 THEN t ELSE last) + RetryDelay(LastAttempt(s))

-----------------------------------------------------------------------------
(* Run and process between two steps *)

\* The variables of step end with it.
ForgetStep(i) ==
    /\ at' = [at EXCEPT ![i] = 0]
    /\ attempt' = [attempt EXCEPT ![i] = 0]
    /\ run' = [run EXCEPT ![i] = 0]

\* Mutant: Run does not look at its context before it sleeps and goes on.
LeaveNever(i) ==
    /\ pc' = [pc EXCEPT ![i] = "waitSlot"]
    /\ wake' = [wake EXCEPT ![i] = NextSlot(now)]
    /\ slot' = [slot EXCEPT ![i] = 0]
    /\ ForgetStep(i)
    /\ UNCHANGED stopping

\* process has returned: Run sleeps until the next slot, unless it was stopped.
Leave(i) ==
    /\ pc' = [pc EXCEPT ![i] = IF stopping[i] THEN "down" ELSE "waitSlot"]
    /\ wake' = [wake EXCEPT ![i] = IF stopping[i] THEN 0 ELSE NextSlot(now)]
    /\ stopping' = [stopping EXCEPT ![i] = FALSE]
    /\ slot' = [slot EXCEPT ![i] = 0]
    /\ ForgetStep(i)

\* main starts Run, which looks for a slot that was missed.
Boot(i) ==
    /\ pc[i] = "down"
    /\ pc' = [pc EXCEPT ![i] = "lock"]
    /\ slot' = [slot EXCEPT ![i] = LatestSlot(now)]
    /\ UNCHANGED <<now, lock, runs, stopping, at, attempt, run, wake>>

\* However many slots have passed, only the latest is fetched.
WakeForSlot(i) ==
    /\ pc[i] = "waitSlot" /\ ~stopping[i] /\ now >= wake[i]
    /\ pc' = [pc EXCEPT ![i] = "lock"]
    /\ slot' = [slot EXCEPT ![i] = LatestSlot(now)]
    /\ wake' = [wake EXCEPT ![i] = 0]
    /\ UNCHANGED <<now, lock, runs, stopping, at, attempt, run>>

WakeForRetry(i) ==
    /\ pc[i] = "waitRetry" /\ ~stopping[i] /\ now >= wake[i]
    /\ pc' = [pc EXCEPT ![i] = "lock"]
    /\ wake' = [wake EXCEPT ![i] = 0]
    /\ UNCHANGED <<now, lock, runs, stopping, slot, at, attempt, run>>

\* SIGTERM cancels the context of the scheduler.
Stop(i) ==
    /\ pc[i] # "down" /\ ~stopping[i]
    /\ stopping' = [stopping EXCEPT ![i] = TRUE]
    /\ UNCHANGED <<now, lock, runs, pc, slot, at, attempt, run, wake>>

\* sleepUntil returns false: the scheduler ends.
Quit(i) ==
    /\ pc[i] \in {"waitSlot", "waitRetry"} /\ stopping[i]
    /\ Leave(i)
    /\ UNCHANGED <<now, lock, runs>>

-----------------------------------------------------------------------------
(* Scheduler.step *)

\* Mutant: the answer of pg_try_advisory_lock is not looked at.
TryLockAnyway(i) ==
    /\ pc[i] = "lock" /\ ~stopping[i]
    /\ lock' = i
    /\ at' = [at EXCEPT ![i] = now]
    /\ pc' = [pc EXCEPT ![i] = "abandon"]
    /\ UNCHANGED <<now, runs, stopping, slot, attempt, run, wake>>

TryLock(i) ==
    /\ pc[i] = "lock" /\ ~stopping[i]
    /\ lock = Free
    /\ lock' = i
    /\ at' = [at EXCEPT ![i] = now]
    /\ pc' = [pc EXCEPT ![i] = "abandon"]
    /\ UNCHANGED <<now, runs, stopping, slot, attempt, run, wake>>

LockBusy(i) ==
    /\ pc[i] = "lock"
    /\ lock # Free
    /\ Leave(i)
    /\ UNCHANGED <<now, lock, runs>>

\* The answer to pg_try_advisory_lock may get lost after the lock was taken: the
\* connection that holds it is closed.
LockFails(i) ==
    /\ pc[i] = "lock"
    /\ lock' \in (IF lock = Free THEN {Free, Orphan} ELSE {lock})
    /\ Leave(i)
    /\ UNCHANGED <<now, runs>>

\* AbandonStaleFetchRuns
Abandoned(t) ==
    [n \in DOMAIN runs |->
        IF runs[n].status = "running"
        THEN [runs[n] EXCEPT !.status = "failed", !.finished = t]
        ELSE runs[n]]

Abandon(i) ==
    /\ pc[i] = "abandon" /\ ~stopping[i]
    /\ runs' = Abandoned(at[i])
    /\ pc' = [pc EXCEPT ![i] = "read"]
    /\ UNCHANGED <<now, lock, stopping, slot, at, attempt, run, wake>>

\* RunsForSlot and decide: nothing to do, too early, or run.
Read(i) ==
    /\ pc[i] = "read" /\ ~stopping[i]
    /\ \/ /\ Skips(slot[i])
          /\ pc' = [pc EXCEPT ![i] = "unlock"]
          /\ UNCHANGED <<wake, attempt>>
       \/ /\ ~Skips(slot[i]) /\ NotBefore(slot[i], at[i]) > at[i]
          /\ pc' = [pc EXCEPT ![i] = "unlock"]
          /\ wake' = [wake EXCEPT ![i] = NotBefore(slot[i], at[i])]
          /\ UNCHANGED attempt
       \/ /\ ~Skips(slot[i]) /\ NotBefore(slot[i], at[i]) <= at[i]
          /\ pc' = [pc EXCEPT ![i] = "start"]
          /\ attempt' = [attempt EXCEPT ![i] = LastAttempt(slot[i]) + 1]
          /\ UNCHANGED wake
    /\ UNCHANGED <<now, lock, runs, stopping, slot, at, run>>

\* InsertFetchRun
Started(i) ==
    Append(runs, [slot |-> slot[i], attempt |-> attempt[i], status |-> "running",
                  started |-> at[i], finished |-> 0])

\* Mutant: the id is drawn from the sequence a second time.
StartRunNextId(i) ==
    /\ pc[i] = "start" /\ ~stopping[i]
    /\ runs' = Started(i)
    /\ run' = [run EXCEPT ![i] = Len(runs') + 1]
    /\ at' = [at EXCEPT ![i] = now]
    /\ pc' = [pc EXCEPT ![i] = "execute"]
    /\ UNCHANGED <<now, lock, stopping, slot, attempt, wake>>

\* RunTimeout counts from here.
StartRun(i) ==
    /\ pc[i] = "start" /\ ~stopping[i]
    /\ runs' = Started(i)
    /\ run' = [run EXCEPT ![i] = Len(runs')]
    /\ at' = [at EXCEPT ![i] = now]
    /\ pc' = [pc EXCEPT ![i] = "execute"]
    /\ UNCHANGED <<now, lock, stopping, slot, attempt, wake>>

\* A query before the run fails, or is cancelled by a stop, with or without its
\* effect: step gives up.
GiveUp(i) ==
    /\ pc[i] \in {"abandon", "read", "start"}
    /\ \/ runs' = runs
       \/ pc[i] = "abandon" /\ runs' = Abandoned(at[i])
       \/ pc[i] = "start" /\ runs' = Started(i)
    /\ pc' = [pc EXCEPT ![i] = "unlock"]
    /\ UNCHANGED <<now, lock, stopping, slot, at, attempt, run, wake>>

\* Job.Execute returns, with whatever outcome.
Execute(i) ==
    /\ pc[i] = "execute"
    /\ at' = [at EXCEPT ![i] = now]
    /\ pc' = [pc EXCEPT ![i] = "finish"]
    /\ UNCHANGED <<now, lock, runs, stopping, slot, attempt, run, wake>>

\* FinishRun outlives a stop; when it fails, step goes on all the same.
FinishRun(i, outcome) ==
    /\ pc[i] = "finish"
    /\ \/ runs' = [runs EXCEPT ![run[i]].status = outcome,
                               ![run[i]].finished = at[i]]
       \/ runs' = runs
    /\ wake' = [wake EXCEPT ![i] =
                   IF outcome = "failed" /\ attempt[i] < MaxAttempts /\ ~stopping[i]
                   THEN at[i] + RetryDelay(attempt[i]) ELSE 0]
    /\ pc' = [pc EXCEPT ![i] = "unlock"]
    /\ UNCHANGED <<now, lock, stopping, slot, at, attempt, run>>

\* A retry that would come after the next slot is left to that slot.
RetryDropped(i) == wake[i] # 0 /\ wake[i] >= NextSlot(slot[i])

\* Mutant: no deferred unlock.
UnlockForgotten(i) ==
    /\ pc[i] = "unlock"
    /\ Leave(i)
    /\ UNCHANGED <<now, lock, runs>>

\* unlock closes the connection even when the query fails.  Then process looks at
\* retryAt.
Unlock(i) ==
    /\ pc[i] = "unlock"
    /\ lock' \in (IF lock = i THEN {Free, Orphan} ELSE {lock})
    /\ IF wake[i] # 0 /\ ~RetryDropped(i) /\ ~stopping[i]
       THEN /\ pc' = [pc EXCEPT ![i] = "waitRetry"]
            /\ ForgetStep(i)
            /\ UNCHANGED <<stopping, slot, wake>>
       ELSE Leave(i)
    /\ UNCHANGED <<now, runs>>

-----------------------------------------------------------------------------
(* The environment *)

\* The process dies anywhere, also because a stop took longer than main waits.  Its
\* connection holds the lock until the database notices.
Crash(i) ==
    /\ pc[i] # "down"
    /\ lock' \in (IF lock = i THEN {Free, Orphan} ELSE {lock})
    /\ pc' = [pc EXCEPT ![i] = "down"]
    /\ stopping' = [stopping EXCEPT ![i] = FALSE]
    /\ slot' = [slot EXCEPT ![i] = 0]
    /\ ForgetStep(i)
    /\ wake' = [wake EXCEPT ![i] = 0]
    /\ UNCHANGED <<now, runs>>

\* The database notices that a connection is gone.
DropSession ==
    /\ lock = Orphan
    /\ lock' = Free
    /\ UNCHANGED <<now, runs, local>>

\* The connection that holds the lock breaks while its instance is in step: the
\* database lets go of the lock, and nothing tells the instance.
LoseConnection(i) ==
    /\ <<i, pc[i]>> \in Fragile
    /\ lock = i
    /\ lock' = Free
    /\ UNCHANGED <<now, runs, local>>

\* Execute ends with the context of its run, which RunTimeout limits.
Tick ==
    /\ now < MaxTime
    /\ \A i \in Instances : pc[i] = "execute" => now < at[i] + RunTimeout
    /\ now' = now + 1
    /\ UNCHANGED <<lock, runs, local>>

-----------------------------------------------------------------------------

Step(i) ==
    \/ WakeForSlot(i) \/ WakeForRetry(i) \/ Quit(i)
    \/ TryLock(i) \/ LockBusy(i) \/ LockFails(i)
    \/ Abandon(i) \/ Read(i) \/ StartRun(i) \/ GiveUp(i) \/ Execute(i)
    \/ (\E o \in Outcomes : FinishRun(i, o))
    \/ Unlock(i)

Next ==
    \/ \E i \in Instances : Step(i) \/ Boot(i) \/ Stop(i) \/ Crash(i) \/ LoseConnection(i)
    \/ DropSession
    \/ Tick

Spec == Init /\ [][Next]_vars

-----------------------------------------------------------------------------
(* Properties *)

\* While an instance executes a run, no other run is open, and the row of this run
\* is open until FinishRun has written its outcome: no other instance has taken it
\* for one that was left behind (scheduler.go, step).
ExecutesAlone ==
    \A i \in Instances :
        pc[i] \in {"execute", "finish"} =>
            \A n \in DOMAIN runs : runs[n].status = "running" <=> n = run[i]

\* "To have got the lock is that nothing else is running; a row that is left as
\* running was stopped" (scheduler.go, the comment before AbandonStaleRuns).
LockMeansAlone ==
    \A i, j \in Instances :
        lock = i /\ pc[j] = "execute" => i = j

\* "A retry that would pass the next slot is left to the next slot" (ApiExternal.md,
\* the row on retries): the instance that drops the retry waits for that slot.
RetryLeftToNextSlot ==
    [][\A i \in Instances :
          RetryDropped(i) /\ pc[i] = "unlock" /\ pc'[i] = "waitSlot" =>
              wake'[i] = NextSlot(slot[i])]_vars

\* The history that all instances write together is the history that one careful
\* scheduler would write: one run at a time, never again after a success that was
\* recorded, at most MaxAttempts runs for a slot, each one its delay after the failure
\* before it, and no outcome written twice.
Ledger == INSTANCE FetchLedger

ImplementsLedger == Ledger!Spec

-----------------------------------------------------------------------------
(* Liveness.  The calls of a step end: Execute by RunTimeout, FinishRun by      *)
(* finishTimeout, unlock by its five seconds; the others by the database.       *)

Fairness ==
    /\ \A i \in Instances : WF_vars(Step(i))
    /\ WF_vars(DropSession)

FairSpec == Spec /\ Fairness

\* No instance keeps the lock: another one will find it free.
LockLetGo == \A i \in Instances : lock = i ~> lock # i

\* A scheduler that is told to stop ends, wherever the stop finds it.
StopEnds == \A i \in Instances : stopping[i] ~> pc[i] = "down"
=============================================================================
