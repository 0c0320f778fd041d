----------------------------- MODULE FetchLedger -----------------------------
(***************************************************************************)
(* What the history of the article fetch (the table fetch_runs) promises,  *)
(* whoever writes it: one run at a time; a scheduled time (slot) is tried  *)
(* again only while all its runs are recorded as failed, at most           *)
(* MaxAttempts times, and only when the delay after the last failure is    *)
(* over; the outcome of a run is written once.  A run that came to its end *)
(* without a record counts as one that was stopped, whatever it has        *)
(* fetched.  FetchScheduler implements this specification with several     *)
(* instances, a lock and crashes.                                          *)
(***************************************************************************)
EXTENDS Naturals, Sequences

CONSTANTS MaxAttempts, FirstDelay, LaterDelay

VARIABLES
    now,    \* the time
    runs    \* the rows of fetch_runs in the order of their ids

vars == <<now, runs>>

Outcomes == {"succeeded", "partial", "failed"}

Delay(n) == IF n <= 1 THEN FirstDelay ELSE LaterDelay

TriesOf(s) == {n \in DOMAIN runs : runs[n].slot = s}

Rows == {runs[n] : n \in DOMAIN runs}

Init == now \in Nat /\ runs = <<>>

\* A run begins: r is its row, dated by what its instance has read on the clock.
Begin(r) ==
    /\ \A m \in DOMAIN runs : runs[m].status # "running"
    /\ r.status = "running" /\ r.slot <= r.started /\ r.started <= now
    /\ r.attempt \in 1..MaxAttempts
    /\ {runs[m].attempt : m \in TriesOf(r.slot)} = 1..(r.attempt - 1)
    /\ \A m \in TriesOf(r.slot) :
          /\ runs[m].status = "failed"
          /\ runs[m].finished + Delay(runs[m].attempt) <= r.started
    /\ runs' = Append(runs, r)
    /\ UNCHANGED now

End(n) ==
    LET row == runs'[n]
    IN  /\ runs[n].status = "running"
        /\ row.status \in Outcomes /\ row.finished \in 0..now
        /\ runs' = [runs EXCEPT ![n].status = row.status, ![n].finished = row.finished]
        /\ UNCHANGED now

Tick == now' > now /\ UNCHANGED runs

Next ==
    \/ \E r \in Rows' : Begin(r)
    \/ \E n \in DOMAIN runs : End(n)
    \/ Tick

Spec == Init /\ [][Next]_vars
=============================================================================
