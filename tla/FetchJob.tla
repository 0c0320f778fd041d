------------------------------- MODULE FetchJob ------------------------------
(***************************************************************************)
(* Job.Execute: one run of the article fetch                               *)
(* (server/internal/articlefetch/job.go, retry.go).                        *)
(*                                                                         *)
(* Two pools of goroutines share the flags that stop them, the counter of  *)
(* the calls to Qiita and the context of the run.  A unit of work is a day *)
(* of Qiita, fetched page by page, or a topic of Zenn, which has one page. *)
(* Each action is the code between two places where a goroutine waits: for *)
(* a unit, for the pacer, for an answer, for a backoff, for the database.  *)
(*                                                                         *)
(* What an answer holds is left out, except what decides how to go on.     *)
(***************************************************************************)
EXTENDS Naturals, FiniteSets

CONSTANTS
    QiitaWorkers,     \* the goroutines of fetchQiita
    ZennWorkers,      \* the goroutines of fetchZenn
    Days,             \* how many days qiitaDays returns
    Topics,           \* how many tags ListFetchTags returns
    MaxPage,          \* qiitaMaxPage
    MaxRetries,       \* maxRetries
    QiitaMaxRequests, \* QiitaMaxRequests; 0 for no limit
    ZennMaxFailures   \* zennMaxConsecutiveFailures

Workers == QiitaWorkers \cup ZennWorkers

ASSUME JobAssumption ==
    /\ QiitaWorkers \cap ZennWorkers = {}
    /\ QiitaWorkers # {} /\ ZennWorkers # {}
    /\ Days \in Nat /\ Topics \in Nat
    /\ MaxPage \in Nat \ {0}
    /\ MaxRetries \in Nat
    /\ QiitaMaxRequests \in Nat
    /\ ZennMaxFailures \in Nat \ {0}

VARIABLES
    main,        \* what Execute does next
    ended,       \* the context that Execute was given is over: a stop or the timeout
    dbFailed,    \* dbFailure.failed
    nextDay,     \* the day that fetchQiita sends next
    nextTopic,   \* the tag that fetchZenn sends next
    stopped,     \* fetchQiita: no more calls
    down,        \* fetchZenn: Zenn is taken to be down
    consecutive, \* failures of Zenn in a row
    calls,       \* counter.n of Qiita
    cur,         \* cur[w]: what w has read of it, in counter.take; 0 otherwise
    pc,          \* pc[w]: what worker w waits for
    unit,        \* unit[w]: the day or the topic it works on; 0 for none
    page,        \* page[w]: the page it asks for
    retries,     \* retries[w]: attempt, in caller.do
    full,        \* full[w]: the page it saves was full
    got,         \* some unit was counted as ok
    failed,      \* some unit was counted as failed
    truncated,   \* some unit was left out
    said,        \* the result has a message
    complete,    \* history: the units of which every page was saved
    late,        \* history: late[w], the calls to Qiita that w began after the stop
    result       \* Result.Status

flags == <<ended, dbFailed, stopped, down, consecutive, calls, cur>>
work  == <<nextDay, nextTopic, pc, unit, page, retries, full>>
tally == <<got, failed, truncated, said, complete>>
vars  == <<main, flags, work, tally, late, result>>

Units == (1..Days) \X {"day"} \cup (1..Topics) \X {"topic"}

TypeOK ==
    /\ main \in {"tags", "fetch", "retain", "message", "status", "done"}
    /\ ended \in BOOLEAN /\ dbFailed \in BOOLEAN
    /\ nextDay \in 1..(Days + 1)
    /\ nextTopic \in 1..(Topics + 1)
    /\ stopped \in BOOLEAN /\ down \in BOOLEAN
    /\ consecutive \in Nat /\ calls \in Nat
    /\ cur \in [Workers -> Nat]
    /\ pc \in [Workers -> {"unit", "page", "take", "swap", "answer", "backoff", "save"}]
    /\ unit \in [Workers -> Nat]
    /\ page \in [Workers -> 1..MaxPage]
    /\ retries \in [Workers -> 0..MaxRetries]
    /\ full \in [Workers -> BOOLEAN]
    /\ got \in BOOLEAN /\ failed \in BOOLEAN
    /\ truncated \in BOOLEAN /\ said \in BOOLEAN
    /\ complete \subseteq Units
    /\ late \in [QiitaWorkers -> Nat]
    /\ result \in {"none", "succeeded", "partial", "failed"}

Init ==
    /\ main = "tags"
    /\ ended = FALSE /\ dbFailed = FALSE
    /\ nextDay = 1 /\ nextTopic = 1
    /\ stopped = FALSE /\ down = FALSE
    /\ consecutive = 0 /\ calls = 0
    /\ cur = [w \in Workers |-> 0]
    /\ pc = [w \in Workers |-> "unit"]
    /\ unit = [w \in Workers |-> 0]
    /\ page = [w \in Workers |-> 1]
    /\ retries = [w \in Workers |-> 0]
    /\ full = [w \in Workers |-> FALSE]
    /\ got = FALSE /\ failed = FALSE /\ truncated = FALSE /\ said = FALSE
    /\ complete = {}
    /\ late = [w \in QiitaWorkers |-> 0]
    /\ result = "none"

-----------------------------------------------------------------------------

\* The context of the workers.
Cancelled == ended \/ dbFailed

Halted(w) == IF w \in QiitaWorkers THEN stopped ELSE down

Name(w) == <<unit[w], IF w \in QiitaWorkers THEN "day" ELSE "topic">>

Go(w, to) == pc' = [pc EXCEPT ![w] = to]

\* The worker is done with its unit, whether it was fetched or not.
EndUnit(w) ==
    /\ Go(w, "unit")
    /\ unit' = [unit EXCEPT ![w] = 0]
    /\ page' = [page EXCEPT ![w] = 1]
    /\ retries' = [retries EXCEPT ![w] = 0]
    /\ full' = [full EXCEPT ![w] = FALSE]

\* out.truncate, with a message when it is given one.
Truncate(message) ==
    /\ truncated' = TRUE
    /\ said' = (said \/ message)
    /\ UNCHANGED <<got, failed, complete>>

-----------------------------------------------------------------------------
(* A worker *)

ReceiveTopic(w) ==
    /\ main = "fetch" /\ pc[w] = "unit" /\ w \in ZennWorkers
    /\ nextTopic <= Topics
    /\ nextTopic' = nextTopic + 1
    /\ IF down \/ Cancelled
       THEN /\ Truncate(FALSE)
            /\ UNCHANGED <<pc, unit>>
       ELSE /\ unit' = [unit EXCEPT ![w] = nextTopic]
            /\ Go(w, "take")
            /\ UNCHANGED tally
    /\ UNCHANGED <<main, flags, nextDay, page, retries, full, late, result>>

\* The flags are looked at here and again before the first page: once in NextPage.
ReceiveDay(w) ==
    /\ main = "fetch" /\ pc[w] = "unit" /\ w \in QiitaWorkers
    /\ nextDay <= Days
    /\ nextDay' = nextDay + 1
    /\ unit' = [unit EXCEPT ![w] = nextDay]
    /\ Go(w, "page")
    /\ UNCHANGED <<main, flags, nextTopic, page, retries, full, tally, late, result>>

\* Mutant: a day that was begun is fetched to its end.
NextPageAnyway(w) ==
    /\ pc[w] = "page"
    /\ Go(w, "take")
    /\ UNCHANGED <<main, flags, nextDay, nextTopic, unit, page, retries, full, tally, late, result>>

\* qiitaDay, before each page
NextPage(w) ==
    /\ pc[w] = "page"
    /\ IF stopped \/ Cancelled
       THEN /\ Truncate(FALSE)
            /\ EndUnit(w)
       ELSE /\ Go(w, "take")
            /\ UNCHANGED <<unit, page, retries, full, tally>>
    /\ UNCHANGED <<main, flags, nextDay, nextTopic, late, result>>

\* caller.do: the context is over before the call, or while the pacer waits.
GiveUpCall(w) ==
    /\ pc[w] \in {"take", "backoff"} /\ Cancelled
    /\ Truncate(FALSE)
    /\ EndUnit(w)
    /\ UNCHANGED <<main, flags, nextDay, nextTopic, late, result>>

\* A call to Qiita counts; ZennRequests is left out.
Counted(w) ==
    IF w \in QiitaWorkers
    THEN /\ calls' = calls + 1
         /\ late' = [late EXCEPT ![w] = IF stopped THEN @ + 1 ELSE @]
    ELSE UNCHANGED <<calls, late>>

Limited(w) == w \in QiitaWorkers /\ QiitaMaxRequests > 0

\* counter.take reads the counter, or reads it again since another worker has changed it.
\* A compare-and-swap that fails changes nothing, and is one step with the next reading.
Reads(w) == pc[w] = "take" \/ (pc[w] = "swap" /\ calls # cur[w])

Load(w) ==
    /\ Limited(w) /\ Reads(w) /\ calls < QiitaMaxRequests
    /\ cur' = [cur EXCEPT ![w] = calls]
    /\ Go(w, "swap")
    /\ UNCHANGED <<main, ended, dbFailed, stopped, down, consecutive, calls,
                   nextDay, nextTopic, unit, page, retries, full, tally, late, result>>

\* Mutant: the counter is raised without a comparison.
TakeUncompared(w) ==
    /\ pc[w] = (IF Limited(w) THEN "swap" ELSE "take")
    /\ cur' = [cur EXCEPT ![w] = 0]
    /\ Counted(w)
    /\ Go(w, "answer")
    /\ UNCHANGED <<main, ended, dbFailed, stopped, down, consecutive,
                   nextDay, nextTopic, unit, page, retries, full, tally, result>>

\* The counter is still what was read of it, and is raised; the call begins.  The
\* context may end after it was looked at.
Take(w) ==
    /\ pc[w] = (IF Limited(w) THEN "swap" ELSE "take")
    /\ Limited(w) => calls = cur[w]
    /\ cur' = [cur EXCEPT ![w] = 0]
    /\ Counted(w)
    /\ Go(w, "answer")
    /\ UNCHANGED <<main, ended, dbFailed, stopped, down, consecutive,
                   nextDay, nextTopic, unit, page, retries, full, tally, result>>

\* errCallLimit
CallLimit(w) ==
    /\ Limited(w) /\ Reads(w) /\ calls >= QiitaMaxRequests
    /\ cur' = [cur EXCEPT ![w] = 0]
    /\ stopped' = TRUE
    /\ Truncate(TRUE)
    /\ EndUnit(w)
    /\ UNCHANGED <<main, ended, dbFailed, down, consecutive, calls,
                   nextDay, nextTopic, late, result>>

\* The wait before a retry is over; caller.do looks at the context, and at nothing else.
Retry(w) ==
    /\ pc[w] = "backoff" /\ ~Cancelled
    /\ Go(w, "take")
    /\ UNCHANGED <<main, flags, nextDay, nextTopic, unit, page, retries, full, tally, late, result>>

-----------------------------------------------------------------------------
(* Answers *)

\* Any answer of Qiita may tell that few calls are left.  The first to tell stops
\* the others.
Warns(w, low) ==
    /\ low => w \in QiitaWorkers
    /\ stopped' = (stopped \/ low)

Tells(w, low) == low /\ ~stopped

\* A page, or the articles of a topic.
AnswerOK(w, low, isFull) ==
    /\ pc[w] = "answer"
    /\ Warns(w, low)
    /\ isFull => w \in QiitaWorkers
    /\ full' = [full EXCEPT ![w] = isFull]
    /\ IF Tells(w, low) THEN Truncate(TRUE) ELSE UNCHANGED tally
    /\ consecutive' = IF w \in ZennWorkers THEN 0 ELSE consecutive
    /\ Go(w, "save")
    /\ UNCHANGED <<main, ended, dbFailed, down, calls, cur, nextDay, nextTopic,
                   unit, page, retries, late, result>>

\* The call fails, and its context is over by then: caller.do returns the error of
\* the context.
AnswerCancelled(w, low) ==
    /\ pc[w] = "answer" /\ Cancelled
    /\ Warns(w, low)
    /\ Truncate(Tells(w, low))
    /\ EndUnit(w)
    /\ UNCHANGED <<main, ended, dbFailed, down, consecutive, calls, cur,
                   nextDay, nextTopic, late, result>>

\* Mutant: attempt is not compared with maxRetries.
AnswerTransientUnbounded(w, low) ==
    /\ pc[w] = "answer" /\ ~Cancelled
    /\ Warns(w, low)
    /\ retries' = [retries EXCEPT ![w] = @ + 1]
    /\ Go(w, "backoff")
    /\ IF Tells(w, low) THEN Truncate(TRUE) ELSE UNCHANGED tally
    /\ UNCHANGED <<main, ended, dbFailed, down, consecutive, calls, cur, nextDay,
                   nextTopic, unit, page, full, late, result>>

\* Mutant: attempt starts again with every retry.
AnswerTransientUncounted(w, low) ==
    /\ pc[w] = "answer" /\ ~Cancelled
    /\ Warns(w, low)
    /\ Go(w, "backoff")
    /\ IF Tells(w, low) THEN Truncate(TRUE) ELSE UNCHANGED tally
    /\ UNCHANGED <<main, ended, dbFailed, down, consecutive, calls, cur, nextDay,
                   nextTopic, unit, page, retries, full, late, result>>

\* A timeout, no connection or a status of 500 and more, with retries left.
AnswerTransient(w, low) ==
    /\ pc[w] = "answer" /\ ~Cancelled
    /\ Warns(w, low)
    /\ retries[w] < MaxRetries
    /\ retries' = [retries EXCEPT ![w] = @ + 1]
    /\ Go(w, "backoff")
    /\ IF Tells(w, low) THEN Truncate(TRUE) ELSE UNCHANGED tally
    /\ UNCHANGED <<main, ended, dbFailed, down, consecutive, calls, cur, nextDay,
                   nextTopic, unit, page, full, late, result>>

\* The unit is given up.  When the answer was 429, so is all of Qiita.
AnswerFailed(w, low, limited) ==
    /\ pc[w] = "answer" /\ ~Cancelled
    /\ low \/ limited => w \in QiitaWorkers
    /\ stopped' = (stopped \/ low \/ limited)
    /\ IF w \in ZennWorkers
       THEN /\ consecutive' = consecutive + 1
            /\ down' = (down \/ consecutive' >= ZennMaxFailures)
       ELSE UNCHANGED <<consecutive, down>>
    /\ failed' = TRUE /\ said' = TRUE
    /\ truncated' = (truncated \/ Tells(w, low) \/ (down' /\ ~down))
    /\ EndUnit(w)
    /\ UNCHANGED <<main, ended, dbFailed, calls, cur, nextDay, nextTopic, got,
                   complete, late, result>>

\* ErrResponseTooLarge: only this page is given up.
AnswerTooLarge(w, low) ==
    /\ pc[w] = "answer" /\ w \in QiitaWorkers /\ ~Cancelled
    /\ Warns(w, low)
    /\ failed' = TRUE /\ said' = TRUE
    /\ truncated' = (truncated \/ Tells(w, low))
    /\ IF page[w] = MaxPage
       THEN EndUnit(w)
       ELSE /\ page' = [page EXCEPT ![w] = @ + 1]
            /\ retries' = [retries EXCEPT ![w] = 0]
            /\ Go(w, "page")
            /\ UNCHANGED <<unit, full>>
    /\ UNCHANGED <<main, ended, dbFailed, down, consecutive, calls, cur,
                   nextDay, nextTopic, got, complete, late, result>>

-----------------------------------------------------------------------------
(* Job.save *)

\* A day ends with a page that is not full, or, with a warning, with the last page.
Saved(w) ==
    /\ pc[w] = "save"
    /\ got' = TRUE
    /\ IF full[w] /\ page[w] < MaxPage
       THEN /\ page' = [page EXCEPT ![w] = @ + 1]
            /\ retries' = [retries EXCEPT ![w] = 0]
            /\ full' = [full EXCEPT ![w] = FALSE]
            /\ Go(w, "page")
            /\ UNCHANGED <<unit, said, complete>>
       ELSE /\ EndUnit(w)
            /\ said' = (said \/ full[w])
            /\ complete' = complete \cup {Name(w)}
    /\ UNCHANGED <<main, flags, nextDay, nextTopic, failed, truncated, late, result>>

\* The failure ends the run, unless the context is over anyway.
SaveFails(w) ==
    /\ pc[w] = "save"
    /\ dbFailed' = (dbFailed \/ ~Cancelled)
    /\ EndUnit(w)
    /\ UNCHANGED <<main, ended, stopped, down, consecutive, calls, cur, nextDay,
                   nextTopic, tally, late, result>>

-----------------------------------------------------------------------------
(* Execute *)

ListTags ==
    /\ main = "tags"
    /\ \/ /\ main' = "fetch"
          /\ UNCHANGED <<said, late, result>>
       \/ /\ main' = "done"
          /\ result' = "failed"
          /\ said' = TRUE
    /\ UNCHANGED <<flags, work, got, failed, truncated, complete, late>>

Join ==
    /\ main = "fetch"
    /\ nextDay > Days /\ nextTopic > Topics
    /\ \A w \in Workers : pc[w] = "unit"
    /\ main' = "retain"
    /\ UNCHANGED <<flags, work, tally, late, result>>

\* retain has a context of its own and changes nothing in the result but a number.
Retain ==
    /\ main = "retain"
    /\ main' = "message"
    /\ UNCHANGED <<flags, work, tally, late, result>>

\* Mutant: there is no message about a failure of the database.
MessageUnsaid ==
    /\ main = "message"
    /\ main' = "status"
    /\ said' = (said \/ ended)
    /\ UNCHANGED <<flags, work, got, failed, truncated, complete, late, result>>

Message ==
    /\ main = "message"
    /\ main' = "status"
    /\ said' = (said \/ ended \/ dbFailed)
    /\ UNCHANGED <<flags, work, got, failed, truncated, complete, late, result>>

\* Mutant: units that were left out are no problem.
AnyProblemUntruncated == failed \/ ended

AnyProblem == failed \/ truncated \/ ended

Status ==
    /\ main = "status"
    /\ main' = "done"
    /\ result' = IF dbFailed \/ (~got /\ AnyProblem) THEN "failed"
                 ELSE IF AnyProblem THEN "partial" ELSE "succeeded"
    /\ UNCHANGED <<flags, work, tally, late>>

\* The scheduler is stopped, or RunTimeout is over.
End ==
    /\ ~ended /\ main # "done"
    /\ ended' = TRUE
    /\ UNCHANGED <<main, dbFailed, stopped, down, consecutive, calls, cur, work,
                   tally, late, result>>

\* The run is over, and Execute has returned.
Returned == main = "done" /\ UNCHANGED vars

-----------------------------------------------------------------------------

Answer(w) ==
    \E low \in BOOLEAN :
        \/ \E isFull \in BOOLEAN : AnswerOK(w, low, isFull)
        \/ AnswerCancelled(w, low)
        \/ AnswerTransient(w, low)
        \/ \E limited \in BOOLEAN : AnswerFailed(w, low, limited)
        \/ AnswerTooLarge(w, low)

Work(w) ==
    \/ ReceiveTopic(w) \/ ReceiveDay(w) \/ NextPage(w)
    \/ GiveUpCall(w) \/ Load(w) \/ Take(w) \/ CallLimit(w) \/ Retry(w)
    \/ Answer(w)
    \/ Saved(w) \/ SaveFails(w)

Finish == ListTags \/ Join \/ Retain \/ Message \/ Status

Next ==
    \/ \E w \in Workers : Work(w)
    \/ Finish
    \/ End
    \/ Returned

Spec == Init /\ [][Next]_vars

-----------------------------------------------------------------------------
(* Properties *)

\* However many workers read the counter before one of them raises it, a run makes no
\* more calls to Qiita than it may, retries included (retry.go, counter.take).
CallsWithinLimit == QiitaMaxRequests > 0 => calls <= QiitaMaxRequests

\* A run counts as succeeded, and its slot as done, only when every day and every
\* topic was fetched and saved to its end (job.go, Execute: anyProblem).
SucceededMeansComplete == result = "succeeded" => complete = Units

\* A run that did not succeed says why: behind every unit that was left out without
\* a word there is a message of what stopped the run.  Only a context that ends
\* after Execute has put the messages together goes without one.
ProblemSaid == result \in {"partial", "failed"} /\ ~ended => said

\* A stop does not reach the calls that wait to be repeated, but it ends everything
\* else: after the stop a worker makes no more calls than those of the page that it
\* has begun (job.go, qiitaDay; retry.go, caller.do).
LateCallsBounded == \A w \in QiitaWorkers : late[w] <= MaxRetries + 1

\* "After a stop there are no more calls" (job.go, the comment on stopped): the
\* workers that wait to retry notice it.
NoCallAfterStop ==
    [][\A w \in QiitaWorkers :
          stopped /\ pc[w] = "backoff" => pc'[w] # "take"]_vars

-----------------------------------------------------------------------------
(* Liveness.  A call ends by the timeout of the HTTP client, a wait by its timer, *)
(* a transaction by the database.  That some goroutine goes on while one can is   *)
(* enough: the work is bounded, so that each of them gets its turn.               *)

Fairness == WF_vars((\E w \in Workers : Work(w)) \/ Finish)

FairSpec == Spec /\ Fairness

\* Execute returns: the workers take every unit, also those that they leave out, so
\* that neither the loops that send them nor the WaitGroups wait for ever.
JobEnds == <>(main = "done")
=============================================================================
