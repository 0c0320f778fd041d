# MyTechPulse: a TLA+ model

MyTechPulse collects technical articles from Qiita and Zenn, ranks them by the interests of
its users, and lets users save articles. This directory models the parts of it that are hard
to test: transactions that run at the same time, a fetch that several server processes
schedule, worker pools that stop each other, logins that race with the limiter, ceremonies
whose steps are separate statements, several tabs that answer one form, and a feed whose
parts arrive in any order.
TLC checks every model on small instances; TLAPS proves the main results for all instances.

Paths below are relative to `src/`. `internal/` stands for `server/internal/`.

## 1. Inventory

| Component | State | Operations | Interaction | Hard because | Correct when |
| --- | --- | --- | --- | --- | --- |
| Saved articles (`internal/store/saved_articles.go`, `interest.go`) | rows of `saved_articles`, `saved_article_learnings`, `recommendation` | Save, Unsave, List, learning from saves | row locks, shared with the retention and with clicks | concurrent transactions at READ COMMITTED | never more than the limit; each article teaches once; only a save that lasted teaches |
| Retention (`internal/store/articles.go`) | rows of `articles` | DeleteExpired | runs in the fetch job, deletes what users may be saving | decision on a stale snapshot | no saved article is deleted |
| Fetch scheduler (`internal/articlefetch/scheduler.go`) | advisory lock, rows of `fetch_runs`, local timers | Run, process, step, stop | several processes share the lock and the rows | crashes, lost answers, connections that break, retries | one run at a time; retries only as the policy allows; lock let go; stop ends |
| Fetch job (`internal/articlefetch/job.go`, `retry.go`, `pacer.go`) | stop flags, call counter, result | Execute | worker pools, the two providers, the database | goroutines that stop each other, errors on many paths | limit of calls; a success is complete; a problem is told; it ends |
| Login limiter (`internal/auth/limiter.go`) and logins (`auth/service.go`, `passkey/service.go`) | counts per account and address, in memory | Check, Failure, Success, AllowBegin | every login, with a password or a passkey | check and count are separate steps | bounded overshoot; promised waits hold; locks are not shortened |
| Sessions and signup (`internal/auth`, `internal/store/auth.go`) | rows of `auth_session`, `user` | Signup, Login, Logout, Authenticate | cookies, the limiter | expiry against use | a session that ended is never accepted |
| Passkeys (`internal/passkey`, `internal/store/passkey.go`) | rows of challenges, passkeys | begin and finish of login and registration, delete | WebAuthn library, limiter | single use, concurrent finishes | a challenge is used once; the sign count only grows; at most ten |
| API limits (`internal/platform/ratelimit`, `internal/app/limits.go`) | token buckets | Allow, Wait, Take | every request | Wait and Take around a handler | never more than the quota and what is under way |
| User feedback (`internal/userfeedback`, `internal/store/feedback.go`) | prompts, submissions, answers | Status, Present, SubmitOverall, CompleteFollowup, Dismiss | several tabs | concurrent ends of one prompt | one submission per prompt; cooldown kept |
| Interests (`internal/interest`) | interest per tag | UpdateOnClick, UpdateOnSave, Top | pure, called in transactions | integer limits | stays in range; order independent of input order |
| Recommendation (`internal/recommendation`) | none | Get, RecordClick | two providers at the same time, or the database | partial failures | a provider that failed is reported, never hidden |
| Provider clients (`internal/provider`) | metrics | ListCreated, SearchTopic | HTTP | many kinds of failures | every failure gets its kind |
| Login page (`frontend/src/lib/passkeyLogin.ts`) | phase, current run | start, explicit, password, dispose | browser, API | late promises, timers | one ceremony at a time; a late answer is dropped |
| Saved articles in the page (`frontend/src/lib/savedArticles.ts`) | query cache | toggle | API | overlapping optimistic updates | the page agrees with the server in the end |
| Feedback in the page (`frontend/src/lib/useUserFeedback.ts`) | opened articles, block | articleOpened, maybeRequest | API | late promises | at most one request under way |
| Deployment (`ops/deploy_go.sh`) | running image, schema | deploy, roll back | docker, database | failures between steps | the old image runs on a schema it knows, or the new one does |
| Backup, configuration, HTTP platform, text checks, generated queries, scripts | - | - | - | not concurrent | - |

`PROJECT.json` lists the same components with their status, and every hazard at its line.

## 2. Modules

| Module | Models | Relation |
| --- | --- | --- |
| `SavedArticles` | Save, Unsave, learning and retention, one action per SQL statement | implements `SavedLedger` |
| `SavedLedger` | the same operations as single steps: what saving promises | abstract |
| `SavedArticlesProofs` | theorems about `SavedArticles` | |
| `FetchScheduler` | the schedulers of several processes, the lock, the rows of runs | implements `FetchLedger` |
| `FetchLedger` | the history one careful scheduler would write | abstract |
| `FetchSchedulerProofs` | theorems about `FetchScheduler` | |
| `FetchJob` | `Job.Execute`: what the single step `Execute` of `FetchScheduler` does inside | |
| `FetchJobProofs` | theorems about `FetchJob` | |
| `LoginFlow` | logins with a password or a passkey, and the limiter | |
| `LoginFlowProofs` | theorems about `LoginFlow` | |
| `PasskeyCeremony` | registration and login with a passkey, challenges and sessions | implements `PasskeyLedger` |
| `PasskeyLedger` | the life of a challenge and what its ceremony may change | abstract |
| `PasskeyCeremonyProofs` | theorems about `PasskeyCeremony` | |
| `Feedback` | prompts, answers and their deletion, one action per SQL statement | implements `FeedbackLedger` |
| `FeedbackLedger` | the life of a prompt and of its answers | abstract |
| `FeedbackProofs` | theorems about `Feedback` | |
| `TokenBucket` | the limiter of calls per key, as operators on a record | used by `Signup`, twice |
| `QuotaLedger` | a bucket for each key, for ever | abstract |
| `Signup` | a signup between its two limits, up to the commit | its limiters implement `QuotaLedger` |
| `SignupProofs` | theorems about `Signup` and its limiters | |
| `InterestMath` | how interests decay, rise, saturate and are ranked | extended by the next two |
| `InterestLedger` | clicks and saves that are learned one after the other | abstract |
| `Recommendation` | the learning transaction, the searches of a feed, the feed from the database | implements `InterestLedger` |
| `RecommendationProofs` | theorems about `Recommendation` | |
| `MC...` | constants and symmetry for TLC | extend the module they check |

### SavedArticles

The variables up to `boosts` are the committed rows. An open transaction is a `pc`, the user
it works for, the start of the transaction (`begun`, PostgreSQL's `now()`), and the rows it
has changed (`batch`, `doomed`). Row locks are not stored: `HoldsUser`, `SharesArticle`,
`Removing` and `MarkingRow` derive them from the `pc` of their holders, and a statement that
would wait is an action that is not enabled. `SKIP LOCKED` is the set difference in
`RetainList`. Each statement reads the rows committed before it, as READ COMMITTED does.
`Rollback` ends a transaction anywhere: an error, a cancelled request or a crash. A request
reads its interests and writes them while it holds the user's row, so `LearnCommit` takes
this together with the commit. `boosts` counts how often an article raised the interests,
which is all the properties need of their values.

### FetchScheduler

One action per call that leaves the process. `lock` is the session lock of PostgreSQL, held by
an instance, by nobody, or by a connection whose process is gone (`Orphan`). `GiveUp`,
`LockFails` and `FinishRun` cover calls that fail before or after their effect. `Crash` may
happen anywhere; it is also what remains of `main` waiting only ten seconds for the scheduler.
`LoseConnection` happens in the steps that the constant `Fragile` names. The three
theorems that depend on it and the passing run let the connection break once the outcome is
written and the lock is of no more use; `fetch_loss` shows what happens when it breaks during
Execute. All instances read one clock, which does not run backwards.

`FetchLedger` speaks of what is recorded. A run whose outcome could not be written counts as
one that was stopped: it is marked as failed, and its slot is tried again, although it may have
succeeded: `step` only logs the failure of `FinishRun`, and `AbandonStaleFetchRuns` cannot know.
What the ledger promises for this case is that the slot has at most `MaxAttempts` runs, each
after its delay and none beside another; that a slot which was fetched is never fetched again
it promises only when the success is recorded.

### FetchJob

Each action is the code of one goroutine between two places where it waits. A unit is a day
of Qiita or a topic of Zenn; `unit` and `page` say what a worker asks for, `retries` is
`attempt` of `caller.do`. `counter.take` is two steps, as in the code: `Load` reads the
counter into `cur`, and `Take` raises it only while it is still what was read; in between any
other worker may raise it. A compare-and-swap that fails changes nothing, so it is one step
with the next reading. What an answer holds is reduced to what decides how to go on: whether
the page was full, whether few calls are left, and the kind of an error. `complete` (the units that were saved to their end) and `late` (calls begun after
the stop) are history variables; the code has no such state.

### LoginFlow

A login is `CheckPasses` or `TooMany`, then `Wrong`, `Right` or `LookupFails`: the limiter's
mutex is held inside each step and free between them. A login with a passkey has the account
`NoAccount`, since it uses `CheckIP` and `FailureIP`. `EntryFor`, `Sweep`, `Lockout` and
`Wait` are the functions of `limiter.go`. `promise` remembers the last `RetryAfter` that was
told. What a login does after the comparison is in `PasskeyCeremony`.

### PasskeyCeremony

A request is a `pc`, the statement it runs next, and `request`, what it was sent and has
found. The challenge, the passkey and the session are rows; a challenge that was used and one
that was deleted are both `Spent`, because no query tells them apart. `Consume` is one
UPDATE, so it is one step, whereas the count of a passkey is compared twice: by `Lookup`, on
what was read, and by `RecordUse`, on the row as it is then. `UserFree` is the lock of
`LockUserForPasskey`, which also holds up the rows that refer to the user. The WebAuthn
library may refuse any step (`Fail`); that it lets a response pass is left to `Lookup` and
`Consume`, which look at what the code looks at. `Life` tells of each challenge how far its
ceremony has come, from the row and from the request that has taken it.

### Feedback

Again a transaction is a `pc`; `read` is what it has read and decides by. Once a transaction
holds the row of its prompt, all it does up to the commit is one action, because nobody else
reads or writes that prompt and its answers. Two locks are derived from the `pc`: that of the
row (`Unlocked`) and the advisory lock of a user and a form (`Undecided`). A form may be
given a new version at any time, which keeps its key. The DELETE of the cleanup lists its
prompts first (`CleanupIfDue`), waits for those that are locked, and does not look at the
times again (`DeleteExpired`): PostgreSQL checks after the wait only the condition on the
id. A prompt that is answered in that moment goes with its answer. `Life` is "torn" where
prompt and submission tell different stories; the ledger has no such state.

### TokenBucket and Signup

`TokenBucket` counts tokens in units of time, so that the division of the code, with its
epsilon, is exact. Its operators take a limiter and give the limiters it may become: which
bucket a full table throws away is open, since Go leaves the order of a map open. `Signup`
has two instances of it. The question whether failures are left (`WaitFailures`) and the
charge for one (`TakeFailure`) are separate steps with the whole signup between them. In the
transaction only the name can be waited for (`NobodyElseInserts`, the unique index); the
other rows belong to the new user.

### InterestMath, InterestLedger and Recommendation

`Recommendation` puts the learning that `SavedArticles` counts together with the values of
the interests: `LockAndRead` and `Commit` are the transaction of `UpdateForClick` and of
`List`. `InterestLedger` keeps the clicks that were sent and have no answer; each of them leaves
once, learned or lost, so that none raises the interests twice or after it has failed. That one
is lost is always admitted, since a statement may fail.

A feed from the providers is a set of searches whose answers come in any order, good
or bad (`Answer`), and `Assembled` is what the code makes of the answers in the order of
their arrival. `FeedFits` says the same without the order, and that no list is longer
than `FeedLimit`. A feed from the database is four
statements between which the fetch job and the retention may work (`ChangeStored`). An age
stands for a time of publication, a number for an address, so that ties are decided as in
`score.go`. The items that the code drops as not valid do not come: the clients of the
providers and the columns of the tables let none pass.

## 3. Runs

| Run | Instance | Shows |
| --- | --- | --- |
| `saved_safety` | 1 user, 2 Save requests, learners and the retention over a few articles, limit and delay small | the five safety properties, and that the transactions implement `SavedLedger` |
| `saved_live` | smaller, with fairness | every transaction ends: no deadlock among user, article and save locks |
| `fetch` | 2 instances, two slots, 2 attempts, fair, a connection may break at the end of a step | one open run while executing; the history implements `FetchLedger`; the lock is let go; a stop ends |
| `fetch_loss` | the connection may break during Execute | violation: see finding 1 |
| `fetch_overrun` | a run that lasts beyond the next slot | violation: see finding 2 |
| `job` | 2 + 1 workers, 2 days of up to 2 pages, 2 topics, 1 retry, 4 calls, fair | limits, completeness and messages; a run always ends |
| `job_retry` | 2 workers of Qiita | violation: see finding 3 |
| `login_safety` | 1 account, 2 addresses, 2 logins, lockouts of 1, 2 and 3 ticks | the bounds of the limiter and its promises |
| `feedback` | 2 tabs, 2 prompts, 2 versions of a form and one that is not valid | answers fit the form, the cooldown is kept, only what is old is deleted, and the rows implement `FeedbackLedger` |
| `passkeys` | 2 users, 2 passkeys, 2 challenges, 2 requests, a limit of 1 | the limit of passkeys, one login for each count, and the ceremonies implement `PasskeyLedger` |
| `signup` | 2 signups, 2 addresses, 1 name, a table for 1 bucket | the overshoot of the limit of failures, one account for each name, and the limiters implement `QuotaLedger` |
| `recommendation` | 1 feed, 1 click, 1 save, 2 tags, 5 articles, lists of 2 | the feed that was found or stored, learning that implements `InterestLedger`, and every feed is answered |

**Bounds.** `MaxTime` bounds the clocks; in each run it is past the point where the longest
delay has expired once and begun again. Two processes of each kind suffice for every race
named in the hazards, all of which are between two parties; a third process that
interferes is covered by the theorems where there is one.

In `fetch` a slot is retried, a retry that would come too late is left to the next slot, and
that slot begins with rows of the first still open. A third attempt does not fit into its
three ticks; that none comes after `MaxAttempts` is the theorem `SlotsHold`. In `job`
the limit of four calls is reached in the middle of a day with both workers of Qiita active
or both in `counter.take`, after retries, and also not at all; two workers of Zenn, which differ from those of Qiita in
the units they ask for, are covered by the theorems only. The limits of the code (500 saves,
300 calls, 20 failures) are only compared, so a small number reaches the same branches.

In `feedback` the retention is 0 and a clock of two instants suffices: a prompt of the first
is expired in the second, one version is still cooling down then and the other is not, and the
batch of one leaves a prompt over. In `passkeys` a challenge and a session last one tick, so
that each can lapse before, between and after the steps of the other request; with a limit of
one, two registrations compete for it, or for a credential id, and the counts 0 and 1 give an
authenticator that counts and one that does not. In `signup` the limit of failures is one call
and that of attempts two, each back after two ticks; with room for one bucket two addresses
drive each other out, and the clock runs long enough for a bucket to be used up, to be full
again and to be swept. In `recommendation` the interests begin at 0 or at the top of their
range, so that boosts saturate and decay; the scores reach `MaxInt64`; a list of two is full,
short, or filled up. A second feed would share nothing with the first but the interests, which
the click changes.

**Fairness.** `SavedArticles`: strong fairness of the statements of an open transaction,
because PostgreSQL queues the transactions that wait for a row, so that one which can get its
lock again and again gets it in the end; weak fairness for the retention, which never waits.
`FetchScheduler`: weak fairness of every call of `step`, because Execute ends by RunTimeout,
FinishRun by `finishTimeout` (10 s), the unlock by its five seconds and the other queries by
the database; weak fairness of `DropSession`, since the server closes the sessions of
dead clients. `FetchJob`: weak fairness of all steps together, since the HTTP client has a
timeout, the timers fire, and a transaction ends; that one worker goes on while any can is
enough, as the work is bounded; a run is not assumed to be stopped.
`Recommendation`: weak fairness of each request, since its statements end, the row of the user
is let go by who holds it, and `FeedTimeout` makes a bad answer of a search that is late.
`Feedback`, `PasskeyCeremony` and `Signup` state safety only, without fairness.
Nothing makes a request, a boot, a stop or a crash happen.

## 4. Findings

1. *The lock does not follow the run* (`fetch_loss`). `scheduler.go:104` concludes from the
   lock that no other run is under way. The lock belongs to a connection that nobody watches
   while Execute runs for minutes. When it breaks, the database lets the lock go, and
   another instance takes the open row for one left behind and may execute as well.
2. *A slot can be passed over* (`fetch_overrun`). A retry that would come after the next slot
   is left to that slot (`ApiExternal.md:79`). If the run fails only after that slot has
   begun, the retry is dropped and `Run` sleeps until the slot after it.
3. *Calls after a stop* (`job_retry`). `job.go:297` says that `stopped` ends all further calls.
   A worker in its backoff looks at its context only, and calls again, with all retries.
   `LateCallsBounded` (in `job`) shows how much that is: the calls of one page for each worker.

## 5. Proofs

Each proof module extends the model it is about. All theorems but `SearchesBounded`, which is
about a function, are about `Spec`, for any values of the constants that the named assumptions
admit: any number of processes, any bound on the clock and behaviours of any length. Every
safety property that a passing run checks is proved; so are the six refinements. `SlotsKept` and
`WorkShrinks` are stated beside their proofs and are in no run.
`AttemptsInAnyStretch` and `ChallengeSucceedsOnce` add a history variable `n` to the behaviours of
`Spec`: it counts the attempts of one address from any moment on, and the successes of one
challenge from the beginning. The former is stated for the time in which the table of
buckets has room, since a table that throws a bucket away forgets what was used.

| Theorem | States | Inductive invariant |
| --- | --- | --- |
| `SavedArticlesProofs!TypeCorrect` | `TypeOK` | `Typing`: types, and an open transaction has a user and an article |
| `SavedArticlesProofs!LimitHolds` | `SavedWithinLimit` | `LimitInv`: a row lock has one holder; who has counted room holds the user's lock and there is room |
| `SavedArticlesProofs!RetentionHolds` | `RetentionSparesSaved` | `RetentionInv`: what the retention is about to delete is locked and nobody has saved it; a save that is not committed shares the lock of its article |
| `SavedArticlesProofs!LastingHolds` | `LearnedOnlyFromLastingSave` | `Lasting`: the marked saves keep their rows and dates until the transaction that has marked them ends, and no transaction begins after now |
| `SavedArticlesProofs!LearnedOnceHolds` | `LearnedOnce` | itself, with `Typing`: mark, record and interests are written by one commit, and the record goes only with its article |
| `SavedArticlesProofs!LedgerImplemented` | `ImplementsLedger` | `Whole`: `Lasting` and `LearnedOnce`. Each commit is one step of `SavedLedger`, each other statement a stutter |
| `FetchSchedulerProofs!TypesHold` | `TypeOK` | `Typing`: types, and a run is started within `MaxAttempts` |
| `FetchSchedulerProofs!AloneHolds` | `ExecutesAlone`, if the connection does not break before the outcome is written | `AloneInv`: who is in a step that needs the lock holds it; who starts a run has closed all others |
| `FetchSchedulerProofs!LedgerImplemented` | `ImplementsLedger`, under the same condition | `History`: `AloneInv`; rows are dated in their order and only the last is open; the runs of a slot follow each other as the policy says; what the holder of the lock has decided is still due |
| `FetchSchedulerProofs!SlotsHold` | `SlotsKept`, under the same condition: a scheduled time has at most `MaxAttempts` runs over all instances and restarts, all but the last are recorded as failed, and each retry kept its delay | follows from `History` |
| `FetchJobProofs!TypesHold` | `TypeOK` | `Typing`: types, and a worker has a unit of its provider unless it waits for one |
| `FetchJobProofs!LimitHolds` | `CallsWithinLimit` | `Compared`: who is about to raise the counter has read less than the limit, and no more than it is by now |
| `FetchJobProofs!LateHolds` | `LateCallsBounded` | `LateInv`: before the stop nothing is late; after it a worker's late calls are at most its attempts |
| `FetchJobProofs!SuccessHolds` | `SucceededMeansComplete` | `SuccessInv`: every unit that was sent is complete or held, or there is a problem; after the join none is held |
| `FetchJobProofs!SaidHolds` | `ProblemSaid` | `SaidInv`: every flag that stops a fetch was put up with a message, and whatever leaves a unit out has put up one |
| `FetchJobProofs!WorkShrinksHolds` | `WorkShrinks`: no step of a run repeats work | an action property, from `Typing` and `Compared`: one step of the proof for each action; whoever reads the counter again reads more than before |
| `LoginFlowProofs!TypesHold` | `TypeOK` | itself |
| `LoginFlowProofs!IPFailuresHold` | `IPFailuresStay` | an action property, from `TypeOK` |
| `LoginFlowProofs!OvershootHolds` | `IPOvershootBounded` | `Overshoot`: the failures counted and those on their way stay below the bound together |
| `LoginFlowProofs!RetryAfterHolds` | `RetryAfterKept` | `Kept`: every lock that the promised login would meet ends by the promised time |
| `LoginFlowProofs!LocksHold` | `LockNeverShortened` | `LocksStand`: who is locked has reached the limit, and a failure of this moment would lock it for at least what is left |
| `PasskeyCeremonyProofs!TypesHold` | `TypeOK` | `Typing`: types, and what each statement has found before the next one uses it |
| `PasskeyCeremonyProofs!LimitHolds` | `PasskeysWithinLimit` | `Room`: one request decides for a user at a time, and who has counted finds room |
| `PasskeyCeremonyProofs!CountsHold` | `CountsDiffer` | `CountsOrdered`: a passkey keeps its owner as long as it is there, and its count is not below the one that let a login in |
| `PasskeyCeremonyProofs!LedgerImplemented` | `ImplementsLedger` | `HeldOnce` and `LifeKnown`: a challenge that was used up has one holder, whose progress and the row tell the same life |
| `PasskeyCeremonyProofs!ChallengeSucceedsOnce` | a challenge leads to one passkey or one session at most, from the beginning on | `Once`: nothing has come of it yet, or it is spent and nobody holds it; with `HeldOnce` |
| `FeedbackProofs!TypesHold` | `TypeOK` | `Typing`: types; a row is kept by one transaction, and what that has read of it is still true |
| `FeedbackProofs!DeletesHold` | `DeletedOnlyOld` | `TimesKept`: a prompt that was listed was shown before the retention, and keeps its time |
| `FeedbackProofs!CooldownHolds` | `CooldownKept` | `Cooled`: one transaction decides for a user and a form at a time, and what it has decided stays right until it inserts |
| `FeedbackProofs!AnswersHold` | `AnswersFit` | `Story`: prompt and submission tell one story, and the answers fit the form that the prompt was shown with |
| `FeedbackProofs!LedgerImplemented` | `ImplementsLedger` | `Story`, with `Typing` and `TimesKept` |
| `SignupProofs!TypesHold` | `TypeOK` | `Typing`: types, and each bucket is within its limit and not from the future |
| `SignupProofs!OvershootHolds` | `OvershootBounded` | `Slack`: where nothing is left, one request at least is not under way |
| `SignupProofs!OneAccountHolds` | `OneAccountPerName` | `NamesFree`: who is about to commit has the name to itself |
| `SignupProofs!QuotaImplemented` | `ImplementsQuota` | `Typing`, and a lemma for each operator of `TokenBucket`: what it does to the tokens that a caller would find |
| `SignupProofs!AttemptsInAnyStretch` | in any stretch of time without a full table, an address gets at most `IPBurst` attempts and one for each `IPEvery` that has passed | `Paid`: what the attempts have cost and what is left are together within the limit and the time that has passed; with `Typing` |
| `RecommendationProofs!TypesHold` | `TypeOK` | itself, with lemmas about `clamp`, `decay` and the boosts |
| `RecommendationProofs!InterestsImplemented` | `ImplementsInterests` | `Locked`: one request is about to write the interests, and what it has read is what is there; `ClickersLearn`: a request that records a click is idle, waits for the lock or is about to commit |
| `RecommendationProofs!SearchesBounded` | a feed makes at most `TopTagLimit` searches of each provider | none: about `Searches`, by the size of a cut ranking |
| `RecommendationProofs!AnswersHold` | while `Get` reads answers, every search has one that was read or is to come | `Expecting`: this, and outside of the search nothing is to come |
| `RecommendationProofs!FeedHolds` | `FeedFits` | `Feeding`: what holds of a request at each of its steps (`Right`), with `Expecting` |

**Why the invariants are needed.** Few of the properties are inductive by themselves. That a
user has at most `Limit` articles survives a commit only because the room was counted under
a lock that is still held, so `LimitInv` carries the count along from `SaveCount` to
`SaveCommit`; `Room` and `Cooled` are the same argument for passkeys and for the cooldown,
with an advisory lock in the last case. That a single instance executes rests on what it
did before it started the run. A success is complete because no unit disappears between the channel, the worker and
the database on any path of an error; `Accounted` follows each unit through all three. The
bound on failures of an address needs the logins that have passed the check but not failed
yet: `CheckPasses` can add one only while the count is below the limit, and `Wrong` moves
one from the first group to the second. A lock is not shortened because the level that it was
given by is below the one that the next failure uses, and time has passed since: `LocksStand`
says this without naming the moment at which the lock began.

**How the refinements go.** Each proof maps the rows to the variables of the abstract
module, shows that the initial states are mapped to initial states, and goes through the
actions: most leave the mapped rows alone, and each of the rest is one step of the ledger,
whose guard the invariant provides. `SavedArticles` and `Feedback` take their step at the
commit; `FetchScheduler` at each insert and update of a row; `PasskeyCeremony` at its
statements, since a ceremony is no transaction; `Recommendation` at the
begin, the commit and the failure of a click and at the commit of the saves of a feed; the
limiters of `Signup` at each call, where
the ledger has no sweeps and no late refills, so that the lemmas about `TokenBucket` have to
show that a bucket that was thrown away or not yet refilled looks like one that was always
there.

**How the feeds go.** A feed is folds over the answers, a sorted list cut at `FeedLimit`, and
popular articles that fill the rest. Three groups of lemmas take these apart. *Sorting:* a
finite set with a total order has exactly one sorted list (`OrderIsRank`: the place of an
item is the number of items before it), so that "the first `k` of the list" is a statement
about the set. *Folds:* a fold is a function on the subsets of its indices (`Folds`), which
exists by an induction over their size (`FoldExists`); `GatheredIs` and `DedupeCollected`
then say that the order of the answers is of no account: the articles are those that
were found, each with the tags of all its copies. *Filling:*
`FilledIs` and `RoomIsFilled` need that the database gives `2 * FeedLimit - 1` popular
articles at least, as up to `FeedLimit - 1` of them may be in the feed already. That a feed
is given only if one answer at least was good rests on `TopTagLimit > 0`: each feed searches
both providers, so that answers that are all bad fail both (`AllBadFailsBoth`).

**Assumptions.** The named assumptions say that sets of processes are disjoint or finite and
that limits are positive numbers; TLC evaluates all of them. Some carry a fact of the code:

- `ShiftAssumption`: the shift in `Failure` gives a number at every level that an account can
  reach, and never a smaller one at a higher level. The prover knows nothing about powers; in
  the code the largest shift, one minute to the left by ten, is far inside a
  `time.Duration`.
- `FeedbackAssumption`: the id of a question is the primary key of its table.
- `SignupAssumption`: `normalizeTags` refuses a list without a tag, and the clock starts no
  earlier than one sweep after its zero, as a clock of the present does.
- `RecommendationAssumption`: clicks carry tags of the model, and 0, the key of the popular
  articles, is none of them. There are finitely many articles, and an address names one. The
  constants of `recommend` are as in the code: at least one tag is searched for, what the
  database gives of Zenn reaches back as far as a search does, and the popular articles
  are enough to fill a feed.
- `AloneHolds`, `LedgerImplemented` and `SlotsHold` of `FetchSchedulerProofs` assume in their
  statements that the connection does not break before the outcome is written: finding 1
  shows that two instances may execute otherwise.

**What the proofs changed.** Three mistakes of the models came to light, none of which TLC
could see. Two branches of `Life` in `PasskeyCeremony` overlapped, so that its value was left
open. In `Signup` the type of the tags of a user had its parentheses in the wrong place and
excluded nothing. `TypeOK` of `Recommendation` stated the length of sorted lists, which is
not a type; it is part of `FeedFits` now. Sorting was `SetToSortSeq` of the community modules,
which rests on `SortSeq`, about which the library states nothing; it is `Sorted` now, the
sequence of the items in which each precedes all that follow.

**Only model-checked.** Liveness (`TransactionsEnd`, `LockLetGo`, `StopEnds`, `JobEnds`,
`GetEnds`), which is outside what the prover handles under fairness. Of `JobEnds` one half
is proved: `WorkShrinks` says that each step of a run brings `Execute`, the producer or a worker
onward, in an order that is bounded, and takes nothing back, so that no retry and no page
leads to a loop. That the run does not stop before its end is what is only model-checked.

## 6. Not modelled

Parts marked `not_modelled` in `PROJECT.json`. They fall into: what is planned (below); pure
conversions without state (parsing of answers, text checks, tag matching, configuration);
plain reads among the generated queries; and shell scripts around external tools. Of the
components that are modelled, these parts are left out:

- `SaveArticles` is one step of `FetchJob` that may fail. That two workers lock the same
  articles in different orders, and PostgreSQL ends one of them, is such a failure.
- `AllowBegin` counts the begins of ceremonies by themselves and refuses some; `LoginBegin` may
  happen or not. It also sweeps
  the entries that `LoginFlow` keeps, as `Failure` does there; what a sweep drops is over, and
  the next failure would begin it anew (`EntryFor`), so that no login tells the difference.
- The names of passkeys (`Rename`) and of tags, the titles of articles, and texts.
- What only reads: `List` of saved articles, `Status` of the feedback, `Authenticate`, and
  `ListByUser` of passkeys.
- The snapshot of the interests that is stored with a feedback, and scores of follow-ups.
- The limits of all calls and of single pages, which are plain calls of `Allow`, and the size
  of a body.
- `dbTaggedLimit`, which is far above what the two weeks of a feed hold.

## 7. Plan

1. `LoginPage` (`frontend/src/lib/passkeyLogin.ts`) and `SavedToggle` (`savedArticles.ts`): the
   two parts of the frontend where late answers meet newer ones.
2. `SaveArticles` with its row locks, and the deadlock that ends one of two transactions.
3. `Deploy`: the order of backup, migration, swap, and the way back.
4. Proofs about the new modules, as they come.

A run asks several questions of one instance, safety and liveness together where the
instance is small enough for both.
