---------------------------- MODULE SavedArticles ----------------------------
(***************************************************************************)
(* Saved articles, the learning that follows a save, and the retention     *)
(* job that deletes old articles, as transactions over one PostgreSQL      *)
(* database at READ COMMITTED                                              *)
(* (server/internal/store/saved_articles.go, interest.go, articles.go).    *)
(*                                                                         *)
(* Each action is one statement, or the commit, of one transaction.  The   *)
(* variables up to "boosts" are the committed rows; what an open           *)
(* transaction has written and not committed is told by its pc.            *)
(*                                                                         *)
(* Row locks are derived from the pc of their holders: a statement that    *)
(* has to wait for a lock is an action that is not enabled.                *)
(***************************************************************************)
EXTENDS Naturals, FiniteSets

CONSTANTS
    Users,      \* the rows of "user"; no code deletes one
    Articles,   \* ids of the articles; an id that is deleted never comes back
    Old,        \* the articles past their retention period
    Savers,     \* API requests that run SavedArticles.Save
    Learners,   \* API requests that run applyDueSaveLearning
    Retainer,   \* the fetch job's transaction ArticleFetch.DeleteExpired
    Limit,      \* SavedArticlesLimit
    Delay,      \* SaveLearnDelay, in ticks of the clock
    None,       \* no user, no article: what an idle request works for
    MaxTime     \* bound of the clock, for model checking

ASSUME ConstantsAssumption ==
    /\ IsFiniteSet(Articles)
    /\ Old \subseteq Articles
    /\ Limit \in Nat \ {0}
    /\ Delay \in Nat
    /\ MaxTime \in Nat
    /\ Savers \cap Learners = {}
    /\ Retainer \notin Savers \cup Learners
    /\ None \notin Users \cup Articles

VARIABLES
    now,        \* the database's clock
    articles,   \* ids of the rows of articles
    saved,      \* saved[u]: articles with a row (u, a) in saved_articles
    savedAt,    \* savedAt[u][a]: created_at of that row (0 when there is none)
    marked,     \* marked[u]: the saved articles whose learned_at is set
    learnings,  \* rows of saved_article_learnings
    boosts,     \* boosts[u][a]: how often u's interests were raised for saving a
    pc,         \* pc[p]: the statement that p's transaction runs next
    who,        \* who[p]: the user p works for
    what,       \* what[s]: the article that Save request s saves
    begun,      \* begun[p]: now() of p's transaction, its start
    batch,      \* batch[p]: the articles p's transaction has marked or locked
    doomed      \* the articles DeleteUnsavedArticlesByID has deleted, uncommitted

rows == <<articles, saved, savedAt, marked, learnings, boosts>>
txs  == <<pc, who, what, begun, batch, doomed>>
vars == <<now, rows, txs>>

Requests == Savers \cup Learners
Procs    == Requests \cup {Retainer}

SaverPC    == {"idle", "begun", "locked", "unsaved", "found", "room", "inserted"}
LearnerPC  == {"idle", "begun", "locked", "marked", "recorded"}
RetainerPC == {"idle", "listed", "deleted"}

TypeOK ==
    /\ now \in Nat
    /\ articles \subseteq Articles
    /\ saved \in [Users -> SUBSET Articles]
    /\ savedAt \in [Users -> [Articles -> Nat]]
    /\ marked \in [Users -> SUBSET Articles]
    /\ learnings \subseteq Users \X Articles
    /\ boosts \in [Users -> [Articles -> Nat]]
    /\ pc \in [Procs -> SaverPC \cup LearnerPC \cup RetainerPC]
    /\ \A s \in Savers : pc[s] \in SaverPC
    /\ \A l \in Learners : pc[l] \in LearnerPC
    /\ pc[Retainer] \in RetainerPC
    /\ who \in [Requests -> Users \cup {None}]
    /\ what \in [Savers -> Articles \cup {None}]
    /\ begun \in [Requests -> Nat]
    /\ batch \in [Learners \cup {Retainer} -> SUBSET Articles]
    /\ doomed \subseteq Articles

Init ==
    /\ now = 0
    /\ articles = Articles
    /\ saved = [u \in Users |-> {}]
    /\ savedAt = [u \in Users |-> [a \in Articles |-> 0]]
    /\ marked = [u \in Users |-> {}]
    /\ learnings = {}
    /\ boosts = [u \in Users |-> [a \in Articles |-> 0]]
    /\ pc = [p \in Procs |-> "idle"]
    /\ who = [p \in Requests |-> None]
    /\ what = [s \in Savers |-> None]
    /\ begun = [p \in Requests |-> 0]
    /\ batch = [p \in Learners \cup {Retainer} |-> {}]
    /\ doomed = {}

-----------------------------------------------------------------------------
(* Row locks *)

\* LockUserForSavedArticles and LockUserForRecommendation both take the row of
\* the user FOR UPDATE, and keep it until their transaction ends.
HoldsUser(p, u) == who[p] = u /\ pc[p] \notin {"idle", "begun"}

\* Mutant: an inserted row does not lock the article it refers to.
SharesNothing(p, a) == FALSE

\* The foreign key of an inserted saved_articles or saved_article_learnings row
\* takes FOR KEY SHARE on the article.
SharesArticle(p, a) ==
    \/ p \in Savers /\ pc[p] = "inserted" /\ what[p] = a
    \/ /\ p \in Learners
       /\ pc[p] = "recorded"
       /\ a \in batch[p]
       /\ <<who[p], a>> \notin learnings

\* Mutant: the retention transaction keeps its locks after it has ended.
RemovingForEver(a) == a \in Old

\* LockExpiredArticleIDs takes the listed articles FOR UPDATE.
Removing(a) == pc[Retainer] # "idle" /\ a \in batch[Retainer]

\* Mutant: the learning reads the due saves without locking their rows.
MarkingNoRow(u, a) == FALSE

\* MarkDueSavedLearned has updated the row (u, a) and has not committed.
MarkingRow(u, a) ==
    \E l \in Learners :
        who[l] = u /\ pc[l] \in {"marked", "recorded"} /\ a \in batch[l]

\* Mutant: Save and the learning read the user's row without FOR UPDATE.
UserAlwaysFree(u) == TRUE

UserFree(u) == \A p \in Requests : ~HoldsUser(p, u)

\* What a request keeps in its transaction is gone when the transaction ends.
Forget(p) ==
    /\ who' = [q \in Requests |-> IF q = p THEN None ELSE who[q]]
    /\ what' = [q \in Savers |-> IF q = p THEN None ELSE what[q]]
    /\ begun' = [q \in Requests |-> IF q = p THEN 0 ELSE begun[q]]

Step(p, from, to) ==
    /\ pc[p] = from
    /\ pc' = [pc EXCEPT ![p] = to]
    /\ IF to = "idle" THEN Forget(p) ELSE UNCHANGED <<who, what, begun>>

-----------------------------------------------------------------------------
(* SavedArticles.Save *)

SaveBegin(s, u, a) ==
    /\ pc[s] = "idle"
    /\ pc' = [pc EXCEPT ![s] = "begun"]
    /\ who' = [who EXCEPT ![s] = u]
    /\ what' = [what EXCEPT ![s] = a]
    /\ begun' = [begun EXCEPT ![s] = now]
    /\ UNCHANGED <<now, rows, batch, doomed>>

SaveLockUser(s) ==
    /\ UserFree(who[s])
    /\ Step(s, "begun", "locked")
    /\ UNCHANGED <<now, rows, batch, doomed>>

\* A saved article stays as it is, even at the limit.
SaveCheckSaved(s) ==
    /\ Step(s, "locked", IF what[s] \in saved[who[s]] THEN "idle" ELSE "unsaved")
    /\ UNCHANGED <<now, rows, batch, doomed>>

\* ErrArticleNotFound
SaveCheckArticle(s) ==
    /\ Step(s, "unsaved", IF what[s] \in articles THEN "found" ELSE "idle")
    /\ UNCHANGED <<now, rows, batch, doomed>>

\* Mutant: the limit is compared with > instead of >=.
SaveCountOffByOne(s) ==
    /\ Step(s, "found",
            IF Cardinality(saved[who[s]]) > Limit THEN "idle" ELSE "room")
    /\ UNCHANGED <<now, rows, batch, doomed>>

\* ErrSavedLimitReached
SaveCount(s) ==
    /\ Step(s, "found",
            IF Cardinality(saved[who[s]]) >= Limit THEN "idle" ELSE "room")
    /\ UNCHANGED <<now, rows, batch, doomed>>

\* The foreign key waits for the retention transaction that holds the article,
\* and answers ErrArticleNotFound when that transaction has deleted it.
SaveInsert(s) ==
    /\ ~Removing(what[s])
    /\ Step(s, "room", IF what[s] \in articles THEN "inserted" ELSE "idle")
    /\ UNCHANGED <<now, rows, batch, doomed>>

\* Mutant: created_at is left without a value.
SaveCommitUndated(s) ==
    /\ Step(s, "inserted", "idle")
    /\ saved' = [saved EXCEPT ![who[s]] = @ \cup {what[s]}]
    /\ savedAt' = [savedAt EXCEPT ![who[s]][what[s]] = None]
    /\ UNCHANGED <<now, articles, marked, learnings, boosts, batch, doomed>>

SaveCommit(s) ==
    /\ Step(s, "inserted", "idle")
    /\ saved' = [saved EXCEPT ![who[s]] = @ \cup {what[s]}]
    /\ savedAt' = [savedAt EXCEPT ![who[s]][what[s]] = begun[s]]
    /\ UNCHANGED <<now, articles, marked, learnings, boosts, batch, doomed>>

-----------------------------------------------------------------------------
(* SavedArticles.Unsave: one statement outside any transaction *)

Unsave(u, a) ==
    /\ a \in saved[u]
    /\ ~MarkingRow(u, a)
    /\ saved' = [saved EXCEPT ![u] = @ \ {a}]
    /\ savedAt' = [savedAt EXCEPT ![u][a] = 0]
    /\ marked' = [marked EXCEPT ![u] = @ \ {a}]
    /\ UNCHANGED <<now, articles, learnings, boosts, txs>>

-----------------------------------------------------------------------------
(* applyDueSaveLearning, called by Interest.List and Interest.UpdateForClick *)

LearnBegin(l, u) ==
    /\ pc[l] = "idle"
    /\ pc' = [pc EXCEPT ![l] = "begun"]
    /\ who' = [who EXCEPT ![l] = u]
    /\ begun' = [begun EXCEPT ![l] = now]
    /\ UNCHANGED <<now, rows, what, batch, doomed>>

LearnLockUser(l) ==
    /\ UserFree(who[l])
    /\ Step(l, "begun", "locked")
    /\ UNCHANGED <<now, rows, batch, doomed>>

\* The saves of u that are old enough at time t and not reflected yet.
Due(u, t) == {a \in saved[u] \ marked[u] : savedAt[u][a] + Delay <= t}

\* MarkDueSavedLearned
LearnMark(l) ==
    /\ Step(l, "locked", "marked")
    /\ batch' = [batch EXCEPT ![l] = Due(who[l], begun[l])]
    /\ UNCHANGED <<now, rows, doomed>>

\* Mutant: every due save is learned, whether it was learned before or not.
FreshAgain(l) == batch[l]

\* The articles that RecordSaveLearnings records for the first time.
Fresh(l) == {a \in batch[l] : <<who[l], a>> \notin learnings}

\* RecordSaveLearnings: the foreign key of each new row waits for a retention
\* transaction that holds its article.
LearnRecord(l) ==
    /\ \A a \in Fresh(l) : ~Removing(a)
    /\ Step(l, "marked", "recorded")
    /\ UNCHANGED <<now, rows, batch, doomed>>

\* The interests are read and written under the lock of the user: one step with
\* the commit.
LearnCommit(l) ==
    LET u == who[l] IN
    /\ Step(l, "recorded", "idle")
    /\ marked' = [marked EXCEPT ![u] = @ \cup batch[l]]
    /\ learnings' = learnings \cup ({u} \X batch[l])
    /\ boosts' = [boosts EXCEPT ![u] =
                     [a \in Articles |-> @[a] + (IF a \in Fresh(l) THEN 1 ELSE 0)]]
    /\ batch' = [batch EXCEPT ![l] = {}]
    /\ UNCHANGED <<now, articles, saved, savedAt, doomed>>

-----------------------------------------------------------------------------
(* ArticleFetch.DeleteExpired *)

\* LockExpiredArticleIDs: SKIP LOCKED leaves out the articles another transaction
\* shares.
RetainList ==
    /\ Step(Retainer, "idle", "listed")
    /\ batch' = [batch EXCEPT ![Retainer] =
                    {a \in articles \cap Old :
                        \A p \in Requests : ~SharesArticle(p, a)}]
    /\ UNCHANGED <<now, rows, doomed>>

SavedBySome(a) == \E u \in Users : a \in saved[u]

\* DeleteUnsavedArticlesByID runs on a new snapshot, which holds every save
\* committed before it.
RetainDelete ==
    /\ Step(Retainer, "listed", "deleted")
    /\ doomed' = {a \in batch[Retainer] : ~SavedBySome(a)}
    /\ UNCHANGED <<now, rows, batch>>

\* ON DELETE CASCADE takes the rows of saved_articles and
\* saved_article_learnings with the article.
RetainCommit ==
    /\ Step(Retainer, "deleted", "idle")
    /\ articles' = articles \ doomed
    /\ saved' = [u \in Users |-> saved[u] \ doomed]
    /\ savedAt' = [u \in Users |->
                      [a \in Articles |-> IF a \in doomed THEN 0 ELSE savedAt[u][a]]]
    /\ marked' = [u \in Users |-> marked[u] \ doomed]
    /\ learnings' = {x \in learnings : x[2] \notin doomed}
    /\ batch' = [batch EXCEPT ![Retainer] = {}]
    /\ doomed' = {}
    /\ UNCHANGED <<now, boosts>>

-----------------------------------------------------------------------------
(* A failed statement, a cancelled request or a crash rolls a transaction back. *)

Rollback(p) ==
    /\ pc[p] # "idle"
    /\ Step(p, pc[p], "idle")
    /\ batch' = [q \in DOMAIN batch |-> IF q = p THEN {} ELSE batch[q]]
    /\ doomed' = IF p = Retainer THEN {} ELSE doomed
    /\ UNCHANGED <<now, rows>>

Tick ==
    /\ now < MaxTime
    /\ now' = now + 1
    /\ UNCHANGED <<rows, txs>>

SaveStep(s) ==
    \/ SaveLockUser(s) \/ SaveCheckSaved(s) \/ SaveCheckArticle(s)
    \/ SaveCount(s) \/ SaveInsert(s) \/ SaveCommit(s)

LearnStep(l) == LearnLockUser(l) \/ LearnMark(l) \/ LearnRecord(l) \/ LearnCommit(l)

RetainStep == RetainList \/ RetainDelete \/ RetainCommit

Next ==
    \/ \E s \in Savers :
          SaveStep(s) \/ \E u \in Users, a \in Articles : SaveBegin(s, u, a)
    \/ \E u \in Users, a \in Articles : Unsave(u, a)
    \/ \E l \in Learners : LearnStep(l) \/ \E u \in Users : LearnBegin(l, u)
    \/ RetainStep
    \/ \E p \in Procs : Rollback(p)
    \/ Tick

Spec == Init /\ [][Next]_vars

-----------------------------------------------------------------------------
(* Properties *)

\* However many requests of one user save at the same time, the user never has
\* more than SavedArticlesLimit saved articles: Save counts under the lock of
\* the user's row (saved_articles.go, LockUserForSavedArticles).
SavedWithinLimit == \A u \in Users : Cardinality(saved[u]) <= Limit

\* The retention job never deletes an article that somebody has saved, not even
\* one whose save commits while the job runs (articles.go, DeleteExpired: rows
\* locked with SKIP LOCKED, then checked again on a new snapshot).
RetentionSparesSaved ==
    [][\A u \in Users : saved[u] \subseteq articles']_vars

\* The interests of a user are raised at most once for an article, however often
\* it is unsaved and saved again, and a mark (learned_at) is never on a row whose
\* learning was not recorded: the mark, the record and the new interests are
\* committed together (saved_articles.go, applyDueSaveLearning).
LearnedOnce ==
    \A u \in Users :
        /\ \A a \in articles :
              boosts[u][a] = (IF <<u, a>> \in learnings THEN 1 ELSE 0)
        /\ \A a \in marked[u] : <<u, a>> \in learnings

\* Interests are raised for an article only while it is saved and only when this
\* save has lasted SaveLearnDelay: a save taken back in time teaches nothing,
\* also when Unsave races with the request that learns.
LearnedOnlyFromLastingSave ==
    [][\A u \in Users, a \in Articles :
          boosts'[u][a] # boosts[u][a] =>
              a \in saved[u] /\ savedAt[u][a] + Delay <= now]_vars

Ledger == INSTANCE SavedLedger WITH
    learned <- {x \in Users \X Articles : boosts[x[1]][x[2]] > 0}

\* The transactions together behave as if Save, Unsave, the learning and the
\* retention were indivisible operations on the saved articles.
ImplementsLedger == Ledger!Spec

-----------------------------------------------------------------------------
(* Liveness.  PostgreSQL queues the transactions that wait for a row lock, so  *)
(* a statement that can run again and again is run: strong fairness of the     *)
(* statements of an open transaction.  Nothing makes a request start.          *)

Fairness ==
    /\ \A s \in Savers : SF_vars(SaveStep(s))
    /\ \A l \in Learners : SF_vars(LearnStep(l))
    /\ WF_vars(RetainDelete \/ RetainCommit)

FairSpec == Spec /\ Fairness

\* Every transaction ends: Save, the learning and the retention lock the user and
\* the articles in orders that cannot wait for each other in a circle.
TransactionsEnd == \A p \in Procs : pc[p] # "idle" ~> pc[p] = "idle"
=============================================================================
