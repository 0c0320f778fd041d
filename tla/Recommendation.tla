--------------------------- MODULE Recommendation ---------------------------
(***************************************************************************)
(* The feed of a user and the learning from his clicks: the transaction    *)
(* that reads and writes his weights (store/interest.go), the searches     *)
(* that a feed makes of both providers at once, and the feed that is read  *)
(* from the stored articles instead (recommendation/service.go, score.go,  *)
(* store/feed_articles.go).                                                *)
(*                                                                         *)
(* One user, since nothing is shared by two.  A statement is an action,    *)
(* and what a transaction does while it holds the row of the user is one   *)
(* up to its commit.  The clients of the providers give only articles that *)
(* are valid.  Left out: titles, and the reasons of failures.              *)
(***************************************************************************)
EXTENDS InterestMath, Sequences, SequencesExt

CONSTANTS
    Saves, TagsOf,    \* saved articles that have not been learned, and their tags
    Articles,         \* records of url, source, tags, likes, age
    Clicks,           \* sets of tags that are sent by a click
    Readers,          \* requests for the feed
    Clickers,         \* requests that record a click
    QiitaWindow, ZennWindow, ZennStoredWindow, \* ages
    FeedLimit,        \* the articles of a feed, of each provider
    PopularLimit,     \* dbPopularLimit
    MaxInt64,
    MaxClicks, MaxChanges  \* bounds, for model checking

Requests  == Readers \cup Clickers
Providers == {"qiita", "zenn"}

\* Addresses are numbers, in their order.
Article == [url : Nat, source : Providers, tags : SUBSET Tags, likes : Nat, age : Nat]

ASSUME RecommendationAssumption ==
    /\ Readers \cap Clickers = {}
    /\ IsFiniteSet(Saves) /\ Clicks \subseteq SUBSET Tags /\ 0 \notin Tags
    /\ TopTagLimit > 0 /\ FeedLimit \in Nat /\ MaxInt64 \in Nat
    /\ \A s \in Saves : TagsOf[s] \subseteq Tags
    /\ IsFiniteSet(Articles) /\ Articles \subseteq Article
    /\ \A a, b \in Articles : a.url = b.url => a = b
    /\ QiitaWindow \in Nat /\ ZennWindow \in Nat
    /\ ZennStoredWindow \in Nat /\ ZennStoredWindow >= ZennWindow
    /\ PopularLimit \in Nat /\ PopularLimit >= 2 * FeedLimit - 1

VARIABLES
    weights,   \* rows of recommend
    saves,     \* saves[s]: "waiting", "due", "learned"
    stored,    \* rows of articles
    fromDB,    \* Service.Articles is set
    clicks, changes, \* counters of what has happened, for the bounds
    pc,
    clicked,   \* clicked[r]: the tags of a click
    learning,  \* learning[r]: the saves that r's transaction has marked
    seen,      \* seen[r]: the weights that r has read
    pending,   \* pending[r]: searches without an answer
    collected, \* collected[r]: the answers in the order of their arrival
    feed       \* feed[r]: the result

data == <<weights, saves, stored, fromDB, clicks, changes>>
own  == <<pc, clicked, learning, seen, pending, collected, feed>>
vars == <<data, own>>

Zero == [t \in Tags |-> 0]
NoFeed == [status |-> "none", qiita |-> <<>>, zenn |-> <<>>, warnings |-> {}]

\* A search asks a provider for a tag; 0 stands for the search without a tag.
Search == Providers \X (Tags \cup {0})

Answers == [search : Search, ok : BOOLEAN]

TypeOK ==
    /\ weights \in Weights
    /\ saves \in [Saves -> {"waiting", "due", "learned"}]
    /\ stored \in SUBSET Articles
    /\ fromDB \in BOOLEAN
    /\ pc \in [Requests -> {"idle", "check", "lock", "commit", "list", "search", "tagged",
                            "popularQiita", "popularZenn", "done"}]
    /\ seen \in [Requests -> Weights]
    /\ clicked \in [Requests -> SUBSET Tags]
    /\ learning \in [Requests -> SUBSET Saves]
    /\ pending \in [Requests -> SUBSET Search]
    /\ collected \in [Requests -> Seq(Answers)]
    /\ DOMAIN feed = Requests
    /\ \A r \in Requests : feed[r].warnings \subseteq Providers

Init ==
    /\ weights \in {w \in Weights : \A t \in Tags : w[t] \in {0, Scale}}
    /\ saves = [s \in Saves |-> "waiting"]
    /\ fromDB \in BOOLEAN
    /\ stored = IF fromDB THEN Articles ELSE {}
    /\ clicks = 0 /\ changes = 0
    /\ pc = [r \in Requests |-> "idle"]
    /\ clicked = [r \in Requests |-> {}]
    /\ learning = [r \in Requests |-> {}]
    /\ seen = [r \in Requests |-> Zero]
    /\ pending = [r \in Requests |-> {}]
    /\ collected = [r \in Requests |-> <<>>]
    /\ feed = [r \in Requests |-> NoFeed]

-----------------------------------------------------------------------------
(* Scores *)

Least(a, b) == IF a <= b THEN a ELSE b

\* Each tag counts once, and sums stay at the largest number.
Total(w, a) ==
    FoldFunction(LAMBDA x, y : Least(MaxInt64, x + y), 0, [t \in a.tags |-> w[t]])

\* The check of the product comes before it.
Score(w, a) ==
    LET total == Total(w, a)
    IN  IF a.source # "qiita" THEN total
        ELSE IF total > MaxInt64 \div (a.likes + 1) THEN MaxInt64
        ELSE total * (a.likes + 1)

\* ScoreArticles: equal scores by age and address; without a score, likes come first.
Before(w, a, b) ==
    LET s == Score(w, a)
        t == Score(w, b)
    IN  IF s # t THEN s > t
        ELSE IF s = 0 /\ a.likes # b.likes THEN a.likes > b.likes
        ELSE IF a.age # b.age THEN a.age < b.age
        ELSE a.url < b.url

FirstOf(s, n) == SubSeq(s, 1, Least(n, Len(s)))

\* All of the items, in an order in which no two are equal
Sorted(items, Precedes(_, _)) ==
    CHOOSE s \in [1..Cardinality(items) -> items] :
        \A i, j \in DOMAIN s : i < j => Precedes(s[i], s[j])

rankLimit(w, items, n) ==
    FirstOf(Sorted(items, LAMBDA a, b : Before(w, a, b)), n)

\* dedupe, for items that come after what is kept: the copies of an article differ in
\* their tags at most, which are put together.
Dedupe(kept, items) ==
    {[a EXCEPT !.tags = @ \cup UNION {b.tags : b \in {c \in items : c.url = a.url}}]
        : a \in kept}
    \cup {a \in items : ~\E b \in kept : b.url = a.url}

-----------------------------------------------------------------------------
(* Learning: List and UpdateForClick of store/interest.go *)

Go(r, to) == pc' = [pc EXCEPT ![r] = to]

Due == {s \in Saves : saves[s] = "due"}

\* Mutant: the weights are read without a lock.
UserAlwaysFree == TRUE

\* LockUserForRecommendation
UserFree == \A r \in Requests : pc[r] # "commit"

ClickBegin(r, tags) ==
    /\ r \in Clickers /\ pc[r] = "idle" /\ clicks < MaxClicks
    /\ Go(r, "lock")
    /\ clicks' = clicks + 1
    /\ clicked' = [clicked EXCEPT ![r] = tags]
    /\ UNCHANGED <<weights, saves, stored, fromDB, changes,
                   learning, seen, pending, collected, feed>>

FeedBegin(r) ==
    /\ r \in Readers /\ pc[r] = "idle"
    /\ Go(r, "check")
    /\ UNCHANGED <<data, clicked, learning, seen, pending, collected, feed>>

\* HasDueSavedLearning, without a lock
CheckDue(r) ==
    /\ pc[r] = "check"
    /\ Go(r, IF Due # {} THEN "lock" ELSE "list")
    /\ UNCHANGED <<data, clicked, learning, seen, pending, collected, feed>>

\* The lock, MarkDueSavedLearned with RecordSaveLearnings, and ListRecommendations
LockAndRead(r) ==
    /\ pc[r] = "lock" /\ UserFree
    /\ Go(r, "commit")
    /\ learning' = [learning EXCEPT ![r] = Due]
    /\ seen' = [seen EXCEPT ![r] = weights]
    /\ UNCHANGED <<data, clicked, pending, collected, feed>>

\* The saves were made before the click, and decay with it.
NewWeights(r) ==
    LET learned == UpdateOnSaves(seen[r], TagsOf, learning[r])
    IN  IF r \in Clickers THEN UpdateOnClick(learned, clicked[r]) ELSE learned

Commit(r) ==
    /\ pc[r] = "commit"
    /\ weights' = NewWeights(r)
    /\ saves' = [s \in Saves |-> IF s \in learning[r] THEN "learned" ELSE saves[s]]
    /\ Go(r, IF r \in Clickers THEN "idle" ELSE "list")
    /\ clicked' = [clicked EXCEPT ![r] = {}]
    /\ learning' = [learning EXCEPT ![r] = {}]
    /\ seen' = [seen EXCEPT ![r] = Zero]
    /\ UNCHANGED <<stored, fromDB, clicks, changes, pending, collected, feed>>

\* A statement fails, and the transaction is rolled back: 500.  A full list reads no
\* popular articles.
Break(r) ==
    /\ pc[r] \in {"check", "lock", "commit", "list", "tagged", "popularQiita", "popularZenn"}
    /\ pc[r] = "popularQiita" => Len(feed[r].qiita) < FeedLimit
    /\ pc[r] = "popularZenn" => Len(feed[r].zenn) < FeedLimit
    /\ Go(r, IF r \in Clickers THEN "idle" ELSE "done")
    /\ clicked' = [clicked EXCEPT ![r] = {}]
    /\ learning' = [learning EXCEPT ![r] = {}]
    /\ seen' = [seen EXCEPT ![r] = Zero]
    /\ feed' = [feed EXCEPT ![r] = [NoFeed EXCEPT !.status = "broken"]]
    /\ UNCHANGED <<data, pending, collected>>

-----------------------------------------------------------------------------
(* Get *)

\* One search for each tag and provider, and for the popular articles of each when
\* there are tags to spare.
Searches(w) ==
    Providers \X (Top(w) \cup (IF Cardinality(Top(w)) < TopTagLimit THEN {0} ELSE {}))

\* ListRecommendations, and the searches sent off
ListWeights(r) ==
    /\ pc[r] = "list"
    /\ seen' = [seen EXCEPT ![r] = weights]
    /\ IF fromDB THEN Go(r, "tagged") /\ UNCHANGED pending
       ELSE /\ Go(r, "search")
            /\ pending' = [pending EXCEPT ![r] = Searches(weights)]
    /\ UNCHANGED <<data, clicked, learning, collected, feed>>

\* What a search finds: Zenn does not tell the tags of an article.
Found(search) ==
    LET Known(a) == IF a.source = "qiita" THEN a
                    ELSE [a EXCEPT !.tags = IF search[2] = 0 THEN {} ELSE {search[2]}]
    IN  {Known(a) : a \in {b \in Articles : /\ b.source = search[1]
                                            /\ search[2] # 0 => search[2] \in b.tags}}

\* Mutant: a search that fails sends nothing.
AnswerGood(r) ==
    /\ pc[r] = "search"
    /\ \E search \in pending[r], ok \in BOOLEAN :
           /\ pending' = [pending EXCEPT ![r] = @ \ {search}]
           /\ collected' = IF ok THEN [collected EXCEPT ![r] =
                                          Append(@, [search |-> search, ok |-> ok])]
                           ELSE collected
    /\ UNCHANGED <<data, pc, clicked, learning, seen, feed>>

\* An answer comes, good or bad; FeedTimeout makes a bad one of those that are late.
Answer(r) ==
    /\ pc[r] = "search"
    /\ \E search \in pending[r], ok \in BOOLEAN :
           /\ pending' = [pending EXCEPT ![r] = @ \ {search}]
           /\ collected' = [collected EXCEPT ![r] =
                  Append(@, [search |-> search, ok |-> ok])]
    /\ UNCHANGED <<data, pc, clicked, learning, seen, feed>>

\* What some searches have found of some ages, put together in the order of the answers
Gathered(batches, searches, ages) ==
    FoldLeft(LAMBDA kept, b : IF b.ok /\ b.search \in searches
                              THEN Dedupe(kept, {a \in Found(b.search) : a.age \in ages})
                              ELSE kept,
             {}, batches)

Failed(batches) == {batches[i].search[1] : i \in {j \in DOMAIN batches : ~batches[j].ok}}
Succeeded(batches) == {batches[i].search[1] : i \in {j \in DOMAIN batches : batches[j].ok}}

OfQiita     == {"qiita"} \X (Tags \cup {0})
TaggedZenn  == {"zenn"} \X Tags
PopularZenn == {<<"zenn", 0>>}
FreshAges   == 0..ZennWindow
OldAges     == Nat \ FreshAges

\* Mutant: popular articles keep the old ones away.
ZennCandidatesMixed(batches) ==
    LET fresh   == Gathered(batches, TaggedZenn, FreshAges)
        old     == Gathered(batches, TaggedZenn, OldAges)
        popular == Gathered(batches, PopularZenn, FreshAges)
    IN  IF Dedupe(fresh, popular) = {} THEN old ELSE Dedupe(fresh, popular)

\* Old articles stand in for those that were found by a tag, if there is none of these.
ZennCandidates(batches) ==
    LET fresh   == Gathered(batches, TaggedZenn, FreshAges)
        old     == Gathered(batches, TaggedZenn, OldAges)
        popular == Gathered(batches, PopularZenn, FreshAges)
    IN  Dedupe(IF fresh = {} THEN old ELSE fresh, popular)

Assembled(w, batches) ==
    [status   |-> "ok",
     qiita    |-> rankLimit(w, Gathered(batches, OfQiita, 0..QiitaWindow),
                            FeedLimit),
     zenn     |-> rankLimit(w, ZennCandidates(batches), FeedLimit),
     warnings |-> Failed(batches)]

\* The channel has given as many answers as were expected.
Assemble(r) ==
    /\ pc[r] = "search" /\ Len(collected[r]) = Cardinality(Searches(seen[r]))
    /\ feed' = [feed EXCEPT ![r] =
           IF Failed(collected[r]) = Providers /\ Succeeded(collected[r]) = {}
           THEN [NoFeed EXCEPT !.status = "unavailable"]
           ELSE Assembled(seen[r], collected[r])]
    /\ Go(r, "done")
    /\ UNCHANGED <<data, clicked, learning, seen, pending, collected>>

-----------------------------------------------------------------------------
(* getFromDB: statements between which the stored articles may change; dbTaggedLimit *)
(* is far away.                                                                      *)

Tagged(source, w, window) ==
    {a \in stored : a.source = source /\ a.age <= window /\ a.tags \cap Top(w) # {}}

\* ListTagged of both providers
ReadTagged(r) ==
    LET w     == seen[r]
        zenn  == Tagged("zenn", w, ZennStoredWindow)
        fresh == {a \in zenn : a.age <= ZennWindow}
    IN  /\ pc[r] = "tagged"
        /\ feed' = [feed EXCEPT ![r] =
               [NoFeed EXCEPT
                   !.qiita = rankLimit(w, Tagged("qiita", w, QiitaWindow), FeedLimit),
                   !.zenn  = rankLimit(w, IF fresh = {} THEN zenn ELSE fresh, FeedLimit)]]
        /\ Go(r, "popularQiita")
        /\ UNCHANGED <<data, clicked, learning, seen, pending, collected>>

\* ListPopular: the most liked
Popular(source, window) ==
    LET inWindow == {a \in stored : a.source = source /\ a.age <= window}
        Liked(a, b) == IF a.likes # b.likes THEN a.likes > b.likes
                       ELSE IF a.age # b.age THEN a.age < b.age ELSE a.url > b.url
    IN  Range(FirstOf(Sorted(inWindow, Liked), PopularLimit))

\* fillWithPopular
Filled(w, ranked, source, window) ==
    LET chosen == {ranked[i].url : i \in DOMAIN ranked}
        rest   == {a \in Popular(source, window) : a.url \notin chosen}
    IN  ranked \o rankLimit(w, rest, FeedLimit - Len(ranked))

FillQiita(r) ==
    /\ pc[r] = "popularQiita"
    /\ feed' = [feed EXCEPT ![r].qiita = Filled(seen[r], @, "qiita", QiitaWindow)]
    /\ Go(r, "popularZenn")
    /\ UNCHANGED <<data, clicked, learning, seen, pending, collected>>

FillZenn(r) ==
    /\ pc[r] = "popularZenn"
    /\ feed' = [feed EXCEPT ![r].zenn = Filled(seen[r], @, "zenn", ZennWindow),
                            ![r].status = "ok"]
    /\ Go(r, "done")
    /\ UNCHANGED <<data, clicked, learning, seen, pending, collected>>

\* The answer is sent; the client may come back.
Reply(r) ==
    /\ pc[r] = "done"
    /\ Go(r, "idle")
    /\ seen' = [seen EXCEPT ![r] = Zero]
    /\ collected' = [collected EXCEPT ![r] = <<>>]
    /\ feed' = [feed EXCEPT ![r] = NoFeed]
    /\ UNCHANGED <<data, clicked, learning, pending>>

-----------------------------------------------------------------------------

\* Ten seconds after a save
Ripen(s) ==
    /\ saves[s] = "waiting"
    /\ saves' = [saves EXCEPT ![s] = "due"]
    /\ UNCHANGED <<weights, stored, fromDB, clicks, changes, own>>

\* The fetch job stores an article, or the retention deletes one.
ChangeStored(a) ==
    /\ fromDB /\ changes < MaxChanges
    /\ changes' = changes + 1
    /\ stored' = IF a \in stored THEN stored \ {a} ELSE stored \cup {a}
    /\ UNCHANGED <<weights, saves, fromDB, clicks, own>>

Learning(r) == CheckDue(r) \/ LockAndRead(r) \/ Commit(r)

Reading(r) ==
    \/ ListWeights(r) \/ Answer(r) \/ Assemble(r)
    \/ ReadTagged(r) \/ FillQiita(r) \/ FillZenn(r)

Next ==
    \/ \E r \in Requests :
           \/ FeedBegin(r) \/ Learning(r) \/ Reading(r) \/ Reply(r) \/ Break(r)
           \/ \E tags \in Clicks : ClickBegin(r, tags)
    \/ \E s \in Saves : Ripen(s)
    \/ \E a \in Articles : ChangeStored(a)

\* Statements end and searches have a time limit.
Spec == Init /\ [][Next]_vars /\ \A r \in Requests : WF_vars(Learning(r) \/ Reading(r))

-----------------------------------------------------------------------------
(* Properties *)

\* The clicks that are under way
ClickOf(r)  == [who |-> r, tags |-> clicked[r]]
OpenClicks  == {ClickOf(r) : r \in {q \in Clickers : pc[q] \in {"lock", "commit"}}}

Ledger == INSTANCE InterestLedger WITH open <- OpenClicks

\* Clicks and saves that requests learn at the same time are learned one after the other,
\* saves that are due before the click; none is learned twice, and a click whose
\* transaction fails not at all (UpdateForClick).
ImplementsInterests == Ledger!Spec

\* What a search has told of the articles of a provider, in whatever order
Told(batches) ==
    LET Good == {batches[i].search : i \in {j \in DOMAIN batches : batches[j].ok}}
        Tells(a) == {q \in Good : q[1] = a.source /\ (q[2] # 0 => q[2] \in a.tags)}
    IN  {IF a.source = "qiita" THEN a ELSE [a EXCEPT !.tags = {q[2] : q \in Tells(a)} \ {0}]
            : a \in {b \in Articles : Tells(b) # {}}}

\* The list has the best of the candidates, and no more.
Best(list, candidates, w) ==
    /\ Range(list) = {a \in candidates :
                        Cardinality({b \in candidates : Before(w, b, a)}) < FeedLimit}
    /\ \A i, j \in DOMAIN list : i < j => Before(w, list[i], list[j])

FoundFeedFits(r) ==
    LET all   == Told(collected[r])
        zenn  == {a \in all : a.source = "zenn"}
        old   == {a \in zenn : a.age > ZennWindow /\ a.tags # {}}
        fresh == {a \in zenn : a.age <= ZennWindow}
        byTag == {a \in fresh : a.tags # {}}
    IN  /\ Best(feed[r].qiita, {a \in all : a.source = "qiita" /\ a.age <= QiitaWindow}, seen[r])
        /\ Best(feed[r].zenn, IF byTag = {} THEN old \cup fresh ELSE fresh, seen[r])
        /\ feed[r].warnings = {b.search[1] : b \in {c \in Range(collected[r]) : ~c.ok}}
        /\ \E b \in Range(collected[r]) : b.ok

\* As long as nothing is stored or deleted, a list that has room has all there is.
StoredListFits(list, w, source, window, oldWindow) ==
    LET inWindow == {a \in stored : a.source = source /\ a.age <= window}
        Tagging(S) == {a \in S : a.tags \cap Top(w) # {}}
        tagged == IF Tagging(inWindow) # {} THEN Tagging(inWindow)
                  ELSE Tagging({a \in stored : a.source = source /\ a.age <= oldWindow})
        all    == tagged \cup inWindow
    IN  /\ Len(list) = Least(FeedLimit, Cardinality(all))
        /\ Range(list) \subseteq all
        /\ \A i \in DOMAIN list : i <= Cardinality(tagged) <=> list[i] \in tagged

\* Whatever the order of the answers, and whichever of them are bad, a feed has the best
\* of what was found and once: old articles of Zenn only if none that is fresh was found
\* by a tag, a warning for a provider one of whose searches failed, and no feed at all
\* only if nothing was found at all.  A feed from the database has the articles with the
\* user's tags first, and popular ones in all the room that is left (Get, getFromDB).
\* No list is ever longer than FeedLimit.
FeedFits ==
  /\ \A r \in Requests : Len(feed[r].qiita) <= FeedLimit /\ Len(feed[r].zenn) <= FeedLimit
  /\ \A r \in Readers : pc[r] = "done" =>
        /\ feed[r].status = "ok" =>
               \A list \in {feed[r].qiita, feed[r].zenn} :
                   \A i, j \in DOMAIN list : list[i].url = list[j].url => i = j
        /\ feed[r].status = "ok" /\ ~fromDB => FoundFeedFits(r)
        /\ feed[r].status = "ok" /\ fromDB /\ changes = 0 =>
               /\ StoredListFits(feed[r].qiita, seen[r], "qiita", QiitaWindow, QiitaWindow)
               /\ StoredListFits(feed[r].zenn, seen[r], "zenn", ZennWindow, ZennStoredWindow)
        /\ feed[r].status = "unavailable" => \A b \in Range(collected[r]) : ~b.ok

\* A request for a feed is answered, however many of its searches fail or learn at the
\* same time as clicks (the channel of Get is read as often as searches were sent off).
GetEnds == \A r \in Readers : pc[r] \notin {"idle", "done"} ~> pc[r] = "done"

=============================================================================
