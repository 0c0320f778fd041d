----------------------------- MODULE SavedLedger -----------------------------
(***************************************************************************)
(* What saving an article promises, with every operation one indivisible   *)
(* step: a user holds at most Limit saves, all of existing articles; a     *)
(* save raises the user's interests once in a lifetime, and only when it   *)
(* has lasted Delay; an article that somebody saved is not deleted.        *)
(* SavedArticles implements this specification with transactions.          *)
(***************************************************************************)
EXTENDS Naturals, FiniteSets

CONSTANTS Users, Articles, Limit, Delay

VARIABLES
    now,
    articles,   \* the articles that exist
    saved,      \* saved[u]: the articles u keeps
    savedAt,    \* savedAt[u][a]: when u saved a
    learned     \* the pairs <<u, a>> that have raised the interests of u

vars == <<now, articles, saved, savedAt, learned>>

Init ==
    /\ now = 0
    /\ articles = Articles
    /\ saved = [u \in Users |-> {}]
    /\ savedAt = [u \in Users |-> [a \in Articles |-> 0]]
    /\ learned = {}

\* A save is dated by the start t of the request, which is not after now.
Save(u, a, t) ==
    /\ a \in articles \ saved[u]
    /\ Cardinality(saved[u]) < Limit
    /\ saved' = [saved EXCEPT ![u] = @ \cup {a}]
    /\ savedAt' = [savedAt EXCEPT ![u][a] = t]
    /\ UNCHANGED <<now, articles, learned>>

Unsave(u, a) ==
    /\ a \in saved[u]
    /\ saved' = [saved EXCEPT ![u] = @ \ {a}]
    /\ savedAt' = [savedAt EXCEPT ![u][a] = 0]
    /\ UNCHANGED <<now, articles, learned>>

Learn(u, A) ==
    /\ A \subseteq saved[u]
    /\ \A a \in A : savedAt[u][a] + Delay <= now /\ <<u, a>> \notin learned
    /\ learned' = learned \cup ({u} \X A)
    /\ UNCHANGED <<now, articles, saved, savedAt>>

Retire(A) ==
    /\ A \subseteq articles
    /\ \A u \in Users : A \cap saved[u] = {}
    /\ articles' = articles \ A
    /\ UNCHANGED <<now, saved, savedAt, learned>>

Tick == now' = now + 1 /\ UNCHANGED <<articles, saved, savedAt, learned>>

Next ==
    \/ \E u \in Users, a \in Articles :
          Unsave(u, a) \/ \E t \in 0..now : Save(u, a, t)
    \/ \E u \in Users, A \in SUBSET Articles : Learn(u, A)
    \/ \E A \in SUBSET Articles : Retire(A)
    \/ Tick

Spec == Init /\ [][Next]_vars
=============================================================================
