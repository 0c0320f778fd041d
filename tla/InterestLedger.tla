--------------------------- MODULE InterestLedger ---------------------------
(***************************************************************************)
(* What the learning of interests promises: each click is learned once, or *)
(* not at all when its transaction fails; each save that has lasted is     *)
(* learned once; all of them as a whole and one after the other.  Saves    *)
(* that are due are learned before the click that comes next, so that they *)
(* decay with it (docs/superpowers/specs, issues 123 and 236).             *)
(***************************************************************************)
EXTENDS InterestMath

CONSTANTS Saves, TagsOf, Clickers

VARIABLES
    weights, \* weights[t]: how much the user is interested in tag t
    saves,   \* saves[s]: "waiting", "due" or "learned"
    open     \* the clicks that were sent and have no answer yet

DueSaves == {s \in Saves : saves[s] = "due"}

\* A save is learned on due.
Ripen(s) ==
    /\ saves[s] = "waiting"
    /\ saves' = [saves EXCEPT ![s] = "due"]
    /\ UNCHANGED <<weights, open>>

\* Saves that ripen while others are learned may be left to the next time.
Learned(S, w) ==
    /\ S \subseteq DueSaves
    /\ weights' = w
    /\ saves' = [s \in Saves |-> IF s \in S THEN "learned" ELSE saves[s]]

LearnSaves ==
    /\ \E S \in SUBSET Saves : Learned(S, UpdateOnSaves(weights, TagsOf, S))
    /\ UNCHANGED open

\* One click at a time for each request
Send(click) ==
    /\ \A k \in open : k.who # click.who
    /\ open' = open \cup {click}
    /\ UNCHANGED <<weights, saves>>

Learn(click) ==
    /\ \E S \in SUBSET Saves :
           Learned(S, UpdateOnClick(UpdateOnSaves(weights, TagsOf, S), click.tags))
    /\ open' = open \ {click}

Lose(click) ==
    /\ open' = open \ {click}
    /\ UNCHANGED <<weights, saves>>

Init ==
    /\ weights \in Weights
    /\ saves = [s \in Saves |-> "waiting"]
    /\ open = {}

Next ==
    \/ LearnSaves
    \/ \E s \in Saves : Ripen(s)
    \/ \E click \in [who : Clickers, tags : SUBSET Tags] : Send(click)
    \/ \E click \in open : Learn(click) \/ Lose(click)

Spec == Init /\ [][Next]_<<weights, saves, open>>
=============================================================================
