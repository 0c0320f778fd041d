---------------------------- MODULE InterestMath ----------------------------
(***************************************************************************)
(* How interests are learned and ranked (server/internal/interest).  A     *)
(* weight of 0 and a tag without a row are the same to all who read them.  *)
(* Tags are numbers, in the order of their normalized names.               *)
(***************************************************************************)
EXTENDS Naturals, FiniteSets

CONSTANTS
    Tags,
    Scale,
    DecayNumerator, DecayDenominator,
    ClickBoost, SaveBoost,
    TopTagLimit

ASSUME InterestAssumption ==
    /\ Tags \subseteq Nat /\ IsFiniteSet(Tags)
    /\ Scale \in Nat /\ ClickBoost \in 0..Scale /\ SaveBoost \in 0..Scale
    /\ DecayNumerator \in Nat /\ DecayDenominator \in Nat \ {0}
    /\ DecayNumerator <= DecayDenominator
    /\ TopTagLimit \in Nat

Weights == [Tags -> 0..Scale]

\* Mutant: the sum of two boosts is not cut.
Unclamped(value) == value

clamp(value) == IF value > Scale THEN Scale ELSE value

Decayed(value) == (clamp(value) * DecayNumerator) \div DecayDenominator

\* All weights decay, and what was clicked rises, once for each tag.
UpdateOnClick(w, clicked) ==
    [t \in Tags |-> IF t \in clicked THEN clamp(Decayed(w[t]) + ClickBoost)
                                     ELSE Decayed(w[t])]

\* What was saved rises and nothing decays; saves are a function to the tags of each.
UpdateOnSaves(w, tagsOf, saves) ==
    [t \in Tags |->
        LET raised == {s \in saves : t \in tagsOf[s]}
        IN  clamp(w[t] + SaveBoost * Cardinality(raised))]

\* Top: the strongest weights; equal ones by name.
Stronger(w, t, u) == w[t] > w[u] \/ (w[t] = w[u] /\ t < u)

Top(w) == {t \in Tags : /\ w[t] > 0
                        /\ Cardinality({u \in Tags : Stronger(w, u, t)}) < TopTagLimit}

=============================================================================
