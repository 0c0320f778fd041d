----------------------------- MODULE QuotaLedger -----------------------------
(***************************************************************************)
(* What a limit of calls promises: each key has a bucket of its own that   *)
(* fills with time and is never thrown away, unless so many keys are known *)
(* that one has to be forgotten.  A unit of the level is what returns in   *)
(* one unit of time, and a call costs Every of them                        *)
(* (docs/BasicDesignSpecifications/API/ApiCommonRules.md, and the comments *)
(* of platform/ratelimit/ratelimit.go).                                    *)
(***************************************************************************)
EXTENDS Naturals

CONSTANTS Keys, Burst, Every

VARIABLES
    level,   \* level[k]: what key k may still use
    crowded  \* as many keys are known as can be

Full == Burst * Every

Init ==
    /\ level = [k \in Keys |-> Full]
    /\ crowded = FALSE

Crowding == crowded' \in BOOLEAN

\* A call that is allowed
Use(k) ==
    /\ level[k] >= Every
    /\ level' = [level EXCEPT ![k] = @ - Every]
    /\ Crowding

\* A call that is charged afterwards, whatever is left
Charge(k) ==
    /\ level' = [level EXCEPT ![k] = IF @ > Every THEN @ - Every ELSE 0]
    /\ Crowding

\* One key is forgotten for one that was not known, of which a call is charged at once.
Forget(k, other) ==
    /\ crowded /\ k # other /\ level[other] = Full
    /\ level' = [level EXCEPT ![k] = Full, ![other] = Full - Every]
    /\ Crowding

Refill ==
    /\ level' = [k \in Keys |-> IF level[k] < Full THEN level[k] + 1 ELSE Full]
    /\ UNCHANGED crowded

Next ==
    \/ Refill
    \/ \E k \in Keys : Use(k) \/ Charge(k) \/ \E other \in Keys : Forget(k, other)

Spec == Init /\ [][Next]_level
=============================================================================
