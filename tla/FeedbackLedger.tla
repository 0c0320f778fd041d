--------------------------- MODULE FeedbackLedger ---------------------------
(***************************************************************************)
(* What the feedback promises, without transactions: the life of a prompt  *)
(* and of the answers given to it.  An outcome is final, a later answer    *)
(* adds to the first and never replaces it, and the answers of a prompt go *)
(* when the prompt goes (docs/superpowers/specs/2026-09-10-user-feedback-  *)
(* design.md, and the tables of db/migrations/00004_user_feedback.sql).    *)
(***************************************************************************)
CONSTANT Prompts

VARIABLES
    life,     \* life[p]: how far prompt p has come
    answered  \* answered[p]: the questions of p that have an answer

vars == <<life, answered>>

Init ==
    /\ life = [p \in Prompts |-> "none"]
    /\ answered = [p \in Prompts |-> {}]

Becomes(p, from, to) ==
    /\ life[p] \in from
    /\ life' = [life EXCEPT ![p] = to]

Show(p) == Becomes(p, {"none"}, "shown") /\ UNCHANGED answered

\* The first answer; it may be followed up, or be all there is to answer.
Rate(p) ==
    /\ \E to \in {"partial", "completed"} : Becomes(p, {"shown"}, to)
    /\ \E q \in answered'[p] : answered' = [answered EXCEPT ![p] = {q}]

FollowUp(p) ==
    /\ Becomes(p, {"partial"}, "completed")
    /\ answered[p] \subseteq answered'[p]
    /\ answered' = [answered EXCEPT ![p] = answered'[p]]

Dismiss(p) == Becomes(p, {"shown", "partial"}, "dismissed") /\ UNCHANGED answered

Expire(P) ==
    /\ \A p \in P : life[p] # "none"
    /\ life' = [p \in Prompts |-> IF p \in P THEN "gone" ELSE life[p]]
    /\ answered' = [p \in Prompts |-> IF p \in P THEN {} ELSE answered[p]]

Next ==
    \/ \E p \in Prompts : Show(p) \/ Rate(p) \/ FollowUp(p) \/ Dismiss(p)
    \/ \E P \in SUBSET Prompts : Expire(P)

Spec == Init /\ [][Next]_vars
=============================================================================
