------------------------------ MODULE MCFeedback -----------------------------
EXTENDS Feedback, TLC

Root(id) == [id |-> id, key |-> id, order |-> 1, required |-> TRUE,
             ifQuestion |-> None, max |-> None]
Followup(id, order, required, root) ==
    [id |-> id, key |-> id, order |-> order, required |-> required,
     ifQuestion |-> root, max |-> FollowupScoreMax]

\* Two versions of one form; the second cools down sooner.  The third has two roots.
MCFormRows ==
    ("v1" :> [key |-> "app", cooldown |-> 2,
             questions |-> {Root("r1"), Followup("must", 2, TRUE, "r1"),
                            Followup("may", 3, FALSE, "r1")}])
    @@ ("v2" :> [key |-> "app", cooldown |-> 1, questions |-> {Root("r2")}])
    @@ ("bad" :> [key |-> "app", cooldown |-> 1, questions |-> {Root("r1"), Root("r2")}])

\* Complete, without the question that must be answered, and with one answer twice.
MCAnswerLists ==
    {<<[question |-> "must", score |-> 4]>>, <<[question |-> "may", score |-> 4]>>,
     <<[question |-> "must", score |-> 4], [question |-> "must", score |-> 1]>>}

Symmetry == Permutations(Users) \cup Permutations(Prompts) \cup Permutations(Tabs)
=============================================================================
