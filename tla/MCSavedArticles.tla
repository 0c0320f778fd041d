--------------------------- MODULE MCSavedArticles ---------------------------
EXTENDS SavedArticles, TLC

\* Users, articles and Save requests are interchangeable.
Symmetry == Permutations(Users) \cup Permutations(Articles) \cup Permutations(Savers)
            \cup Permutations(Learners)
=============================================================================
