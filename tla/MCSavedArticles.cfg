SPECIFICATION Spec
CONSTANTS
    Users = {u1}
    Articles = {a1, a2}
    Old = {a1, a2}
    Savers = {s1, s2}
    Learners = {l1, l2}
    Retainer = retain
    None = None
    Limit = 1
    Delay = 1
    MaxTime = 2
INVARIANTS TypeOK SavedWithinLimit LearnedOnce
PROPERTIES RetentionSparesSaved LearnedOnlyFromLastingSave ImplementsLedger
SYMMETRY Symmetry
