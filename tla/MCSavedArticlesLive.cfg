SPECIFICATION FairSpec
CONSTANTS
    Users = {u1}
    Articles = {a1}
    Old = {a1}
    Savers = {s1, s2}
    Learners = {l1}
    Retainer = retain
    None = None
    Limit = 1
    Delay = 1
    MaxTime = 1
PROPERTIES TransactionsEnd
