SPECIFICATION Spec
CONSTANTS
    u1 = u1
    u2 = u2
    c1 = c1
    c2 = c2
    h1 = h1
    h2 = h2
    h3 = h3
    r1 = r1
    r2 = r2
    None = None
    Users = {u1, u2}
    Creds = {c1, c2}
    Tokens = {h1, h2}
    Requests = {r1, r2}
    Counts = {0, 1}
    MaxPasskeysPerUser = 1
    ChallengeTTL = 1
    SessionTTL = 1
    MaxTime = 1
SYMMETRY Symmetry
INVARIANTS
    TypeOK
    PasskeysWithinLimit
    CountsDiffer
PROPERTIES
    ImplementsLedger
CHECK_DEADLOCK FALSE
