SPECIFICATION Spec
CONSTANTS
    a1 = a1
    a2 = a2
    n1 = n1
    n2 = n2
    r1 = r1
    r2 = r2
    go = go
    rust = rust
    None = None
    Invalid = Invalid
    Addresses = {a1, a2}
    Names = {n1}
    KnownTags = {go}
    TagSets <- MCTagSets
    Requests = {r1, r2}
    FailBurst = 1
    FailEvery = 2
    IPBurst = 2
    IPEvery = 2
    SweepEvery = 2
    CrowdedSweepEvery = 1
    MaxKeys = 1
    StartTime = 2
    MaxTime = 5
SYMMETRY Symmetry
INVARIANTS
    TypeOK
    OvershootBounded
    OneAccountPerName
PROPERTIES
    ImplementsQuota
CHECK_DEADLOCK FALSE
