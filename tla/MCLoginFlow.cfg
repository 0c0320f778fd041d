\* One account, with logins by passkey beside it, from two addresses: the lockouts
\* are 1, 2 and 3 ticks long, the last one cut off.
CONSTANTS
    Accounts = {a1}
    IPs = {i1, i2}
    Logins = {l1, l2}
    NoAccount = NoAccount
    AccountMaxFailures = 2
    IPMaxFailures = 3
    Window = 3
    LockoutBase = 1
    LockoutMax = 3
    LevelMax = 3
    MaxTime = 7
    a1 = a1
    i1 = i1
    i2 = i2
    l1 = l1
    l2 = l2
SPECIFICATION Spec
INVARIANTS
    TypeOK
    IPOvershootBounded
    RetryAfterKept
PROPERTIES
    LockNeverShortened
    IPFailuresStay
SYMMETRY Symmetry
