\* The connection that holds the lock breaks.
SPECIFICATION Spec
CONSTANTS
    Instances = {i1, i2}
    Free = Free
    Orphan = Orphan
    Fragile <- MCFragileWork
    DayLength = 8
    SlotTimes <- MCSlotTimes
    MaxAttempts = 3
    FirstDelay = 1
    LaterDelay = 2
    RunTimeout = 2
    Start = 8
    MaxTime = 9
INVARIANTS LockMeansAlone
