\* Two instances over a slot with its retries and the one after it, under fairness.
SPECIFICATION FairSpec
CONSTANTS
    Instances = {i1, i2}
    Free = Free
    Orphan = Orphan
    Fragile <- MCFragileEnd
    DayLength = 8
    SlotTimes <- MCNearSlots
    MaxAttempts = 2
    FirstDelay = 1
    LaterDelay = 1
    RunTimeout = 4
    Start = 8
    MaxTime = 10
INVARIANTS TypeOK ExecutesAlone
PROPERTIES ImplementsLedger LockLetGo StopEnds
