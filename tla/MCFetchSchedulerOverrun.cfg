\* One instance, a run that ends after the next slot.
SPECIFICATION Spec
CONSTANTS
    Instances = {i1}
    Free = Free
    Orphan = Orphan
    Fragile = {}
    DayLength = 8
    SlotTimes <- MCSlotTimes
    MaxAttempts = 3
    FirstDelay = 1
    LaterDelay = 2
    RunTimeout = 2
    Start = 8
    MaxTime = 12
PROPERTIES RetryLeftToNextSlot
