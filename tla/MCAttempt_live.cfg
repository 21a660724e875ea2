CONSTANTS
    Update = {u1}
    Slot = {}
    N = 1
    SlotAt <- MCSlotAt
    ExpiresAt = 2
    Grace = 0
    MaxTime = 3
    MaxFaults = 1
    MaxCrashes = 1
    MaxFlushes = 0
SPECIFICATION FairSpec
PROPERTIES EventuallyFinished JobsDrain
