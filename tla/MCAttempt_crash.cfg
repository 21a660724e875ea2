CONSTANTS
    Update = {u1}
    Slot = {w}
    N = 2
    SlotAt <- MCSlotAt
    ExpiresAt = 2
    Grace = 0
    MaxTime = 3
    MaxFaults = 1
    MaxCrashes = 1
    MaxFlushes = 1
SPECIFICATION Spec
INVARIANTS DeliveryDiscipline WarnedOnce TimeUpOnce ExpiryResultIsStored
PROPERTIES KeepsContract
