CONSTANTS
    Update = {u1, u2}
    Slot = {w}
    N = 2
    SlotAt <- MCSlotAt
    ExpiresAt = 2
    Grace = 0
    MaxTime = 3
    MaxFaults = 0
    MaxCrashes = 0
    MaxFlushes = 0
SPECIFICATION Spec
SYMMETRY Symmetry
INVARIANTS AttemptInv ShownResultIsStored ScoreIsExact
PROPERTIES FinishedIsFinal AnswersFrozen
