CONSTANTS
    Worker = {a, b}
    MaxPending = 1
    MaxReceipts = 1
    MaxCodes = 2
    MaxFaults = 1
    Kinds <- FunnelKinds
    Start = "new"
SPECIFICATION Spec
SYMMETRY Symmetry
INVARIANTS ReviewIsPending OneVerdict
