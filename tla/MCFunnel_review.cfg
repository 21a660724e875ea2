CONSTANTS
    Worker = {a, b}
    MaxPending = 2
    MaxReceipts = 2
    MaxCodes = 2
    MaxFaults = 0
    Kinds <- AllKinds
    Start = "pending_payment"
SPECIFICATION Spec
SYMMETRY Symmetry
INVARIANTS FunnelInv AccessIsPaid
PROPERTIES KeepsContract BanOutlivesReview
