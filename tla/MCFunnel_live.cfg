CONSTANTS
    Worker = {a, b}
    MaxPending = 1
    MaxReceipts = 1
    MaxCodes = 2
    MaxFaults = 2
    Kinds = {"i_paid", "photo", "approve", "reject", "reason"}
    Start = "pending_payment"
SPECIFICATION FairSpec
PROPERTIES EventuallyPosted LockIsReleased
