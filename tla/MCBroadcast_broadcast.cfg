SPECIFICATION MCSpec
CONSTANTS
    MaxUsers = 3
    BatchSize = 2
    MaxBroadcasts = 2
    MaxMessages = 2
    Tap = {k1, k2}
    MaxChanges = 1
    MaxFaults = 1
INVARIANTS BroadcastInv CompletedMeansReached ResendsBounded OneRowPerMessage
PROPERTIES Delivered
CHECK_DEADLOCK FALSE
