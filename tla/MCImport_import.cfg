SPECIFICATION MCSpec
CONSTANTS
    MaxPieces = 8
    Section <- TwoSections
    First <- FirstOf
    Final <- LastOf
    Total = 3
    Rows <- SomeRows
    MaxRows = 4
INVARIANTS ImportIsExact MarkupIsFaithful
CHECK_DEADLOCK FALSE
