SPECIFICATION Spec
CONSTANTS
    Worker = {w1, w2}
    MaxTests = 3
    Position <- OnePosition
    MaxFaults = 1
    MaxOps = 4
    Kinds <- Loud
    Forms <- AllForms
INVARIANTS PublishInv PublishedIsWhole AnnouncedOnce
PROPERTIES QuestionsFrozen ActiveTestStays
SYMMETRY Symmetry
