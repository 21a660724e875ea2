SPECIFICATION SpecStart
CONSTANTS
    Worker = {w1, w2}
    Tap = {k1, k2, k3}
    MaxTests = 3
    MaxAttempts = 3
    Position <- OnePosition
    MaxOps = 4
    MaxFaults = 1
    Kinds <- Copying
    Forms <- NoForms
INVARIANTS OneOpenAttempt JobsMatchAttempts
SYMMETRY Symmetry
