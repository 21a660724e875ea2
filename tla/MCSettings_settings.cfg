SPECIFICATION Spec
CONSTANTS
    Setting = {amount, card}
    Value = {old, new}
    Reader = {r1, r2}
    Writer = {w1, w2}
    MaxWrites = 2
    MaxFaults = 1
    Seed = old
    None = None
INVARIANTS SettingsInv
PROPERTIES Converges
