SPECIFICATION VaultSpec
CONSTANTS
    Memories = {m, h}
    Handmade = {h}
    Texts = {x, y}
    None = None
    Garbled = Garbled
    Threads = {t1, t2}
    MassMin = 2
    MaxCalls = 4
    MaxEdits = 1
    MaxFaults = 1
SYMMETRY Symmetry
INVARIANTS
    OnlyDeletedGo
    StayOut
PROPERTY ReconcileSettles
CHECK_DEADLOCK FALSE
