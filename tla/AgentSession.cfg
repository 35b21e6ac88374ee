SPECIFICATION SessionSpec
CONSTANTS
    Memories = {m1, m2}
    NoMemory = NoMemory
    Requests = {r1, r2}
    Ttl = 2
    KnownCap = 1
    HeadDepth = 2
    ReplayCap = 2
    MaxBegun = 3
    MaxMishaps = 1
SYMMETRY Symmetry
INVARIANTS
    NoResend
    EvictionSound
CHECK_DEADLOCK FALSE
