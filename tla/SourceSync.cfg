CONSTANTS
    Items = {a, b, c}
    Listed = {a, b}
    Workers = {w1}
    Requests = {q1}
    PerPage = 1
    Cap = 2
    Poison = {b}
    MidScan = FALSE
    MaxTime = 3
    MaxFaults = 1
    MaxRequests = 1
SPECIFICATION Spec
INVARIANTS NothingSkipped NewestKept
PROPERTY EndsCaughtUp
