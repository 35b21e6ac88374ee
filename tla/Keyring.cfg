CONSTANTS
    Procs = {p1, p2}
    Budget = 2
    MaxVersion = 3
    MaxKeys = 4
    MaxWrites = 3
    MaxFaults = 1
SPECIFICATION KeyringSpec
INVARIANTS Readable ShredFinal BudgetKept
