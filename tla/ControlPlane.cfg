CONSTANTS
    Calls = {c1, c2}
    MaxTokens = 3
    MaxEvents = 2
    MaxFaults = 1
SPECIFICATION Spec
SYMMETRY Symmetry
INVARIANTS OnlyCurrentWorks CurrentWorks PlanFollows
CHECK_DEADLOCK FALSE
