CONSTANTS
    agent = agent
    feed = feed
    x = x
    y = y
    Principals = {agent, feed}
    User = User
    Contents = {x, y}
    Kind <- MCKind
    Trust <- MCTrust
    Messages <- MCMessages
    NoMemory = NoMemory
    NoCall = NoCall
    NoMessage = NoMessage
    Calls = {c1, c2}
    MinDecisions = 1
    MaxActs = 1
    MaxFaults = 1
SPECIFICATION Spec
SYMMETRY Symmetry
INVARIANTS
    LedgerVerifies
    ContestedIsOut
    NoCircle
CHECK_DEADLOCK FALSE
