SPECIFICATION FairSpec
CONSTANTS
    mac = mac
    air = air
    Captures = {c1}
    Devices = {mac, air}
    Hosted = Hosted
    Homes = {mac}
    Gated = {air}
    PageLimit = 1
    MaxMishaps = 1
INVARIANTS
    CapturesNotSkipped
    DeletionsNotSkipped
    GateHolds
PROPERTIES
    DeletionReachesAll
    CaptureReachesAll
CHECK_DEADLOCK FALSE
