SPECIFICATION Spec
CONSTANTS
    cap = cap
    a = a
    art = art
    NoContent = NoContent
    NoCapture = NoCapture
    Captures = {cap}
    Contents = {a, art}
    Artifacts = {art}
    Callers = {p1}
    Workers = {w1}
    MaxAttempts = 2
    MaxIngests = 3
INVARIANTS
    ForgottenStaysForgotten
    MemoriesMatchContent
    ArchivedIsQuiet
PROPERTIES
    WorkerKeepsApproval
CHECK_DEADLOCK FALSE
