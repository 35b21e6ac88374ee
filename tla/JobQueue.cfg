SPECIFICATION FairSpec
CONSTANTS
    embed = embed
    sync = sync
    Jobs <- MCJobs
    Kind <- MCKind
    MaxAttempts <- MCMaxAttempts
    Workers = {w1, w2}
    NoWorker = NoWorker
    NoJob = NoJob
    Lease = 2
    BackoffBase = 1
    BackoffCap = 2
    RetryBase = 1
    RetryCap = 1
    MaxDelay = 0
    Retention = 1
    MaxEnqueues = 2
INVARIANTS
    ExclusiveRun
    AttemptBudget
PROPERTIES
    LiveLeaseUntouched
    SuccessIsFinal
    EveryJobSettles
