SPECIFICATION FairSpec
CONSTANTS
    j1 = j1
    j2 = j2
    w = w
    p1 = p1
    p2 = p2
    Jobs = {j1, j2}
    Procs = {p1, p2}
    Workers = {w}
    WorkerId <- MCWorkerId
    Priority <- MCPriority
    Unsupported = {j2}
    MaxAttempts = 2
    RetryDelay <- MCRetryDelay
    Lease = 1
    AgeCap = 1
    NoWorker = NoWorker
    NoJob = NoJob
INVARIANTS OneHolder CompletedWasApplied GivenUpOnlyExhausted
PROPERTIES LiveClaimEndsWithHolder EveryJobSettles ImplementsLedger
