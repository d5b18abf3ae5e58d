SPECIFICATION PFairSpec
CONSTANTS
    s1 = s1
    s2 = s2
    Events = {1, 2}
    Sealers = {s1, s2}
    MaxEvents = 1
    MaxAttempts = 2
    NoHash = NoHash
INVARIANTS EnoughJobs
PROPERTIES SealedUnlessGivenUp
CHECK_DEADLOCK FALSE
