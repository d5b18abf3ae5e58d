SPECIFICATION VSpec
CONSTANTS
    s1 = s1
    s2 = s2
    s3 = s3
    Events = {1, 2, 3}
    Sealers = {s1, s2, s3}
    MaxEvents = 2
    NoHash = NoHash
SYMMETRY Symmetry
INVARIANTS ChainIntact BlocksMatchEvents ValidIsSound InvalidOnlyIfOvertaken
PROPERTIES NothingSkipped ImplementsLog
