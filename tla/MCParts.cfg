SPECIFICATION Spec
CONSTANTS
    w1 = w1
    w2 = w2
    j1 = j1
    j2 = j2
    c1 = c1
    c2 = c2
    i1 = i1
    i2 = i2
    Workers = {w1, w2}
    Jobs = {j1, j2}
    MaxAttempts = 2
    MaxPending = 2
    NoJob = NoJob
    Callers = {c1, c2}
    Records = {i1, i2}
    KekVersions = {1, 2}
    FirstVersion = 1
    Nothing = Nothing
    MaxDrawn = 7
    Facts <- MCFacts
    RuleSets <- MCRuleSets
    RoiInputs <- MCRoiInputs
    Identifiers <- MCIdentifiers
    Candidates <- MCCandidates
    MaxCandidates = 3
    Events = {1, 2}
    MaxEvents = 5
    ReportTools <- MCReportTools
    MaxTools = 3
INVARIANTS EnvelopesAreSound NothingMissed RiskIsSound RoiAddsUp MatchIsExact RootsBind ReportAddsUp
PROPERTIES MoreAccessIsNoLessRisk ReadyJobsAreTaken
CHECK_DEADLOCK FALSE
