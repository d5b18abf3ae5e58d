SPECIFICATION ASpec
CONSTANTS
    r1 = r1
    r2 = r2
    p1 = p1
    p2 = p2
    m = m
    f = f
    h1 = h1
    h2 = h2
    a1 = a1
    Requests = {r1, r2}
    Products = {p1, p2}
    Supported = {p1}
    ManualItems = {m}
    Fields = {f}
    Values = {0, 1}
    Default = 0
    Bundles = {h1, h2}
    RecordsOf <- MCRecordsOf
    Unmatched = Unmatched
    Absent = Absent
    MaxRequests = 5
    AssessmentIds = {a1}
SYMMETRY Symmetry
INVARIANTS ATypeOK ScansAreWhole ProvenanceIsHonest NoInsertRefused SnapshotIsOfItsTime RevisionsGrow
CHECK_DEADLOCK FALSE
