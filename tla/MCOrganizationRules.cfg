SPECIFICATION Spec
CONSTANTS
    m1 = m1
    m2 = m2
    d = d
    n1 = n1
    n2 = n2
    p = p
    q = q
    r1 = r1
    r2 = r2
    Requests = {r1, r2}
    ManualIds = {m1, m2}
    DetectorIds = {d}
    Names = {n1, n2}
    Found = Found
    Definitions = {p, q}
    MaxVersion = 2
    Absent = Absent
SYMMETRY Symmetry
INVARIANTS NamesAreUnique VersionIsLogged
PROPERTIES DetectorRulesStay TogglesKeepDefinition
CHECK_DEADLOCK FALSE
