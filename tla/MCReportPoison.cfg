SPECIFICATION Spec
CONSTANTS
    j1 = j1
    j2 = j2
    r1 = r1
    r2 = r2
    p1 = p1
    p2 = p2
    Jobs = {j1, j2}
    MaxAttempts = 2
    Requests = {r1, r2}
    Workers = {p1, p2}
    Bytes <- MCBytes
    Nothing = Nothing
SYMMETRY Symmetry
INVARIANTS FreshAttemptPossible
