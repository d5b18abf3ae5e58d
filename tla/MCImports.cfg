SPECIFICATION Spec
CONSTANTS
    a = a
    a2 = a2
    b = b
    x = x
    t1 = t1
    t2 = t2
    Tabs = {t1, t2}
    Contents = {a, a2, b, x}
    Invalid = {x}
    KeyOf <- MCKeyOf
    MaxRows = 3
    Nobody = Nobody
INVARIANTS ImportedWhole OnlyCleanItems FinalPageIsClean
PROPERTIES ImportsStagedRows
CHECK_DEADLOCK FALSE
