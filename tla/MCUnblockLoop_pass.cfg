SPECIFICATION Spec
CONSTANTS
    r1 = r1  r2 = r2
    Resources = {r1, r2}
    Length = 3
INVARIANTS
    PassIsExact
    QueryAgrees
CHECK_DEADLOCK FALSE
