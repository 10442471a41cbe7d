SPECIFICATION Spec
CONSTANTS
    a = a  ab = ab  p1 = p1  p3 = p3
    BasePaths = {a, ab}
    Tree <- Nested
    Paths = {p1, p3}
    Requests = {q1, q2}
    Kinds = {"update", "rename", "create", "publish", "delete", "unpublish",
             "version", "reclaim"}
    TTL = 1
    MaxHandling = 1
    MaxChanges = 2
    NoPath = NoPath
INVARIANTS
    TypeOK
    StalenessIsBounded
    
