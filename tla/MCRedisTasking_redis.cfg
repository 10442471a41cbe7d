SPECIFICATION Spec
CONSTANTS
    t1 = t1  t2 = t2  t3 = t3
    w1 = w1  w2 = w2  w3 = w3
    a1 = a1  c1 = c1
    n1 = n1  n2 = n2  na = na  nc = nc
    r1 = r1
    Tasks = {t1, t2}
    Workers = {w1, w2, w3}
    Apis = {a1}
    Console = c1
    Names = {n1, n2, na, nc}
    Name <- NameOf
    Resources = {r1}
    Exclusive <- Writes
    Shared <- Reads
    Immediate = {t2}
    Deferred = {t1, t2}
    Cancelable = {t1}
    Compatible <- OldWorker
    Mortal = {w1}
    Limit = 2
    Nobody = Nobody
    NoTask = NoTask
INVARIANTS
    TypeOK
    MutualExclusion
    NothingUnregistered
    IdleHoldsNothing
    NothingStuck
