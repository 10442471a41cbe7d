SPECIFICATION FairSpec
CONSTANTS
    t1 = t1  t2 = t2  t3 = t3
    w1 = w1  w2 = w2  w3 = w3
    a1 = a1  a2 = a2
    r1 = r1  r2 = r2
    Tasks = {t1, t2}
    Workers = {w1}
    Apis = {a1}
    Resources = {r1}
    Exclusive <- AllExclusive
    Shared <- NoShared
    Immediate = {t2}
    ExecuteNow = {t2}
    Deferred = {t1, t2}
    Cancelable = {t1}
    Compatible <- AllCompatible
    Auxiliary = {}
    Mortal = {}
    Timely = TRUE
    NoProc = NoProc
    NoTask = NoTask
PROPERTIES
    EveryTaskEnds
    CancelCompletes
