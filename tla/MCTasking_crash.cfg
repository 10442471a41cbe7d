SPECIFICATION Spec
CONSTANTS
    t1 = t1  t2 = t2  t3 = t3
    w1 = w1  w2 = w2  w3 = w3
    a1 = a1  a2 = a2
    r1 = r1  r2 = r2
    Tasks = {t1, t2}
    Workers = {w1, w2}
    Apis = {}
    Resources = {r1}
    Exclusive <- AllExclusive
    Shared <- NoShared
    Immediate = {}
    ExecuteNow = {}
    Deferred = {t1, t2}
    Cancelable = {t1}
    Compatible <- AllCompatible
    Auxiliary = {}
    Mortal = {w1}
    Timely = TRUE
    NoProc = NoProc
    NoTask = NoTask
INVARIANTS
    MutualExclusion
    ExclusiveExecution
    Inv
PROPERTIES
    Lifecycle
