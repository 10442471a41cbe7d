SPECIFICATION Spec
CONSTANTS
    t1 = t1  t2 = t2  t3 = t3
    w1 = w1  w2 = w2  w3 = w3
    a1 = a1  a2 = a2
    r1 = r1  r2 = r2
    Tasks = {t1, t2, t3}
    Workers = {w1}
    Apis = {a1, a2}
    Resources = {r1}
    Exclusive <- OneWriter
    Shared <- Readers
    Immediate = {t1, t2}
    ExecuteNow = {t1, t2}
    Deferred = {t2, t3}
    Cancelable = {}
    Compatible <- AllCompatible
    Auxiliary = {}
    Mortal = {a1}
    Timely = TRUE
    NoProc = NoProc
    NoTask = NoTask
INVARIANTS
    DispatchOrder
PROPERTIES
    ImplementsQueue
