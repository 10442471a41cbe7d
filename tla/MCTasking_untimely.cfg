SPECIFICATION StoppingSpec
CONSTANTS
    t1 = t1  t2 = t2  t3 = t3
    w1 = w1  w2 = w2  w3 = w3
    a1 = a1  a2 = a2
    r1 = r1  r2 = r2
    Tasks = {t1, t2}
    Workers = {w1, w2}
    Apis = {}
    Resources = {r1}
    Exclusive <- AllExclusive
    Shared <- NoShared
    Immediate = {}
    ExecuteNow = {}
    Deferred = {t1, t2}
    Cancelable = {}
    Compatible <- OldWorker
    Auxiliary = {w2}
    Mortal = {w2}
    Timely = FALSE
    NoProc = NoProc
    NoTask = NoTask
INVARIANTS
    TypeOK
    RunningRowsExclude
PROPERTIES
    OnlyOwnerAdvances
    FastStopEnds
