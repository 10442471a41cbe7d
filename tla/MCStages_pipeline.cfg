SPECIFICATION Spec
CONSTANTS
    d1 = d1  d2 = d2  d3 = d3  d4 = d4
    k1 = k1  k2 = k2  k3 = k3  k4 = k4
    Items = {d1, d2, d3, d4}
    Keys = {k1, k2, k3, k4}
    Key <- KeyOf
    Script <- Looping
    Kinds <- Pipeline
    Needs = {d1, d2, d3, d4}
    Stored = {d4}
    Advertised <- Announced
    Size <- SizeOf
    BatchSize = 3
    MaxItems = 2
    MaxBytes = 1
    MaxConcurrent = 2
    QueueSize = 1
    Old = {k1, k3}
    Saved = {k1, k3}
    Others = {k2}
    Mirror = TRUE
    MayFail = {d2}
    MayBreak = {"content"}
    Nothing = Nothing
    End = End
INVARIANTS
    TypeOK
    NothingLost
    VersionIsRight
    BudgetHolds
PROPERTIES
    PipelineEnds
CHECK_DEADLOCK FALSE
