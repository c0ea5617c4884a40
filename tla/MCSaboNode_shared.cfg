CONSTANTS
    NumProcs = 3
    NumSockets = 2
    CoresPerSocket = 3
    Window = 1
    StepBal = 1
    Periodic = TRUE
    OmpNumThreads = 2
    NDebug = TRUE
    CommUpAt = 0
    Garbage = Garbage
    CoreId <- Contiguous
    Times = {1, 2}
    MaxCalls = 2
SPECIFICATION Spec
INVARIANTS
    CoresDisjoint
    OneCorePerThread
    NobodyLost
    AdaptationIsTight
