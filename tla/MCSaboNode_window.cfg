CONSTANTS
    NumProcs = 2
    NumSockets = 1
    CoresPerSocket = 3
    Window = 2
    StepBal = 2
    Periodic = TRUE
    OmpNumThreads = 2
    NDebug = FALSE
    CommUpAt = 1
    Garbage = Garbage
    CoreId <- Contiguous
    Times = {3, 5}
    MaxCalls = 4
SPECIFICATION Spec
INVARIANTS
    TypeOK
    ReplicasAgree
    ExchangeAtSameStep
