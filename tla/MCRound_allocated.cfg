CONSTANTS
    NumProcs = 4
    NumSockets = 2
    CoresPerSocket = 2
    Window = 1
    MaxTime = 3
    MaxThreads = 4
SPECIFICATION FeedSpec
INVARIANTS
    AllocatedFitsNode
