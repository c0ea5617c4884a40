CONSTANTS
    NumProcs = 2
    NumSockets = 2
    CoresPerSocket = 2
    Window = 1
    MaxTime = 2
    MaxThreads = 4
SPECIFICATION FeedSpec
INVARIANTS
    NobodyPastASocket
