CONSTANTS
    NumProcs = 4
    NumSockets = 2
    CoresPerSocket = 3
    Window = 2
    MaxTime = 3
    MaxThreads = 4
SPECIFICATION FeedSpec
INVARIANTS
    SharesTypeOK
    NodeIsCovered
    SharesFollowLoad
    OverAllocationIsBounded
    FindsWheneverPossible
    LeastOverCommitment
