SPECIFICATION Spec
CONSTANTS
    NumProcs = 3
    WorldRank <- HundredthNode
    Window = 640
    MaxRuns = 3
INVARIANTS
    EveryRankTranslated
