CONSTANTS
    NumProcs = 2
    Count = 1
    GenMod = 2
    WorldRank <- SecondNode
    Garbage = Garbage
    MaxCalls = 1
SPECIFICATION Spec
INVARIANTS
    AllContributions
