CONSTANTS
    NumProcs = 4
    Count = 1
    GenMod = 2
    WorldRank <- SecondNode
    Garbage = Garbage
    MaxCalls = 2
SPECIFICATION Spec
INVARIANTS
    TypeOK
    PhasesApart
    ResultOfThisCall
PROPERTIES
    MeetingsHold
    NobodyWaitsForNothing
