SPECIFICATION StartupSpec
CONSTANTS
    TaskCounts = {3, 255, 256}
    MaxNodes = 3
    MaxEdits = 2
    NumProcs = 3
    WorldRank <- HundredthNode
    Window = 640
    MaxRuns = 3
    Machines <- MCMachines
    OmpNumThreads = 1
    MaxRounds = 3
INVARIANTS
    EveryTaskKnowsItsNode
    OnlyWholeLists
    TypeOK
    MeetsOwnRun
    RanksTranslated
    CleanRunNeverFails
    BindingTypeOK
    InPlace
    MoversApart
PROPERTIES
    CleanRunJoins
