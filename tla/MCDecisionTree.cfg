CONSTANTS
    NumProcs = 3
    NumSockets = 2
    CoresPerSocket = 2
    Threshold = 2
    MaxNodes = 8
    Demands <- AllDemands
    Nodes = {n1, n2, n3, n4}
    NoNode = NoNode
SPECIFICATION SearchAndList
INVARIANTS
    TypeOK
    OneOwner
    ListTypeOK
    WellLinked
PROPERTIES
    AnswersAreSolve
    ProvidesService
    OperationsOnSequence
