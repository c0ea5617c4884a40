SPECIFICATION Spec
CONSTANTS
    NodeSize = 2
    Settings <- MCSettings
    NumCores = 2
    MaxThreads = 3
    MaxRegions = 2
    MaxSteps = 4
INVARIANTS
    StepSumsAllThreads
