SPECIFICATION Spec
CONSTANTS
    Agents = {a1}
    NoAgent = NoAgent
    LeaseWindow = 0
    DepthCap = 1
    MaxTasks = 3
    MaxTokens = 2
    MaxClock = 1
    MaxSkew = 0
    MaxDeps = 1
    MaxChildren = 1
INVARIANTS
    TypeOK
    StartedTasksHaveDoneDeps
    OneMergePerFinishedImplement
PROPERTIES
    FinishedTasksStay
