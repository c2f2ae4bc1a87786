SPECIFICATION WSpec
CONSTANTS
    Agents = {a1, a2}
    NoAgent = NoAgent
    LeaseWindow = 0
    DepthCap = 2
    MaxTasks = 3
    MaxTokens = 12
    MaxClock = 2
    MaxSkew = 0
    MaxDeps = 1
    MaxChildren = 1
    MaxTries = 1
    MaxLoss = 0
    RootLists <- MCRootLists
INVARIANT
    MergesSerialize
PROPERTIES
    EveryTaskEnds
    LockNeverStuck
CHECK_DEADLOCK FALSE
