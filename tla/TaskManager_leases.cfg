SPECIFICATION Spec
SYMMETRY AgentSymmetry
CONSTANTS
    Agents = {a1, a2}
    NoAgent = NoAgent
    LeaseWindow = 1
    DepthCap = 1
    MaxTasks = 2
    MaxTokens = 4
    MaxClock = 3
    MaxSkew = 1
    MaxDeps = 0
    MaxChildren = 0
INVARIANTS
    TokensIdentifyHolders
PROPERTIES
    OnlyFreshTokensGranted
    OnlyLapsedLeasesAreReclaimed
    LiveLockIsNotTakenOver
    HaltStopsNewWork
