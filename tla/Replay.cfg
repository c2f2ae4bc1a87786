SPECIFICATION RSpec
CONSTANTS
    Agents = {a1, a2}
    NoAgent = NoAgent
    LeaseWindow = 0
    DepthCap = 0
    MaxTasks = 1
    MaxTokens = 4
    MaxClock = 2
    MaxSkew = 1
    MaxDeps = 0
    MaxChildren = 0
    NReplicas = 2
    MaxLog = 3
SYMMETRY AgentSymmetry
INVARIANTS
    SnapshotsAreHonest
    ReclaimsAreTrue
CHECK_DEADLOCK FALSE
