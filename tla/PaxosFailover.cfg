SPECIFICATION FSpec
CONSTANTS
    N = 3
    MaxRequests = 1
    MaxInFlight = 3
    MaxResend = 3
    MaxRound = 5
    Schedule = {"none", "permanent", "temporary", "split-brain"}
PROPERTIES
    LeaderEmerges
    ReachableReplicasCatchUp
    NoCallForgotten
    LogsDrain
CHECK_DEADLOCK FALSE
