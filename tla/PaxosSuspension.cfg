SPECIFICATION SSpec
CONSTANTS
    N = 3
    MaxRequests = 2
    MaxInFlight = 1
    MaxResend = 1
    MaxRound = 4
INVARIANTS
    AgreementUnlessStray
    RoundsUnlessStray
    SuspendedStand
PROPERTIES
    NoEmptyReply
    ReplicatedLogUnlessStray
CHECK_DEADLOCK FALSE
