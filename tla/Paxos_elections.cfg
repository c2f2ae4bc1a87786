SPECIFICATION Spec
CONSTANTS
    N = 3
    MaxRequests = 2
    MaxInFlight = 2
    MaxResend = 0
    MaxRound = 5
INVARIANTS
    TypeOK
    Agreement
    LogsOfOneRoundAgree
    AnsweredSurvives
    LostRequestsStayLost
    NothingGoesUnlogged
    NoSlotSkipped
    CutStaysInLog
    AcksReachTheirLeader
    InvariantParts
PROPERTY
    ImplementsReplicatedLog
CHECK_DEADLOCK FALSE
