SPECIFICATION Spec
CONSTANTS
    N = 3
    MaxRequests = 2
    MaxInFlight = 2
    MaxResend = 2
    MaxRound = 4
INVARIANTS
    OwnResponse
CHECK_DEADLOCK FALSE
