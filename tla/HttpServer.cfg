SPECIFICATION HSpec
CONSTANTS
    N = 3
    Clients = {c1, c2}
    MaxChanges = 4
    MaxDecided = 2
INVARIANT RedirectsRepeatNothing
PROPERTY EveryPostIsAnswered
CHECK_DEADLOCK FALSE
