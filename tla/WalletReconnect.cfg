SPECIFICATION Spec
CONSTANTS
    Sessions <- TwoSessions
    StatusCap = 1
    MaxAttempts = 2
    MaxStops = 1
    OneUser = TRUE
INVARIANT EveryConnectionHeard
CHECK_DEADLOCK FALSE
