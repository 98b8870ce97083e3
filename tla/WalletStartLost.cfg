SPECIFICATION FairSpec
CONSTANTS
    Sessions <- TwoSessions
    StatusCap = 1
    MaxAttempts = 2
    MaxStops = 1
    OneUser = TRUE
PROPERTY StartResolves
CHECK_DEADLOCK FALSE
