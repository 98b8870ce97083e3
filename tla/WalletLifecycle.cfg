SPECIFICATION FairSpec
CONSTANTS
    Sessions <- TwoSessions
    StatusCap = 1
    MaxAttempts = 2
    MaxStops = 1
    OneUser = FALSE
INVARIANTS
    TypeOK
    HeardUnlessOtherStopped
PROPERTIES
    
    StartReturns
CHECK_DEADLOCK FALSE
