CONSTANTS
    ControlCap = 1
    Faults <- AllFaults
    MaxSilence = 2
    StopWaits = {TRUE, FALSE}
    Overrun = TRUE
SPECIFICATION FairSpec
INVARIANTS
    TypeOK
    OfflineOnlyOnRequest
    NobodyLeftAsleep
    OfflineIsHeard
PROPERTIES
    FollowsLifecycle
    KeepsAliveUnlessStranded
CHECK_DEADLOCK FALSE
