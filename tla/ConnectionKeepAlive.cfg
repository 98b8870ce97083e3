CONSTANTS
    ControlCap = 2
    Faults <- Breaking
    MaxSilence = 1
    StopWaits = {}
    Overrun = FALSE
SPECIFICATION FairSpec
PROPERTY KeepsAlive
CHECK_DEADLOCK FALSE
