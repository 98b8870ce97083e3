SPECIFICATION FairSpec
CONSTANTS
    c1 = c1
    c2 = c2
    s1 = s1
    s2 = s2
    Requests <- TwoCalls
    Spks = {s1, s2}
    Calls = {c1, c2}
    Loop = Loop
    Nobody = Nobody
    MaxBacklog = 1
INVARIANTS
    TypeOK
    NoStraySubscription
    WatchedIsSubscribed
    LoadedIsCurrent
    OwnTrackersSynced
    PanicsOnlyWhenUnwatched
PROPERTIES
    CallsEnd
    LoopReturns
CHECK_DEADLOCK FALSE
