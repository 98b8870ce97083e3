CONSTANTS
    Txids <- MCTxids
    Funded <- MCAmounts
    Spent <- MCAmounts
    MaxHeight = 3
    PageSize = 2
    FinalDepth = 2
    Window = 2
    IndexBound = 8
    LocalTip = 4
    Addresses = 6
SPECIFICATION Spec
INVARIANTS
    NothingAboveLimitMissed
    AskedForIsFound
    OldestFirst
    PagesMakeHistory
    UpdateIsOneChain
    NothingLeftOut
    
CHECK_DEADLOCK FALSE
