CONSTANTS
    Txids <- MCTxids
    Funded <- MCFunded
    Spent <- MCSpent
    MaxHeight = 2
    PageSize = 1
    MaxConnections = 2
    MaxFailures = 1
    MaxChanges = 3
    InboxCap = 4
    PromptSubscribe = FALSE
    Reorgs = TRUE
SPECIFICATION Spec
INVARIANTS
    TypeOK
    NothingMissed
    CatchesUp
PROPERTY
    MirrorsServer
CHECK_DEADLOCK FALSE
