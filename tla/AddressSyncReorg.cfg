CONSTANTS
    Txids <- MCTxids
    Funded <- MCFunded
    Spent <- MCSpent
    MaxHeight = 2
    PageSize = 1
    MaxConnections = 2
    MaxFailures = 0
    MaxChanges = 3
    InboxCap = 7
    PromptSubscribe = TRUE
    Reorgs = TRUE
SPECIFICATION Spec
INVARIANT ReadyMeansSynced
CHECK_DEADLOCK FALSE
