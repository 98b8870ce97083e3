CONSTANTS
    Txids <- MCTxids
    Funded <- MCFunded
    Spent <- MCSpent
    MaxHeight = 2
    MaxQueue = 2
SPECIFICATION Spec
INVARIANTS
    TypeOK
    BalanceMatchesTransactions
    NothingQueuedWhenLive
    SubscriberIsCurrent
PROPERTY ArrivalOrderKept
CHECK_DEADLOCK FALSE
