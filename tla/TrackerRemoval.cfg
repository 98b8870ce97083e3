CONSTANTS
    Txids <- MCTxids
    Funded <- MCFunded
    Spent <- MCSpent
    MaxHeight = 2
    MaxQueue = 2
SPECIFICATION Spec
INVARIANT SubscriberMirrorsTracker
CHECK_DEADLOCK FALSE
