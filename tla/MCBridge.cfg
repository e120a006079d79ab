CONSTANTS
    Xids <- MCXids
    NumQueues = 2
    MaxCalls = 2
    ChanCap = 1
    RecvCap = 1
    BackoffTicks = 2
    MaxFails = 2
SPECIFICATION FairSpec
CHECK_DEADLOCK FALSE
INVARIANTS
    TypeOK
    RequestsInOrder
PROPERTIES
    Settled
