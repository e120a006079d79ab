CONSTANTS
    h1 = h1
    h2 = h2
    Handlers <- MCHandlers
    MaxPubs <- MCMaxPubs
    MaxMsgs <- MCMaxMsgs
    NumQueues <- MCNumQueues
SPECIFICATION Spec
INVARIANT
    DataReachesPlayers
CHECK_DEADLOCK FALSE
