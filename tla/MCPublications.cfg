CONSTANTS
    h1 = h1
    h2 = h2
    Handlers <- MCHandlers
    MaxPubs <- MCMaxPubs
    MaxMsgs <- MCMaxMsgs
    NumQueues <- MCNumQueues
SYMMETRY MCSymmetry
SPECIFICATION Spec
INVARIANTS
    TypeOK
    FanOutOrdered
    NotificationsFrame
    SinglePublisher
\* Every handler may end closed, with its queues drained: nothing is left
\* to do.
CHECK_DEADLOCK FALSE
