CONSTANTS
    MaxStage <- MCMaxStage
    MaxFrags <- MCMaxFrags
    Retrans <- MCRetrans
    NumQueues = 2
    Peers <- MCPeers
    Self = 1
SPECIFICATION FairSpec
INVARIANTS
    TypeOK
    ReliableNotLost
    RelaysInOrder
PROPERTIES
    EndIsLast
    EventuallyAcked
\* A closed session, or an idle one with nothing in flight, waits: the
\* model may stop.
CHECK_DEADLOCK FALSE
