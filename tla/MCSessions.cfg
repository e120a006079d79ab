CONSTANTS
    p1 = p1
    Pids <- MCPids
    MaxCookies <- MCMaxCookies
    MaxSessions <- MCMaxSessions
    XidMod <- MCXidMod
    NumQueues <- MCNumQueues
    MaxKeepalive <- MCMaxKeepalive
    MaxPackets <- MCMaxPackets
SPECIFICATION FairSpec
INVARIANTS
    TypeOK
    XidIndexed
    AssignOnce
    RpcOrdered
PROPERTIES
    Retired
\* Once every Hello, session and packet of the bounds is used up and every
\* session is retired, nothing is left to do.
CHECK_DEADLOCK FALSE
