CONSTANTS
    p1 = p1
    Pids <- MCPids
    MaxCookies <- MCMaxCookies
    MaxSessions <- MCMaxSessions
    XidMod <- MCXidMod
    NumQueues <- MCNumQueues
    MaxKeepalive <- MCMaxKeepalive
    MaxPackets <- MCMaxPackets
SPECIFICATION Spec


INVARIANT PidIndexed
CHECK_DEADLOCK FALSE
