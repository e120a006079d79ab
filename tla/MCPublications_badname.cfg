CONSTANTS
    h1 = h1
    h2 = h2
    Handlers <- MCHandlers
    MaxPubs <- MCMaxPubs
    MaxMsgs <- MCMaxMsgs
    NumQueues <- MCNumQueues
SPECIFICATION Spec
PROPERTY
    BadNameOnlyWhenTaken
CHECK_DEADLOCK FALSE
