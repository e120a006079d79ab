CONSTANTS
    MsgSizes <- MCMsgSizes
    MaxSlices <- MCMaxSlices
    Abandonable <- MCAbandonable
    Deceptive = TRUE
SPECIFICATION Spec
INVARIANT ReceivedNotDropped
