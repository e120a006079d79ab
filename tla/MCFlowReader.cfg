CONSTANTS
    MsgSizes <- MCMsgSizes
    MaxSlices <- MCMaxSlices
    Abandonable <- MCAbandonable
    Deceptive = FALSE
SPECIFICATION FairSpec
INVARIANTS
    TypeOK
    MessageIntegrity
    AckEncodable
PROPERTIES
    DeliverySpec
    Completion
