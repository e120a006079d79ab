CONSTANTS
    Fids <- MCFids
    MaxStage <- MCStages
    DataLens <- MCDataLens
    AckBodies <- MCAckBodies
    SigLen = 5
    HsLen = 58
    MaxQueue = 7
SPECIFICATION Spec
PROPERTY PacketsFitMTU
\* A closed session takes no more handlers: it stays closed until deleted.
CHECK_DEADLOCK FALSE
