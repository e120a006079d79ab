CONSTANTS
    Widths <- MCWidths
    Values <- MCValues
    AckStages <- MCAckStages
    AckSpan <- MCAckSpan
    Ids <- MCIds
    Codes <- MCCodes
    Contents <- MCContents
    SumBytes <- MCSumBytes
    SumLen <- MCSumLen
    Payloads <- MCPayloads
    AmfNames <- MCAmfNames
    AmfNumbers <- MCAmfNumbers
    AmfKeys <- MCAmfKeys
    Amf3Values <- MCAmf3Values
    Amf3Heaps <- MCAmf3Heaps
    Amf3Len <- MCAmf3Len
    SplitLens <- MCSplitLens
    HsEpds <- MCHsEpds
    HsTags <- MCHsTags
    HsCookies <- MCHsCookies
    HsKeys <- MCHsKeys
    HsInits <- MCHsInits
    HsResponders <- MCHsResponders
SPECIFICATION Spec
INVARIANTS
    TypeOK
    VarintRoundTrip
    VarintSize
    AckRoundTrip
    AckSizeExact
    PacketRoundTrip
    ChecksumIsOnesComplement
    TcpRoundTrip
    AmfRoundTrip
    MessageRoundTrip
    SplitJoins
    Amf3ReaderDecodesFormat
    Amf3WriterEncodesFormat
    HelloExchange
    AssignExchange
