CONSTANTS
    Service <- ChainService
    Call <- ChainCall
    Key = {"k"}
    Owner <- ChainOwner
    Reads <- ChainReads
    Calls <- ChainCalls
    Footprint <- ChainFootprint
    Top = {"a"}
    None = None
    NoVal = NoVal
    HttpBatchLimit = 1
    MaxWrites = 1
    MaxRequests = 1
SPECIFICATION WriteRaceSpec
CHECK_DEADLOCK FALSE
INVARIANT QuietCoherent
