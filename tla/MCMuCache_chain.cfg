CONSTANTS
    Service <- ChainService
    Call <- ChainCall
    Key = {"k"}
    Owner <- ChainOwner
    Reads <- ChainReads
    Calls <- ChainCalls
    Footprint <- ChainFootprint
    Top = {"a"}
    None = None
    NoVal = NoVal
    HttpBatchLimit = 1
    MaxWrites = 2
    MaxRequests = 2
SPECIFICATION NoRaceSpec
CHECK_DEADLOCK FALSE
INVARIANT QuietCoherent
