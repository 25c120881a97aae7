CONSTANTS
    a1 = a1
    a2 = a2
    b1 = b1
    b2 = b2
    Service <- PairService
    Call <- PairCall
    Key = {"k"}
    Owner <- PairOwner
    Reads <- PairReads
    Calls <- PairCalls
    Footprint <- PairFootprint
    Top = {a1, a2}
    None = None
    NoVal = NoVal
    HttpBatchLimit = 1
    MaxWrites = 2
    MaxFaults = 1
    MaxRequests = 2
SYMMETRY PairSymmetry
SPECIFICATION FaultSpec
CHECK_DEADLOCK FALSE
INVARIANT StaleIsOlder
