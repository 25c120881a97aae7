CONSTANTS
    Service <- TwoTierService
    Call <- TwoTierCall
    Key = {"k1"}
    Owner <- TwoTierOwner
    Reads <- TwoTierReads
    Calls <- TwoTierCalls
    Footprint <- TwoTierFootprint
    Top = {"a"}
    None = None
    NoVal = NoVal
    HttpBatchLimit = 1
    MaxWrites = 2
    MaxRequests = 1
SPECIFICATION FairSpec
CHECK_DEADLOCK FALSE
INVARIANTS TypeOK LeafStaleIsPending
PROPERTY LeafStaleEnds
