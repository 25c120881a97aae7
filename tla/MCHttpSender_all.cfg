CONSTANTS
    Caller = {A, B}
    Call = {c}
    Val = {v1, v2}
    NoVal = NoVal
    HttpBatchLimit = 1
    QueueSize = 2
SPECIFICATION FairSpec
INVARIANTS TypeOK Disjoint LastWord
PROPERTIES Flushed Unblocked
