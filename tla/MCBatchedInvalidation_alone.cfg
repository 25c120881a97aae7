CONSTANTS
    Served = {s1, s2}
    Called = {c1}
    Key = {k1}
    Caller = {A}
    Rid = {r1, r2}
    None = None
    Interleaved = FALSE
    BufferSize = 2
    MaxHistory = 3
    Ref = {1, 2, 3, 4, 5, 6}
SPECIFICATION Spec
SYMMETRY Symmetry
INVARIANTS StaleIsReceived
