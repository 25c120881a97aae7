CONSTANTS
    Served = {s1}
    Called = {c1}
    Key = {}
    Caller = {A}
    Rid = {r1}
    None = None
    Interleaved = TRUE
    BufferSize = 1
    MaxHistory = 2
    Ref = {1, 2, 3, 4, 5, 6, 7, 8}
SPECIFICATION Spec
INVARIANTS StartFound
