CONSTANTS
    Served = {s1, s2}
    Called = {c1}
    Key = {k1}
    Caller = {A}
    Rid = {r1, r2}
    None = None
    Duplicates = TRUE
    MaxBatch = 1
    MaxHistory = 4
SPECIFICATION Spec
SYMMETRY Symmetry
INVARIANTS Fresh
