CONSTANTS
    p1 = p1
    p2 = p2
    Procs <- MCProcs
    Shares = 2
    Threshold = 2
    InitRootToken = TRUE
    StoreRootToken = TRUE
    MaxFailures = 0
SYMMETRY ProcSymmetry
SPECIFICATION Spec
INVARIANTS
    StoredRootTokenLive
