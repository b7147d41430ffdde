CONSTANTS
    p1 = p1
    p2 = p2
    Procs <- MCProcs
    Shares = 2
    Threshold = 2
    InitRootToken = FALSE
    StoreRootToken = FALSE
    MaxFailures = 1
SYMMETRY ProcSymmetry
SPECIFICATION Spec
PROPERTIES
    InitOnlyOverEmptyStore
