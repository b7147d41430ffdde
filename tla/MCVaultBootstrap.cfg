CONSTANTS
    p1 = p1
    p2 = p2
    Procs <- MCProcs
    Shares = 3
    Threshold = 2
    InitRootToken = TRUE
    StoreRootToken = TRUE
    MaxFailures = 3
SYMMETRY ProcSymmetry
SPECIFICATION Spec
INVARIANTS
    TypeOK
    InitReportsStored
    StoreInv
    ReportInv
    
PROPERTIES
    NoOverwrite
    ImplementsContract
