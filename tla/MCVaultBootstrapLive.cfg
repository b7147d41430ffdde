CONSTANTS
    p1 = p1
    p2 = p2
    Procs <- MCProcs
    Shares = 2
    Threshold = 2
    InitRootToken = TRUE
    StoreRootToken = TRUE
    MaxFailures = 2
SPECIFICATION FairSpec
PROPERTIES
    SealedEventuallyUnsealed
    InitEventuallyReturns
