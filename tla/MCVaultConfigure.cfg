CONSTANTS
    c1 = c1
    c2 = c2
    Procs <- MCProcs
    AuthEntries <- MCAuthOverride
    PolicyNames <- MCPolicyNames
    SecretEntries <- MCSecretEntries
    Immutable <- MCImmutable
    InitialAuths <- MCInitialAuthsSafety
    InitialMounts = {"secret"}
    MaxFailures = 2
SYMMETRY ProcSymmetry
SPECIFICATION Spec
INVARIANTS
    SuccessMeansReconciled
    IdempotentRerun
    ConfigureInv
PROPERTIES
    ImplementsPhases
