CONSTANTS
    c1 = c1
    c2 = c2
    Procs <- MCProcs
    AuthEntries <- MCAuthOverride
    PolicyNames <- MCPolicyNames
    SecretEntries <- MCSecretEntries
    Immutable <- MCImmutable
    InitialAuths <- MCInitialAuthsOverride
    InitialMounts = {"secret"}
    MaxFailures = 2
SYMMETRY ProcSymmetry
SPECIFICATION Spec
INVARIANTS
    AuthWritesHitOwnMount
