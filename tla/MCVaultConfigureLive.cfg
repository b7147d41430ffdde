CONSTANTS
    c1 = c1
    c2 = c2
    Procs <- MCProcs
    AuthEntries <- MCAuthEntries
    PolicyNames <- MCPolicyNames
    SecretEntries <- MCSecretEntries
    Immutable <- MCImmutable
    InitialAuths <- MCInitialAuths
    InitialMounts = {"secret"}
    MaxFailures = 2
SPECIFICATION FairSpec
PROPERTIES
    EventuallyReconciled
