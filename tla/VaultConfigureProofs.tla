----------------------- MODULE VaultConfigureProofs ------------------------
(***************************************************************************)
(* Proofs about VaultConfigure, for every config, every number of engines  *)
(* and of failures: ConfigureInv is inductive, so a successful Configure   *)
(* leaves the server reconciled, a converged re-run makes no enable or     *)
(* mount call, and Configure implements ConfigurePhases.                   *)
(***************************************************************************)
EXTENDS VaultConfigureAuthSteps, VaultConfigureSecretSteps

-----------------------------------------------------------------------------
(* ConfigureInv is inductive.                                              *)

LEMMA InvNext == ConfigureInv /\ [Next]_vars => ConfigureInv'
<1> SUFFICES ASSUME ConfigureInv, [Next]_vars PROVE ConfigureInv'
    OBVIOUS
<1>1. CASE UNCHANGED vars
    BY <1>1 DEF vars, serverVars, engineVars, ConfigureInv, TypeOK,
                SnapshotCurrent, Progress, RerunFacts, AuthMounted, AuthOK,
                SecretOK, AuthBefore, PoliciesBefore, SecretsBefore, AllAuth,
                AllPolicies, Converged, Reconciled
<1>2. ASSUME NEW p \in Procs,
             \/ GetRootToken(p) \/ ListAuth(p) \/ EnableAuth(p)
             \/ AuthWrite(p) \/ PutPolicy(p) \/ ListMounts(p)
             \/ MountOrTune(p) \/ ConfigWrite(p) \/ CallFails(p)
      PROVE  ConfigureInv'
    <2>1. StepOK(p)
        BY <1>2, GetRootTokenOK, ListAuthOK, EnableAuthOK, AuthWriteOK,
           PutPolicyOK, ListMountsOK, MountOrTuneOK, ConfigWriteOK,
           CallFailsOK
    <2>2. QED
        BY <2>1, StepOKInv
<1>3. QED
    BY <1>1, <1>2 DEF Next

\* ConfigureInv holds in every reachable state of Configure, for every
\* config and every number of engines: the position of an engine in
\* Configure (vault.go:250-371) tells what the server already holds.
THEOREM ConfigureInvariant == Spec => []ConfigureInv
BY InvInit, InvNext, PTL DEF Spec

\* Every variable of Configure keeps its type.
THEOREM TypeCorrect == Spec => []TypeOK
BY ConfigureInvariant, PTL DEF ConfigureInv

\* Configure returns success only with the server reconciled (vault.go:
\* 250-371), whatever the other engines, failures and stale snapshots.
THEOREM SuccessReconciles == Spec => []SuccessMeansReconciled
<1>1. ConfigureInv => SuccessMeansReconciled
    BY DEF ConfigureInv, Progress, SuccessMeansReconciled
<1>2. QED
    BY <1>1, ConfigureInvariant, PTL

\* A converged re-run of Configure makes no enable or mount call
\* (vault.go:284-291, 513-541).
THEOREM RerunIdempotent == Spec => []IdempotentRerun
<1>1. ConfigureInv => IdempotentRerun
    BY DEF ConfigureInv, RerunFacts, IdempotentRerun
<1>2. QED
    BY <1>1, ConfigureInvariant, PTL


-----------------------------------------------------------------------------
(* Configure implements ConfigurePhases.                                   *)

\* The phase guards of ConfigurePhases, from the position of an engine.
LEMMA PhaseGuards ==
    /\ AllAuth => Phases!AuthPhaseDone
    /\ AllPolicies => Phases!PolicyPhaseDone
    /\ \A k \in DOMAIN AuthEntries : AuthMounted(k) <=> Phases!AuthMounted(k)
BY ConfigFacts DEF AllAuth, AuthBefore, AuthOK, AuthMounted, AllPolicies,
                   PoliciesBefore, Phases!AuthPhaseDone, Phases!AuthMounted,
                   Phases!PolicyPhaseDone

\* A step of Configure that changes the server is a step of ConfigurePhases.
LEMMA StepRefines ==
    ASSUME ConfigureInv, [Next]_vars
    PROVE  [Phases!Next]_<<authMounts, authWrites, policies, mounts, configs>>
<1> USE DEF serverVars
<1>1. CASE UNCHANGED serverVars
    BY <1>1
<1>2. SUFFICES ASSUME NEW p \in Procs, ~UNCHANGED serverVars,
                      \/ GetRootToken(p) \/ ListAuth(p) \/ EnableAuth(p)
                      \/ AuthWrite(p) \/ PutPolicy(p) \/ ListMounts(p)
                      \/ MountOrTune(p) \/ ConfigWrite(p) \/ CallFails(p)
               PROVE  Phases!Next
    BY <1>1 DEF Next, vars, Phases!vars
<1>3. TypeOK /\ Progress(p)
    BY DEF ConfigureInv
<1>4. ~GetRootToken(p) /\ ~ListAuth(p) /\ ~ListMounts(p) /\ ~CallFails(p)
    BY <1>2 DEF GetRootToken, ListAuth, ListMounts, CallFails
<1>5. CASE EnableAuth(p)
    <2> DEFINE k == i[p]
               e == AuthEntries[k]
    <2>1. k \in DOMAIN AuthEntries
        BY <1>3, <1>5, ConfigFacts DEF EnableAuth, Progress
    <2>2. authMounts[e.path] = NoMount
          /\ authMounts' = [authMounts EXCEPT ![e.path] = e.type]
          /\ UNCHANGED <<authWrites, policies, mounts, configs>>
        BY <1>2, <1>5 DEF EnableAuth
    <2>3. Phases!MountAuth(k)
        BY <2>2 DEF Phases!MountAuth
    <2>4. QED
        BY <2>1, <2>3 DEF Phases!Next
<1>6. CASE AuthWrite(p)
    <2> DEFINE k == i[p]
               w == AuthWrites(AuthEntries[k])
    <2>1. k \in DOMAIN AuthEntries /\ AuthMounted(k) /\ j[p] \in 1..Len(w) + 1
        BY <1>3, <1>6, ConfigFacts DEF AuthWrite, Progress
    <2>2. DOMAIN w = 1..Len(w) /\ Len(w) \in Nat /\ j[p] \in Nat
        BY <2>1, AuthWritesType
    <2>3. UNCHANGED <<authMounts, policies, mounts, configs>>
        BY <1>6 DEF AuthWrite
    <2>4. ~(j[p] > Len(w))
        <3>1. j[p] > Len(w) => UNCHANGED authWrites
            BY <1>6, <2>2 DEF AuthWrite
        <3>2. QED
            BY <1>2, <2>3, <3>1
    <2>5. j[p] \in DOMAIN w
        BY <2>1, <2>2, <2>4
    <2>6. authMounts[w[j[p]]] # NoMount
        BY <1>2, <1>6, <2>3, <2>4 DEF AuthWrite
    <2>7. authWrites' = authWrites \cup {<<k, w[j[p]]>>}
        BY <1>6, <2>4, <2>6 DEF AuthWrite
    <2>8. Phases!WriteAuth(k, j[p])
        BY <2>1, <2>3, <2>6, <2>7, PhaseGuards DEF Phases!WriteAuth
    <2>9. QED
        BY <2>1, <2>5, <2>8 DEF Phases!Next
<1>7. CASE PutPolicy(p)
    <2>1. i[p] \in 1..Len(PolicyNames) + 1 /\ AllAuth
        BY <1>3, <1>7 DEF PutPolicy, Progress
    <2>2. UNCHANGED <<authMounts, authWrites, mounts, configs>>
        BY <1>7 DEF PutPolicy
    <2>3. i[p] <= Len(PolicyNames)
        <3>1. i[p] > Len(PolicyNames) => UNCHANGED policies
            BY <1>7, <2>1, ConfigFacts DEF PutPolicy
        <3>2. QED
            BY <1>2, <2>1, <2>2, <3>1, ConfigFacts
    <2>4. policies' = policies \cup {PolicyNames[i[p]]}
        BY <1>7, <2>1, <2>3, ConfigFacts DEF PutPolicy
    <2>5. i[p] \in DOMAIN PolicyNames
        BY <2>1, <2>3, ConfigFacts
    <2>6. Phases!AddPolicy(i[p])
        BY <2>1, <2>2, <2>4, PhaseGuards DEF Phases!AddPolicy
    <2>7. QED
        BY <2>5, <2>6 DEF Phases!Next
<1>8. CASE MountOrTune(p)
    <2>1. i[p] \in DOMAIN SecretEntries /\ AllAuth /\ AllPolicies
          /\ mounts' = mounts \cup {SecretEntries[i[p]].path}
          /\ UNCHANGED <<authMounts, authWrites, policies, configs>>
        BY <1>2, <1>3, <1>8, ConfigFacts
           DEF MountOrTune, Goto, Return, Progress
    <2>2. Phases!MountSecret(i[p])
        BY <2>1, PhaseGuards DEF Phases!MountSecret
    <2>3. QED
        BY <2>1, <2>2 DEF Phases!Next
<1>9. CASE ConfigWrite(p)
    <2> DEFINE k == i[p]
               cs == SecretEntries[k].configs
    <2>1. k \in DOMAIN SecretEntries /\ AllAuth /\ AllPolicies
          /\ SecretEntries[k].path \in mounts /\ j[p] \in 1..Len(cs) + 1
        BY <1>3, <1>9, ConfigFacts DEF ConfigWrite, Progress
    <2>2. DOMAIN cs = 1..Len(cs) /\ Len(cs) \in Nat /\ j[p] \in Nat
        BY <2>1, ConfigFacts, LenProperties
    <2>6. UNCHANGED <<authMounts, authWrites, policies, mounts>>
        BY <1>9 DEF ConfigWrite
    <2>7. ~(j[p] > Len(cs))
        <3>1. j[p] > Len(cs) => UNCHANGED configs
            BY <1>9, <2>2 DEF ConfigWrite
        <3>2. QED
            BY <1>2, <2>6, <3>1
    <2>3. j[p] \in DOMAIN cs
          /\ configs' = configs \cup {cs[j[p]]}
          /\ UNCHANGED <<authMounts, authWrites, policies, mounts>>
        <3>1. j[p] \in DOMAIN cs
            BY <2>1, <2>2, <2>7
        <3>2. configs' = configs \cup {cs[j[p]]}
            BY <1>9, <2>2, <2>7 DEF ConfigWrite
        <3>3. QED
            BY <2>6, <3>1, <3>2
    <2>4. Phases!WriteConfig(k, j[p])
        BY <2>1, <2>3, PhaseGuards DEF Phases!WriteConfig
    <2>5. QED
        BY <2>1, <2>3, <2>4 DEF Phases!Next
<1>10. QED
    BY <1>2, <1>4, <1>5, <1>6, <1>7, <1>8, <1>9

\* Configure, run by any number of engines with failures and stale
\* snapshots, implements ConfigurePhases: the server only gains, and each
\* phase of the config is applied after the one before (vault.go:250-371).
THEOREM Refinement == Spec => ImplementsPhases
<1>1. Init => Phases!Init
    BY DEF Init, Phases!Init
<1>2. QED
    BY <1>1, StepRefines, ConfigureInvariant, PTL
       DEF Spec, ImplementsPhases, Phases!Spec, Phases!vars

=============================================================================
