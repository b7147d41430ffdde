---------------------- MODULE VaultConfigureAuthSteps ----------------------
(***************************************************************************)
(* The steps of the auth phase and of the policy phase of Configure        *)
(* (vault.go:265-419) preserve ConfigureInv.                               *)
(***************************************************************************)
EXTENDS VaultConfigureLemmas

LEMMA AuthWriteOK ==
    ASSUME ConfigureInv, NEW p \in Procs, AuthWrite(p)
    PROVE  StepOK(p)
<1> DEFINE k == i[p]
           w == AuthWrites(AuthEntries[k])
<1>1. TypeOK /\ SnapshotCurrent /\ Progress(p) /\ RerunFacts(p)
    BY DEF ConfigureInv
<1>0. pc \in [Procs -> PCs] /\ i \in [Procs -> Nat] /\ j \in [Procs -> Nat]
      /\ result \in [Procs -> Results]
    BY DEF ConfigureInv, TypeOK
<1>2. /\ pc[p] = "a_write" /\ k \in 1..Len(AuthEntries) /\ AuthBefore(k)
      /\ AuthMounted(k) /\ j[p] \in 1..Len(w) + 1
      /\ \A m \in 1..j[p] - 1 : <<k, w[m]>> \in authWrites
      /\ result[p] = "ok" => Reconciled
    BY <1>1 DEF AuthWrite, Progress
<1>3. w \in Seq(AuthPaths) /\ DOMAIN w = 1..Len(w) /\ Len(w) \in Nat
    BY <1>2, AuthWritesType, ConfigFacts, LenProperties
<1>4. /\ UNCHANGED <<authMounts, policies, mounts, configs, existingAuths,
                     present, enabled, startedConverged, failures, rootStored>>
    BY DEF AuthWrite
<1>5. OthersUnchanged(p)
    BY <1>1, <1>4 DEF AuthWrite, StartAuth, Goto, Return, OthersUnchanged,
                      TypeOK
<1>6. CASE j[p] > Len(w)
    <2>1. UNCHANGED <<authWrites, j, result, clientToken>> /\ StartAuth(p, k + 1)
        BY <1>2, <1>3, <1>6 DEF AuthWrite
    <2>2. AuthOK(k)
        BY <1>2, <1>3, <1>6 DEF AuthOK
    <2>3. AuthBefore(k + 1)
        BY <1>2, <2>2, BeforeSucc
    <2>4. ServerGrows /\ Reconciled' = Reconciled
        BY <1>4, <2>1 DEF ServerGrows, Reconciled, Converged
    <2>5. ASSUME TypeOK'
          PROVE  /\ \A n \in 1..Len(AuthEntries) + 1 :
                       AuthBefore(n) => AuthBefore(n)'
                 /\ PoliciesBefore(1)'
        <3>1. \A n \in 1..Len(AuthEntries) + 1 : AuthBefore(n) => AuthBefore(n)'
            BY <1>1, <2>4, <2>5, ServerFactsStable
        <3>2. PoliciesBefore(1)'
            BY DEF PoliciesBefore
        <3>3. QED
            BY <3>1, <3>2
    <2>6. CASE k + 1 <= Len(AuthEntries)
        <3>1. pc' = [pc EXCEPT ![p] = "a_enable"]
              /\ i' = [i EXCEPT ![p] = k + 1]
            BY <2>1, <2>6 DEF StartAuth, Goto
        <3>2. TypeOK'
            BY <1>1, <1>2, <1>4, <2>1, <3>1 DEF TypeOK, PCs
        <3>3. Progress(p)'
            BY <1>1, <1>2, <2>1, <2>3, <2>4, <2>5, <3>1, <3>2, <2>6
               DEF Progress, TypeOK
        <3>4. RerunFacts(p)'
            BY <1>1, <1>2, <1>4, <2>1, <3>1 DEF RerunFacts, Converged, TypeOK
        <3>5. QED
            BY <1>1, <1>4, <1>5, <2>4, <3>2, <3>3, <3>4, SnapshotStable
               DEF StepOK
    <2>7. CASE ~(k + 1 <= Len(AuthEntries))
        <3>1. pc' = [pc EXCEPT ![p] = "p_put"] /\ i' = [i EXCEPT ![p] = 1]
            BY <2>1, <2>7 DEF StartAuth, Goto
        <3>3. TypeOK'
            BY <1>1, <1>4, <2>1, <3>1 DEF TypeOK, PCs
        <3>2. AllAuth'
            <4>1. \A n \in 1..Len(AuthEntries) + 1 :
                     AuthBefore(n) => AuthBefore(n)'
                BY <2>5, <3>3
            <4>2. k + 1 = Len(AuthEntries) + 1
                BY <1>2, <2>7, ConfigFacts
            <4>3. AuthBefore(Len(AuthEntries) + 1)
                BY <2>3, <4>2
            <4>4. QED
                BY <4>1, <4>3, ConfigFacts DEF AllAuth
        <3>8. pc'[p] = "p_put" /\ i'[p] = 1 /\ result'[p] = result[p]
            BY <1>0, <2>1, <3>1
        <3>9. PoliciesBefore(1)'
            BY <2>5, <3>3
        <3>4. Progress(p)'
            BY <1>2, <2>4, <3>2, <3>8, <3>9, ConfigFacts DEF Progress
        <3>5. RerunFacts(p)'
            BY <1>1, <1>4, <2>1, <3>1 DEF RerunFacts, Converged, TypeOK
        <3>6. QED
            BY <1>1, <1>4, <1>5, <2>4, <3>3, <3>4, <3>5, SnapshotStable
               DEF StepOK
    <2>8. QED
        BY <2>6, <2>7
<1>7. CASE j[p] <= Len(w) /\ authMounts[w[j[p]]] # NoMount
    <2>1. /\ authWrites' = authWrites \cup {<<k, w[j[p]]>>}
          /\ j' = [j EXCEPT ![p] = @ + 1]
          /\ UNCHANGED <<pc, i, result, clientToken>>
        BY <1>2, <1>3, <1>7 DEF AuthWrite
    <2>2. <<k, w[j[p]]>> \in (DOMAIN AuthEntries) \X AuthPaths
        BY <1>2, <1>3, <1>7, ConfigFacts
    <2>3. TypeOK'
        BY <1>1, <1>4, <2>1, <2>2 DEF TypeOK
    <2>4. ServerGrows
        BY <1>4, <2>1 DEF ServerGrows
    <2>5. /\ AuthBefore(k)' /\ AuthMounted(k)'
          /\ (Reconciled => Reconciled')
        BY <1>1, <1>2, <1>4, <2>1, <2>3, <2>4, ServerFactsStable, ConfigFacts
    <2>6. \A m \in 1..j'[p] - 1 : <<k, w[m]>> \in authWrites'
        BY <1>1, <1>2, <2>1 DEF TypeOK
    <2>7. Progress(p)'
        BY <1>1, <1>2, <1>7, <2>1, <2>5, <2>6 DEF Progress, TypeOK
    <2>8. RerunFacts(p)'
        BY <1>1, <1>2, <1>4, <2>1 DEF RerunFacts, Converged
    <2>9. QED
        BY <1>1, <1>4, <1>5, <2>3, <2>4, <2>7, <2>8, SnapshotStable DEF StepOK
<1>8. CASE j[p] <= Len(w) /\ authMounts[w[j[p]]] = NoMount
    <2>1. /\ pc' = [pc EXCEPT ![p] = "idle"]
          /\ result' = [result EXCEPT ![p] = "failed"]
          /\ clientToken' = [clientToken EXCEPT ![p] = FALSE]
          /\ UNCHANGED <<authWrites, i, j>>
        BY <1>2, <1>3, <1>8 DEF AuthWrite, Return
    <2>2. TypeOK'
        BY <1>1, <1>4, <2>1 DEF TypeOK, PCs, Results
    <2>3. ServerGrows
        BY <1>4, <2>1 DEF ServerGrows
    <2>4. Progress(p)' /\ RerunFacts(p)'
        BY <1>1, <1>2, <1>4, <2>1 DEF Progress, RerunFacts, Converged, TypeOK
    <2>5. QED
        BY <1>1, <1>4, <1>5, <2>2, <2>3, <2>4, SnapshotStable DEF StepOK
<1>9. QED
    BY <1>2, <1>6, <1>7, <1>8


LEMMA PutPolicyOK ==
    ASSUME ConfigureInv, NEW p \in Procs, PutPolicy(p)
    PROVE  StepOK(p)
<1> DEFINE k == i[p]
<1>1. TypeOK /\ SnapshotCurrent /\ Progress(p) /\ RerunFacts(p)
    BY DEF ConfigureInv
<1>0. pc \in [Procs -> PCs] /\ i \in [Procs -> Nat] /\ j \in [Procs -> Nat]
      /\ result \in [Procs -> Results]
    BY DEF ConfigureInv, TypeOK
<1>2. pc[p] = "p_put" /\ k \in 1..Len(PolicyNames) + 1 /\ AllAuth
      /\ PoliciesBefore(k) /\ (result[p] = "ok" => Reconciled)
    BY <1>1 DEF PutPolicy, Progress
<1>3. UNCHANGED <<authMounts, authWrites, mounts, configs, j, existingAuths,
                  present, enabled, startedConverged, failures, rootStored>>
    BY DEF PutPolicy
<1>4. OthersUnchanged(p)
    BY <1>1, <1>3 DEF PutPolicy, StartSecret, Goto, Return, OthersUnchanged,
                      TypeOK
<1>5. CASE k <= Len(PolicyNames)
    <2>1. policies' = policies \cup {PolicyNames[k]}
          /\ i' = [i EXCEPT ![p] = k + 1]
          /\ UNCHANGED <<pc, result, clientToken>>
        BY <1>2, <1>5, ConfigFacts DEF PutPolicy
    <2>2. TypeOK'
        BY <1>1, <1>2, <1>3, <1>5, <2>1, ConfigFacts DEF TypeOK
    <2>3. ServerGrows
        BY <1>3, <2>1 DEF ServerGrows
    <2>4. AllAuth' /\ (Reconciled => Reconciled')
        BY <1>1, <1>2, <2>2, <2>3, ServerFactsStable, ConfigFacts DEF AllAuth
    <2>5. \A n \in 1..k : PolicyNames[n] \in policies'
        <3>1. \A n \in 1..k - 1 : PolicyNames[n] \in policies
            BY <1>2 DEF PoliciesBefore
        <3>2. PolicyNames[k] \in policies' /\ policies \subseteq policies'
            BY <2>1
        <3>3. k \in Nat
            BY <1>0
        <3>4. QED
            BY <3>1, <3>2, <3>3
    <2>9. pc'[p] = "p_put" /\ i'[p] = k + 1 /\ result'[p] = result[p]
        BY <1>0, <1>2, <2>1
    <2>10. \A n \in Nat : n = k + 1 => PoliciesBefore(n)'
        BY <1>2, <2>5, ConfigFacts DEF PoliciesBefore
    <2>11. i'[p] \in 1..Len(PolicyNames) + 1
        BY <1>2, <1>5, <2>9, ConfigFacts
    <2>6. Progress(p)'
        BY <1>0, <1>2, <2>4, <2>9, <2>10, <2>11 DEF Progress
    <2>7. RerunFacts(p)'
        BY <1>1, <1>2, <1>3, <2>1 DEF RerunFacts, Converged
    <2>8. QED
        BY <1>1, <1>3, <1>4, <2>2, <2>3, <2>6, <2>7, SnapshotStable DEF StepOK
<1>6. CASE ~(k <= Len(PolicyNames))
    <2>1. StartSecret(p, 1) /\ UNCHANGED policies
        BY <1>2, <1>6, ConfigFacts DEF PutPolicy
    <2>2. ServerGrows /\ Reconciled' = Reconciled /\ Converged' = Converged
        BY <1>3, <2>1 DEF ServerGrows, Reconciled, Converged
    <2>3. AllAuth' /\ AllPolicies' /\ SecretsBefore(1)'
        <3>1. AllAuth'
            BY <1>2, <1>3 DEF AllAuth, AuthBefore, AuthOK, AuthMounted
        <3>2. k = Len(PolicyNames) + 1
            BY <1>2, <1>6, ConfigFacts
        <3>3. AllPolicies'
            BY <1>2, <2>1, <3>2 DEF AllPolicies, PoliciesBefore
        <3>4. SecretsBefore(1)'
            BY DEF SecretsBefore
        <3>5. QED
            BY <3>1, <3>3, <3>4
    <2>4. CASE 1 <= Len(SecretEntries)
        <3>1. pc' = [pc EXCEPT ![p] = "s_list"] /\ i' = [i EXCEPT ![p] = 1]
              /\ UNCHANGED <<result, clientToken>>
            BY <2>1, <2>4 DEF StartSecret, Goto
        <3>2. TypeOK'
            BY <1>1, <1>3, <2>1, <3>1 DEF TypeOK, PCs
        <3>3. Progress(p)' /\ RerunFacts(p)'
            BY <1>1, <1>3, <2>2, <2>3, <2>4, <3>1 DEF Progress, RerunFacts,
                                                      TypeOK
        <3>4. QED
            BY <1>1, <1>3, <1>4, <2>2, <3>2, <3>3, SnapshotStable DEF StepOK
    <2>5. CASE ~(1 <= Len(SecretEntries))
        <3>1. pc' = [pc EXCEPT ![p] = "idle"]
              /\ result' = [result EXCEPT ![p] = "ok"]
              /\ clientToken' = [clientToken EXCEPT ![p] = FALSE]
              /\ UNCHANGED i
            BY <2>1, <2>5 DEF StartSecret, Return
        <3>2. TypeOK'
            BY <1>1, <1>3, <2>1, <3>1 DEF TypeOK, PCs, Results
        <3>3. Reconciled
            <4>1. SecretsBefore(Len(SecretEntries) + 1)
                BY <2>5, ConfigFacts DEF SecretsBefore
            <4>2. AllPolicies
                BY <1>2, <1>6, ConfigFacts DEF AllPolicies
            <4>3. QED
                BY <1>2, <4>1, <4>2, ReconciledFromPhases
        <3>4. Progress(p)' /\ RerunFacts(p)'
            BY <1>1, <1>3, <2>2, <3>1, <3>3 DEF Progress, RerunFacts, TypeOK
        <3>5. QED
            BY <1>1, <1>3, <1>4, <2>2, <3>2, <3>4, SnapshotStable DEF StepOK
    <2>6. QED
        BY <2>4, <2>5
<1>7. QED
    BY <1>5, <1>6
=============================================================================
