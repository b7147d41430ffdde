--------------------- MODULE VaultConfigureSecretSteps ---------------------
(***************************************************************************)
(* The steps of the secret engine phase of Configure (vault.go:513-563)    *)
(* preserve ConfigureInv.                                                  *)
(***************************************************************************)
EXTENDS VaultConfigureLemmas

LEMMA ListMountsOK ==
    ASSUME ConfigureInv, NEW p \in Procs, ListMounts(p)
    PROVE  StepOK(p)
<1>1. TypeOK /\ SnapshotCurrent /\ Progress(p) /\ RerunFacts(p)
    BY DEF ConfigureInv
<1>2. pc[p] = "s_list" /\ i[p] \in 1..Len(SecretEntries)
      /\ present' = [present EXCEPT ![p] = SecretEntries[i[p]].path \in mounts]
      /\ pc' = [pc EXCEPT ![p] = "s_mount"]
      /\ UNCHANGED <<serverVars, i, j, existingAuths, clientToken, enabled,
                     startedConverged, result, failures, rootStored>>
    BY <1>1 DEF ListMounts, Goto, Progress
<1>3. TypeOK'
    BY <1>1, <1>2 DEF TypeOK, PCs, serverVars
<1>4. ServerGrows /\ Converged' = Converged /\ Reconciled' = Reconciled
    BY <1>2 DEF ServerGrows, Converged, Reconciled, serverVars
<1>5. OthersUnchanged(p)
    BY <1>1, <1>2 DEF OthersUnchanged, TypeOK
<1>6. /\ AllAuth' = AllAuth /\ AllPolicies' = AllPolicies
      /\ SecretsBefore(i[p])' = SecretsBefore(i[p])
    BY <1>2 DEF AllAuth, AuthBefore, AuthOK, AuthMounted, AllPolicies,
                PoliciesBefore, SecretsBefore, SecretOK, serverVars
<1>7. Progress(p)'
    BY <1>1, <1>2, <1>4, <1>6 DEF Progress, TypeOK, serverVars
<1>8. RerunFacts(p)'
    BY <1>1, <1>2, <1>4, ConfigFacts DEF RerunFacts, Converged, TypeOK,
                                         serverVars
<1>9. QED
    BY <1>1, <1>2, <1>3, <1>4, <1>5, <1>7, <1>8, SnapshotStable DEF StepOK


LEMMA MountOrTuneOK ==
    ASSUME ConfigureInv, NEW p \in Procs, MountOrTune(p)
    PROVE  StepOK(p)
<1> DEFINE path == SecretEntries[i[p]].path
<1>1. TypeOK /\ SnapshotCurrent /\ Progress(p) /\ RerunFacts(p)
    BY DEF ConfigureInv
<1>0. pc \in [Procs -> PCs] /\ i \in [Procs -> Nat] /\ j \in [Procs -> Nat]
      /\ result \in [Procs -> Results] /\ present \in [Procs -> BOOLEAN]
    BY DEF ConfigureInv, TypeOK
<1>2. /\ pc[p] = "s_mount" /\ i[p] \in 1..Len(SecretEntries)
      /\ AllAuth /\ AllPolicies /\ SecretsBefore(i[p])
      /\ present[p] => path \in mounts
      /\ startedConverged[p] => present[p]
      /\ result[p] = "ok" => Reconciled
    BY <1>1 DEF MountOrTune, Progress, RerunFacts
<1>3. /\ UNCHANGED <<authMounts, authWrites, policies, configs, i,
                     existingAuths, present, startedConverged, failures,
                     rootStored>>
      /\ j' = [j EXCEPT ![p] = 1]
    BY DEF MountOrTune
<1>4. OthersUnchanged(p)
    BY <1>1, <1>3 DEF MountOrTune, Goto, Return, OthersUnchanged, TypeOK
<1>5. path \in SecretPaths
    BY <1>2, ConfigFacts
<1>6. CASE ~present[p] /\ path \notin mounts
    <2>1. /\ mounts' = mounts \cup {path}
          /\ enabled' = [enabled EXCEPT ![p] = @ + 1]
          /\ pc' = [pc EXCEPT ![p] = "s_config"]
          /\ UNCHANGED <<result, clientToken>>
        BY <1>6 DEF MountOrTune, Goto
    <2>2. TypeOK'
        BY <1>1, <1>3, <1>5, <2>1 DEF TypeOK, PCs
    <2>3. ServerGrows
        BY <1>3, <2>1 DEF ServerGrows
    <2>4. /\ AllAuth' /\ AllPolicies' /\ SecretsBefore(i[p])'
          /\ (Reconciled => Reconciled')
        BY <1>1, <1>2, <1>3, <2>2, <2>3, ServerFactsStable, ConfigFacts
           DEF AllAuth, AllPolicies
    <2>8. /\ pc'[p] = "s_config" /\ i'[p] = i[p] /\ j'[p] = 1
          /\ result'[p] = result[p]
        BY <1>0, <1>3, <2>1
    <2>5. Progress(p)'
        BY <1>2, <1>3, <2>1, <2>4, <2>8, ConfigFacts DEF Progress
    <2>6. RerunFacts(p)'
        BY <1>2, <1>3, <1>6 DEF RerunFacts
    <2>7. QED
        BY <1>1, <1>3, <1>4, <2>2, <2>3, <2>5, <2>6, SnapshotStable DEF StepOK
<1>7. CASE ~present[p] /\ path \in mounts
    <2>1. /\ UNCHANGED mounts
          /\ enabled' = [enabled EXCEPT ![p] = @ + 1]
          /\ pc' = [pc EXCEPT ![p] = "idle"]
          /\ result' = [result EXCEPT ![p] = "failed"]
          /\ clientToken' = [clientToken EXCEPT ![p] = FALSE]
        BY <1>7 DEF MountOrTune, Return
    <2>2. TypeOK'
        BY <1>1, <1>3, <2>1 DEF TypeOK, PCs, Results
    <2>3. ServerGrows
        BY <1>3, <2>1 DEF ServerGrows
    <2>4. Progress(p)' /\ RerunFacts(p)'
        BY <1>1, <1>2, <1>3, <1>7, <2>1 DEF Progress, RerunFacts, TypeOK
    <2>5. QED
        BY <1>1, <1>3, <1>4, <2>2, <2>3, <2>4, SnapshotStable DEF StepOK
<1>8. CASE present[p]
    <2>1. /\ UNCHANGED <<mounts, enabled, result, clientToken>>
          /\ pc' = [pc EXCEPT ![p] = "s_config"]
        BY <1>8 DEF MountOrTune, Goto
    <2>2. TypeOK'
        BY <1>1, <1>3, <2>1 DEF TypeOK, PCs
    <2>3. ServerGrows /\ Converged' = Converged /\ Reconciled' = Reconciled
        BY <1>3, <2>1 DEF ServerGrows, Converged, Reconciled
    <2>4. /\ AllAuth' = AllAuth /\ AllPolicies' = AllPolicies
          /\ SecretsBefore(i[p])' = SecretsBefore(i[p])
        BY <1>3, <2>1 DEF AllAuth, AuthBefore, AuthOK, AuthMounted,
                          AllPolicies, PoliciesBefore, SecretsBefore, SecretOK
    <2>5. Progress(p)'
        BY <1>1, <1>2, <1>3, <1>8, <2>1, <2>3, <2>4 DEF Progress, TypeOK
    <2>6. RerunFacts(p)'
        BY <1>1, <1>2, <1>3, <2>1, <2>3 DEF RerunFacts, TypeOK
    <2>7. QED
        BY <1>1, <1>3, <1>4, <2>2, <2>3, <2>5, <2>6, SnapshotStable DEF StepOK
<1>9. QED
    BY <1>6, <1>7, <1>8


LEMMA ConfigWriteOK ==
    ASSUME ConfigureInv, NEW p \in Procs, ConfigWrite(p)
    PROVE  StepOK(p)
<1> DEFINE k == i[p]
           cs == SecretEntries[k].configs
<1>1. TypeOK /\ SnapshotCurrent /\ Progress(p) /\ RerunFacts(p)
    BY DEF ConfigureInv
<1>0. pc \in [Procs -> PCs] /\ i \in [Procs -> Nat] /\ j \in [Procs -> Nat]
      /\ result \in [Procs -> Results]
    BY DEF ConfigureInv, TypeOK
<1>2. /\ pc[p] = "s_config" /\ k \in 1..Len(SecretEntries)
      /\ AllAuth /\ AllPolicies /\ SecretsBefore(k)
      /\ SecretEntries[k].path \in mounts
      /\ j[p] \in 1..Len(cs) + 1
      /\ \A n \in 1..j[p] - 1 : cs[n] \in configs
      /\ result[p] = "ok" => Reconciled
    BY <1>1 DEF ConfigWrite, Progress
<1>3. /\ cs \in Seq(STRING) /\ DOMAIN cs = 1..Len(cs) /\ Len(cs) \in Nat
      /\ \A n \in DOMAIN cs : cs[n] \in ConfigIds
    BY <1>2, ConfigFacts, LenProperties
<1>4. UNCHANGED <<authMounts, authWrites, policies, mounts, existingAuths,
                  present, enabled, startedConverged, failures, rootStored>>
    BY DEF ConfigWrite
<1>5. OthersUnchanged(p)
    BY <1>1, <1>4 DEF ConfigWrite, StartSecret, Goto, Return,
                      OthersUnchanged, TypeOK
<1>6. CASE j[p] > Len(cs)
    <2>1. StartSecret(p, k + 1) /\ UNCHANGED <<configs, j>>
        BY <1>2, <1>3, <1>6 DEF ConfigWrite
    <2>2. SecretsBefore(k + 1)
        <3>1. SecretOK(k)
            BY <1>2, <1>3, <1>6 DEF SecretOK
        <3>2. QED
            BY <1>2, <3>1, BeforeSucc
    <2>3. /\ ServerGrows /\ Reconciled' = Reconciled
          /\ AllAuth' = AllAuth /\ AllPolicies' = AllPolicies
          /\ \A n \in Nat : SecretsBefore(n)' = SecretsBefore(n)
        BY <1>4, <2>1 DEF ServerGrows, Reconciled, Converged, AllAuth,
                          AuthBefore, AuthOK, AuthMounted, AllPolicies,
                          PoliciesBefore, SecretsBefore, SecretOK
    <2>4. CASE k + 1 <= Len(SecretEntries)
        <3>1. pc' = [pc EXCEPT ![p] = "s_list"]
              /\ i' = [i EXCEPT ![p] = k + 1]
              /\ UNCHANGED <<result, clientToken>>
            BY <2>1, <2>4 DEF StartSecret, Goto
        <3>6. pc' \in [Procs -> PCs] /\ i' \in [Procs -> Nat]
            BY <1>0, <1>2, <3>1 DEF PCs
        <3>2. TypeOK'
            BY <1>1, <1>4, <2>1, <3>1, <3>6 DEF TypeOK
        <3>7. pc'[p] = "s_list" /\ i'[p] = k + 1 /\ result'[p] = result[p]
            BY <1>0, <3>1
        <3>3. Progress(p)'
            BY <1>2, <2>2, <2>3, <2>4, <3>7, ConfigFacts DEF Progress
        <3>4. RerunFacts(p)'
            BY <1>1, <1>2, <1>4, <2>1, <3>1 DEF RerunFacts, Converged, TypeOK
        <3>5. QED
            BY <1>1, <1>4, <1>5, <2>3, <3>2, <3>3, <3>4, SnapshotStable
               DEF StepOK
    <2>5. CASE ~(k + 1 <= Len(SecretEntries))
        <3>1. pc' = [pc EXCEPT ![p] = "idle"]
              /\ result' = [result EXCEPT ![p] = "ok"]
              /\ clientToken' = [clientToken EXCEPT ![p] = FALSE]
              /\ UNCHANGED i
            BY <2>1, <2>5 DEF StartSecret, Return
        <3>2. TypeOK'
            BY <1>1, <1>4, <2>1, <3>1 DEF TypeOK, PCs, Results
        <3>3. Reconciled
            <4>1. k + 1 = Len(SecretEntries) + 1
                BY <1>2, <2>5, ConfigFacts
            <4>2. QED
                BY <1>2, <2>2, <4>1, ReconciledFromPhases
        <3>4. Progress(p)' /\ RerunFacts(p)'
            BY <1>1, <1>4, <2>1, <2>3, <3>1, <3>3
               DEF Progress, RerunFacts, Converged, TypeOK
        <3>5. QED
            BY <1>1, <1>4, <1>5, <2>3, <3>2, <3>4, SnapshotStable DEF StepOK
    <2>6. QED
        BY <2>4, <2>5
<1>7. CASE j[p] <= Len(cs)
    <2>1. /\ configs' = configs \cup {cs[j[p]]}
          /\ j' = [j EXCEPT ![p] = @ + 1]
          /\ UNCHANGED <<pc, i, result, clientToken>>
        BY <1>2, <1>3, <1>7 DEF ConfigWrite
    <2>2. cs[j[p]] \in ConfigIds
        BY <1>2, <1>3, <1>7
    <2>10. configs' \subseteq ConfigIds /\ j' \in [Procs -> Nat]
        BY <1>0, <1>1, <2>1, <2>2 DEF TypeOK
    <2>3. TypeOK'
        BY <1>1, <1>4, <2>1, <2>10 DEF TypeOK
    <2>4. ServerGrows
        BY <1>4, <2>1 DEF ServerGrows
    <2>5. /\ AllAuth' /\ AllPolicies' /\ SecretsBefore(k)'
          /\ (Reconciled => Reconciled')
        BY <1>1, <1>2, <1>4, <2>1, <2>3, <2>4, ServerFactsStable, ConfigFacts
           DEF AllAuth, AllPolicies
    <2>11. /\ pc'[p] = "s_config" /\ i'[p] = k /\ j'[p] = j[p] + 1
           /\ result'[p] = result[p]
        BY <1>0, <1>2, <2>1
    <2>6. \A n \in 1..j'[p] - 1 : cs[n] \in configs'
        BY <1>0, <1>2, <2>1, <2>11
    <2>7. Progress(p)'
        BY <1>2, <1>3, <1>4, <1>7, <2>5, <2>6, <2>11 DEF Progress
    <2>8. RerunFacts(p)'
        BY <1>1, <1>2, <1>4, <2>1 DEF RerunFacts, Converged
    <2>9. QED
        BY <1>1, <1>4, <1>5, <2>3, <2>4, <2>7, <2>8, SnapshotStable DEF StepOK
<1>8. QED
    BY <1>2, <1>6, <1>7

=============================================================================
