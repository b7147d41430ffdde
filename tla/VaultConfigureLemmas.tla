----------------------- MODULE VaultConfigureLemmas ------------------------
(***************************************************************************)
(* The lemmas the proofs about VaultConfigure rest on: the facts about the *)
(* config, the frame of a step, the server only gaining, the initial      *)
(* states, and the steps of Configure that leave the server alone or      *)
(* mount an auth method.                                                  *)
(***************************************************************************)
EXTENDS VaultConfigure, SequenceTheorems, TLAPS

\* The facts about the config that the proofs use.
LEMMA ConfigFacts ==
    /\ Len(AuthEntries) \in Nat /\ Len(PolicyNames) \in Nat
    /\ Len(SecretEntries) \in Nat
    /\ DOMAIN AuthEntries = 1..Len(AuthEntries)
    /\ DOMAIN PolicyNames = 1..Len(PolicyNames)
    /\ DOMAIN SecretEntries = 1..Len(SecretEntries)
    /\ \A k \in DOMAIN AuthEntries :
          /\ AuthEntries[k].type \in AuthTypes
          /\ AuthEntries[k].path \in AuthPaths
    /\ \A k \in DOMAIN SecretEntries :
          /\ SecretEntries[k].path \in SecretPaths
          /\ SecretEntries[k].configs \in Seq(STRING)
          /\ DOMAIN SecretEntries[k].configs = 1..Len(SecretEntries[k].configs)
          /\ \A n \in DOMAIN SecretEntries[k].configs :
                SecretEntries[k].configs[n] \in ConfigIds
    /\ NoMount \notin AuthTypes
    /\ MaxFailures \in Nat
<1>1. AuthEntries \in Seq([type : AuthTypes, path : STRING])
      /\ SecretEntries \in Seq([type : STRING, path : STRING,
                                configs : Seq(STRING)])
      /\ PolicyNames \in Seq(STRING)
    BY ConfigAssumption
<1>2. \A k \in DOMAIN SecretEntries :
         SecretEntries[k] \in [type : STRING, path : STRING,
                                configs : Seq(STRING)]
    BY <1>1, LenProperties
<1>3. \A k \in DOMAIN SecretEntries :
         /\ SecretEntries[k].configs \in Seq(STRING)
         /\ DOMAIN SecretEntries[k].configs = 1..Len(SecretEntries[k].configs)
    BY <1>2, LenProperties
<1>4. \A k \in DOMAIN SecretEntries :
         /\ SecretEntries[k].path \in SecretPaths
         /\ \A n \in DOMAIN SecretEntries[k].configs :
               SecretEntries[k].configs[n] \in ConfigIds
    BY DEF ConfigIds, SecretPaths
<1>5. \A k \in DOMAIN AuthEntries :
         /\ AuthEntries[k].type \in AuthTypes
         /\ AuthEntries[k].path \in AuthPaths
    <2> SUFFICES ASSUME NEW k \in DOMAIN AuthEntries
                 PROVE  /\ AuthEntries[k].type \in AuthTypes
                        /\ AuthEntries[k].path \in AuthPaths
        OBVIOUS
    <2>1. AuthEntries[k] \in [type : AuthTypes, path : STRING]
        BY <1>1, LenProperties
    <2>2. AuthEntries[k].path \in AuthPaths
        BY Zenon DEF AuthPaths
    <2>3. QED
        BY <2>1, <2>2
<1>6. NoMount \notin AuthTypes /\ MaxFailures \in Nat
    BY ConfigAssumption DEF NoMount, AuthTypes
<1>7. QED
    BY <1>1, <1>3, <1>4, <1>5, <1>6, LenProperties

\* The post-configuration writes of a declared auth method go to auth paths.
LEMMA AuthWritesType ==
    ASSUME NEW k \in DOMAIN AuthEntries
    PROVE  /\ AuthWrites(AuthEntries[k]) \in Seq(AuthPaths)
           /\ DOMAIN AuthWrites(AuthEntries[k])
                = 1..Len(AuthWrites(AuthEntries[k]))
<1> DEFINE e == AuthEntries[k]
<1>1. e.type \in AuthTypes /\ e.path \in AuthPaths
    BY ConfigFacts
<1>2. AuthTypes \subseteq AuthPaths
    BY DEF AuthPaths
<1>3. AuthWrites(e) \in Seq(AuthPaths)
    BY <1>1, <1>2 DEF AuthWrites, AuthTypes
<1>4. QED
    BY <1>3

-----------------------------------------------------------------------------
(* The server only gains: a mount is never removed or retyped, and a       *)
(* write, a policy, a secret mount or a config entry is never undone.      *)

ServerGrows ==
    /\ \A x \in AuthPaths : authMounts[x] # NoMount =>
                               authMounts'[x] = authMounts[x]
    /\ authWrites \subseteq authWrites'
    /\ policies \subseteq policies'
    /\ mounts \subseteq mounts'
    /\ configs \subseteq configs'

\* What the server holds stays held.
LEMMA ServerFactsStable ==
    ASSUME TypeOK, TypeOK', ServerGrows
    PROVE  /\ \A k \in DOMAIN AuthEntries : AuthMounted(k) => AuthMounted(k)'
           /\ \A k \in DOMAIN AuthEntries : AuthOK(k) => AuthOK(k)'
           /\ \A k \in DOMAIN SecretEntries : SecretOK(k) => SecretOK(k)'
           /\ \A n \in 1..Len(AuthEntries) + 1 : AuthBefore(n) => AuthBefore(n)'
           /\ \A n \in 1..Len(PolicyNames) + 1 :
                 PoliciesBefore(n) => PoliciesBefore(n)'
           /\ \A n \in 1..Len(SecretEntries) + 1 :
                 SecretsBefore(n) => SecretsBefore(n)'
           /\ Converged => Converged'
           /\ Reconciled => Reconciled'
<1>1. \A k \in DOMAIN AuthEntries : AuthMounted(k) => AuthMounted(k)'
    BY ConfigFacts DEF ServerGrows, AuthMounted
<1>2. \A k \in DOMAIN AuthEntries : AuthOK(k) => AuthOK(k)'
    BY <1>1 DEF ServerGrows, AuthOK
<1>3. \A k \in DOMAIN SecretEntries : SecretOK(k) => SecretOK(k)'
    BY DEF ServerGrows, SecretOK
<1>4. \A n \in 1..Len(AuthEntries) + 1 : AuthBefore(n) => AuthBefore(n)'
    BY <1>2, ConfigFacts DEF AuthBefore
<1>5. \A n \in 1..Len(PolicyNames) + 1 :
         PoliciesBefore(n) => PoliciesBefore(n)'
    BY DEF ServerGrows, PoliciesBefore
<1>6. \A n \in 1..Len(SecretEntries) + 1 :
         SecretsBefore(n) => SecretsBefore(n)'
    BY <1>3, ConfigFacts DEF SecretsBefore
<1>7. Converged => Converged'
    BY <1>1 DEF Converged, AuthMounted, ServerGrows
<1>8. Reconciled => Reconciled'
    <2>1. \A k \in DOMAIN AuthEntries :
             \A m \in DOMAIN AuthWrites(AuthEntries[k]) :
                <<k, AuthWrites(AuthEntries[k])[m]>> \in authWrites
             => <<k, AuthWrites(AuthEntries[k])[m]>> \in authWrites'
        BY DEF ServerGrows
    <2>2. QED
        BY <1>7, <2>1 DEF Reconciled, ServerGrows
<1>9. QED
    BY <1>1, <1>2, <1>3, <1>4, <1>5, <1>6, <1>7, <1>8

-----------------------------------------------------------------------------
(* The initial states.                                                     *)

LEMMA InvInit == Init => ConfigureInv
<1> SUFFICES ASSUME Init PROVE ConfigureInv
    OBVIOUS
<1>1. TypeOK
    BY ConfigFacts, ConfigAssumption
       DEF Init, TypeOK, PCs, Results, SecretPaths
<1>2. SnapshotCurrent
    BY ConfigAssumption DEF Init, SnapshotCurrent
<1>3. \A p \in Procs : Progress(p) /\ RerunFacts(p)
    BY DEF Init, Progress, RerunFacts
<1>4. QED
    BY <1>1, <1>2, <1>3 DEF ConfigureInv


-----------------------------------------------------------------------------
(* The frame of a step of engine p: the other engines keep their state.    *)

OthersUnchanged(p) ==
    \A q \in Procs \ {p} :
        /\ pc'[q] = pc[q] /\ i'[q] = i[q] /\ j'[q] = j[q]
        /\ present'[q] = present[q] /\ result'[q] = result[q]
        /\ startedConverged'[q] = startedConverged[q]
        /\ enabled'[q] = enabled[q] /\ existingAuths'[q] = existingAuths[q]

\* What a step of engine p must establish for ConfigureInv to hold after it.
StepOK(p) ==
    /\ TypeOK' /\ ServerGrows /\ OthersUnchanged(p) /\ SnapshotCurrent'
    /\ Progress(p)' /\ RerunFacts(p)'

\* The position of an engine that does not move keeps telling the truth,
\* since the server only gains.
LEMMA OtherProcStable ==
    ASSUME ConfigureInv, TypeOK', ServerGrows, NEW q \in Procs,
           pc'[q] = pc[q], i'[q] = i[q], j'[q] = j[q],
           present'[q] = present[q], result'[q] = result[q],
           startedConverged'[q] = startedConverged[q],
           enabled'[q] = enabled[q], existingAuths'[q] = existingAuths[q]
    PROVE  Progress(q)' /\ RerunFacts(q)'
<1>1. Progress(q) /\ RerunFacts(q) /\ TypeOK
    BY DEF ConfigureInv
<1>2. /\ \A k \in DOMAIN AuthEntries : AuthMounted(k) => AuthMounted(k)'
      /\ \A n \in 1..Len(AuthEntries) + 1 : AuthBefore(n) => AuthBefore(n)'
      /\ \A n \in 1..Len(PolicyNames) + 1 :
            PoliciesBefore(n) => PoliciesBefore(n)'
      /\ \A n \in 1..Len(SecretEntries) + 1 :
            SecretsBefore(n) => SecretsBefore(n)'
      /\ Converged => Converged'
      /\ Reconciled => Reconciled'
    BY <1>1, ServerFactsStable
<1>3. /\ AllAuth => AllAuth'
      /\ AllPolicies => AllPolicies'
    BY <1>2, ConfigFacts DEF AllAuth, AllPolicies
<1>4. Progress(q)'
    <2> DEFINE w == AuthWrites(AuthEntries[i[q]])
               cs == SecretEntries[i[q]].configs
    <2>1. pc[q] \in {"a_enable", "a_write"} =>
             i[q] \in 1..Len(AuthEntries) /\ AuthBefore(i[q])'
        BY <1>1, <1>2 DEF Progress
    <2>2. pc[q] = "a_write" =>
             /\ AuthMounted(i[q])'
             /\ j[q] \in 1..Len(w) + 1
             /\ \A m \in 1..j[q] - 1 : <<i[q], w[m]>> \in authWrites'
        BY <1>1, <1>2, ConfigFacts DEF Progress, ServerGrows
    <2>3. pc[q] = "p_put" =>
             i[q] \in 1..Len(PolicyNames) + 1 /\ AllAuth' /\ PoliciesBefore(i[q])'
        BY <1>1, <1>2, <1>3, ConfigFacts DEF Progress
    <2>4. pc[q] \in {"s_list", "s_mount", "s_config"} =>
             /\ i[q] \in 1..Len(SecretEntries)
             /\ AllAuth' /\ AllPolicies' /\ SecretsBefore(i[q])'
        BY <1>1, <1>2, <1>3, ConfigFacts DEF Progress
    <2>5. pc[q] = "s_mount" /\ present[q] => SecretEntries[i[q]].path \in mounts'
        BY <1>1 DEF Progress, ServerGrows
    <2>6. pc[q] = "s_config" =>
             /\ SecretEntries[i[q]].path \in mounts'
             /\ j[q] \in 1..Len(cs) + 1
             /\ \A n \in 1..j[q] - 1 : cs[n] \in configs'
        BY <1>1 DEF Progress, ServerGrows
    <2>7. result[q] = "ok" => Reconciled'
        BY <1>1, <1>2 DEF Progress
    <2>8. QED
        BY <2>1, <2>2, <2>3, <2>4, <2>5, <2>6, <2>7 DEF Progress
<1>5. RerunFacts(q)'
    BY <1>1, <1>2 DEF RerunFacts
<1>6. QED
    BY <1>4, <1>5

\* A step that takes no auth snapshot keeps every snapshot current.
LEMMA SnapshotStable ==
    ASSUME SnapshotCurrent, TypeOK, TypeOK', ServerGrows,
           existingAuths' = existingAuths
    PROVE  SnapshotCurrent'
BY DEF SnapshotCurrent, ServerGrows, TypeOK

\* StepOK of engine p is all ConfigureInv needs.
LEMMA StepOKInv ==
    ASSUME ConfigureInv, NEW p \in Procs, StepOK(p)
    PROVE  ConfigureInv'
<1>1. \A q \in Procs \ {p} : Progress(q)' /\ RerunFacts(q)'
    BY OtherProcStable DEF StepOK, OthersUnchanged
<1>2. QED
    BY <1>1 DEF StepOK, ConfigureInv


-----------------------------------------------------------------------------
(* The steps that leave the server alone.                                  *)

LEMMA GetRootTokenOK ==
    ASSUME ConfigureInv, NEW p \in Procs, GetRootToken(p)
    PROVE  StepOK(p)
<1>1. TypeOK /\ SnapshotCurrent /\ Progress(p) /\ RerunFacts(p)
    BY DEF ConfigureInv
<1>2. UNCHANGED serverVars /\ existingAuths' = existingAuths
    BY DEF GetRootToken
<1>3. TypeOK'
    <2>1. pc' \in [Procs -> PCs] /\ result' \in [Procs -> Results]
          /\ clientToken' \in [Procs -> BOOLEAN]
          /\ enabled' \in [Procs -> Nat]
          /\ startedConverged' \in [Procs -> BOOLEAN]
        <3>1. CASE rootStored
            <4>1. pc' = [pc EXCEPT ![p] = "c_list"] /\ result' = result
                  /\ clientToken' = [clientToken EXCEPT ![p] = TRUE]
                  /\ enabled' = [enabled EXCEPT ![p] = 0]
                  /\ startedConverged' = [startedConverged EXCEPT ![p] = Converged]
                BY <3>1 DEF GetRootToken, Goto
            <4>2. QED
                BY <1>1, <4>1 DEF TypeOK, PCs, Converged
        <3>2. CASE ~rootStored
            <4>1. result' = [result EXCEPT ![p] = "failed"]
                  /\ UNCHANGED <<pc, clientToken, enabled, startedConverged>>
                BY <3>2 DEF GetRootToken
            <4>2. QED
                BY <1>1, <4>1 DEF TypeOK, Results
        <3>3. QED
            BY <3>1, <3>2
    <2>2. UNCHANGED <<i, j, present, rootStored, failures>>
        BY DEF GetRootToken
    <2>3. QED
        BY <1>1, <1>2, <2>1, <2>2 DEF TypeOK, serverVars
<1>4. ServerGrows
    BY <1>2 DEF ServerGrows, serverVars
<1>5. OthersUnchanged(p)
    BY <1>1 DEF GetRootToken, Goto, OthersUnchanged, TypeOK
<1>6. SnapshotCurrent'
    BY <1>1, <1>2, <1>3, <1>4, SnapshotStable
<1>7. Converged' = Converged /\ Reconciled' = Reconciled
    BY <1>2 DEF Converged, Reconciled, serverVars
<1>8. CASE rootStored
    <2>1. pc'[p] = "c_list" /\ result'[p] = result[p]
          /\ startedConverged'[p] = Converged /\ enabled'[p] = 0
        BY <1>1, <1>8 DEF GetRootToken, Goto, TypeOK
    <2>2. Progress(p)'
        BY <1>1, <1>7, <2>1 DEF Progress
    <2>3. RerunFacts(p)'
        BY <1>7, <2>1 DEF RerunFacts
    <2>4. QED
        BY <1>3, <1>4, <1>5, <1>6, <2>2, <2>3 DEF StepOK
<1>9. CASE ~rootStored
    <2>1. pc'[p] = pc[p] /\ pc[p] = "idle" /\ result'[p] = "failed"
          /\ startedConverged'[p] = startedConverged[p]
          /\ enabled'[p] = enabled[p]
        BY <1>1, <1>9 DEF GetRootToken, Goto, TypeOK
    <2>2. Progress(p)'
        BY <2>1 DEF Progress
    <2>3. RerunFacts(p)'
        BY <1>1, <1>7, <2>1 DEF RerunFacts
    <2>4. QED
        BY <1>3, <1>4, <1>5, <1>6, <2>2, <2>3 DEF StepOK
<1>10. QED
    BY <1>8, <1>9

LEMMA ListAuthOK ==
    ASSUME ConfigureInv, NEW p \in Procs, ListAuth(p)
    PROVE  StepOK(p)
<1>1. TypeOK /\ SnapshotCurrent /\ Progress(p) /\ RerunFacts(p)
    BY DEF ConfigureInv
<1>2. UNCHANGED serverVars /\ pc[p] = "c_list"
      /\ existingAuths' = [existingAuths EXCEPT ![p] = authMounts]
      /\ result'[p] = result[p] /\ startedConverged'[p] = startedConverged[p]
      /\ enabled'[p] = enabled[p] /\ i'[p] = 1
      /\ pc'[p] = IF 1 <= Len(AuthEntries) THEN "a_enable" ELSE "p_put"
    BY <1>1 DEF ListAuth, StartAuth, Goto, TypeOK
<1>3. TypeOK'
    <2>1. pc' \in [Procs -> PCs] /\ i' \in [Procs -> Nat]
        <3>1. CASE 1 <= Len(AuthEntries)
            <4>1. pc' = [pc EXCEPT ![p] = "a_enable"] /\ i' = [i EXCEPT ![p] = 1]
                BY <3>1 DEF ListAuth, StartAuth, Goto
            <4>2. QED
                BY <1>1, <4>1 DEF TypeOK, PCs
        <3>2. CASE ~(1 <= Len(AuthEntries))
            <4>1. pc' = [pc EXCEPT ![p] = "p_put"] /\ i' = [i EXCEPT ![p] = 1]
                BY <3>2 DEF ListAuth, StartAuth, Goto
            <4>2. QED
                BY <1>1, <4>1 DEF TypeOK, PCs
        <3>3. QED
            BY <3>1, <3>2
    <2>2. existingAuths' \in [Procs -> [AuthPaths -> AuthTypes \cup {NoMount}]]
        BY <1>1, <1>2 DEF TypeOK
    <2>3. UNCHANGED <<j, present, clientToken, enabled, startedConverged,
                      result, failures, rootStored>>
        BY DEF ListAuth
    <2>4. QED
        BY <1>1, <1>2, <2>1, <2>2, <2>3 DEF TypeOK, serverVars
<1>4. ServerGrows
    BY <1>2 DEF ServerGrows, serverVars
<1>5. OthersUnchanged(p)
    BY <1>1 DEF ListAuth, StartAuth, Goto, OthersUnchanged, TypeOK
<1>6. SnapshotCurrent'
    BY <1>1, <1>2 DEF SnapshotCurrent, TypeOK, serverVars
<1>7. Converged' = Converged /\ Reconciled' = Reconciled
    BY <1>2 DEF Converged, Reconciled, serverVars
<1>8. Progress(p)'
    <2>1. AuthBefore(1)' /\ PoliciesBefore(1)'
        BY DEF AuthBefore, PoliciesBefore
    <2>2. Len(AuthEntries) = 0 => AllAuth'
        BY <2>1 DEF AllAuth
    <2>3. QED
        BY <1>1, <1>2, <1>7, <2>1, <2>2, ConfigFacts DEF Progress
<1>9. RerunFacts(p)'
    <2>1. startedConverged[p] =>
             \A k \in DOMAIN AuthEntries :
                existingAuths'[p][AuthEntries[k].path] = AuthEntries[k].type
        BY <1>1, <1>2 DEF RerunFacts, Converged, TypeOK
    <2>2. QED
        BY <1>1, <1>2, <1>7, <2>1 DEF RerunFacts
<1>10. QED
    BY <1>3, <1>4, <1>5, <1>6, <1>8, <1>9 DEF StepOK

LEMMA CallFailsOK ==
    ASSUME ConfigureInv, NEW p \in Procs, CallFails(p)
    PROVE  StepOK(p)
<1>1. TypeOK /\ SnapshotCurrent /\ Progress(p) /\ RerunFacts(p)
    BY DEF ConfigureInv
<1>2. UNCHANGED serverVars /\ existingAuths' = existingAuths
      /\ pc'[p] = "idle" /\ result'[p] = "failed"
      /\ startedConverged'[p] = startedConverged[p]
      /\ enabled'[p] = enabled[p]
    BY <1>1 DEF CallFails, Return, TypeOK
<1>3. TypeOK'
    BY <1>1, <1>2, ConfigFacts
       DEF CallFails, Return, CanFail, Fail, TypeOK, PCs, Results, serverVars
<1>4. ServerGrows
    BY <1>2 DEF ServerGrows, serverVars
<1>5. OthersUnchanged(p)
    BY <1>1 DEF CallFails, Return, OthersUnchanged, TypeOK
<1>6. SnapshotCurrent'
    BY <1>1, <1>2, <1>3, <1>4, SnapshotStable
<1>7. Converged' = Converged
    BY <1>2 DEF Converged, serverVars
<1>8. Progress(p)' /\ RerunFacts(p)'
    BY <1>1, <1>2, <1>7 DEF Progress, RerunFacts
<1>9. QED
    BY <1>3, <1>4, <1>5, <1>6, <1>8 DEF StepOK


-----------------------------------------------------------------------------
(* The auth phase.                                                         *)

LEMMA EnableAuthOK ==
    ASSUME ConfigureInv, NEW p \in Procs, EnableAuth(p)
    PROVE  StepOK(p)
<1> DEFINE k == i[p]
           e == AuthEntries[k]
<1>1. TypeOK /\ SnapshotCurrent /\ Progress(p) /\ RerunFacts(p)
    BY DEF ConfigureInv
<1>2. pc[p] = "a_enable" /\ k \in 1..Len(AuthEntries) /\ AuthBefore(k)
    BY <1>1 DEF EnableAuth, Progress
<1>3. e.type \in AuthTypes /\ e.path \in AuthPaths /\ NoMount \notin AuthTypes
    BY <1>2, ConfigFacts
<1>4. /\ UNCHANGED <<authWrites, policies, mounts, configs, i, existingAuths,
                     present, startedConverged, failures, rootStored>>
      /\ j' = [j EXCEPT ![p] = 1]
    BY DEF EnableAuth
<1>5. OthersUnchanged(p)
    BY <1>1, <1>4 DEF EnableAuth, Goto, Return, OthersUnchanged, TypeOK
<1>6. startedConverged[p] => existingAuths[p][e.path] = e.type
    BY <1>1, <1>2, ConfigFacts DEF RerunFacts
<1>7. CASE existingAuths[p][e.path] = e.type
    <2>1. UNCHANGED <<authMounts, enabled, result, clientToken>>
          /\ pc' = [pc EXCEPT ![p] = "a_write"]
        BY <1>7 DEF EnableAuth, Goto
    <2>2. TypeOK'
        BY <1>1, <1>4, <2>1 DEF TypeOK, PCs
    <2>3. ServerGrows
        BY <1>4, <2>1 DEF ServerGrows
    <2>4. SnapshotCurrent'
        BY <1>1, <1>4, <2>2, <2>3, SnapshotStable
    <2>5. AuthMounted(k)'
        BY <1>1, <1>3, <1>4, <1>7, <2>1 DEF SnapshotCurrent, AuthMounted, TypeOK
    <2>6. AuthBefore(k)' /\ Reconciled' = Reconciled
        BY <1>2, <1>4, <2>1 DEF AuthBefore, AuthOK, AuthMounted, Reconciled,
                                Converged
    <2>7. Progress(p)'
        BY <1>1, <1>2, <1>4, <2>1, <2>5, <2>6 DEF Progress, TypeOK
    <2>8. RerunFacts(p)'
        BY <1>1, <1>2, <1>4, <2>1 DEF RerunFacts, Converged
    <2>9. QED
        BY <1>5, <2>2, <2>3, <2>4, <2>7, <2>8 DEF StepOK
<1>8. CASE existingAuths[p][e.path] # e.type /\ authMounts[e.path] = NoMount
    <2>1. /\ authMounts' = [authMounts EXCEPT ![e.path] = e.type]
          /\ enabled' = [enabled EXCEPT ![p] = @ + 1]
          /\ pc' = [pc EXCEPT ![p] = "a_write"]
          /\ UNCHANGED <<result, clientToken>>
        BY <1>3, <1>8 DEF EnableAuth, Goto, Return
    <2>2. TypeOK'
        BY <1>1, <1>3, <1>4, <2>1 DEF TypeOK, PCs
    <2>3. ServerGrows
        BY <1>1, <1>4, <1>8, <2>1 DEF ServerGrows, TypeOK
    <2>4. SnapshotCurrent'
        BY <1>1, <1>4, <2>2, <2>3, SnapshotStable
    <2>5. AuthMounted(k)'
        BY <1>1, <1>3, <1>4, <2>1 DEF AuthMounted, TypeOK
    <2>6. AuthBefore(k)' /\ (Reconciled => Reconciled')
        BY <1>1, <1>2, <1>4, <2>2, <2>3, ServerFactsStable, ConfigFacts
    <2>7. Progress(p)'
        BY <1>1, <1>2, <1>4, <2>1, <2>5, <2>6 DEF Progress, TypeOK
    <2>8. RerunFacts(p)'
        BY <1>4, <1>6, <1>8 DEF RerunFacts
    <2>9. QED
        BY <1>5, <2>2, <2>3, <2>4, <2>7, <2>8 DEF StepOK
<1>9. CASE existingAuths[p][e.path] # e.type /\ authMounts[e.path] # NoMount
    <2>1. /\ UNCHANGED authMounts
          /\ enabled' = [enabled EXCEPT ![p] = @ + 1]
          /\ pc' = [pc EXCEPT ![p] = "idle"]
          /\ result' = [result EXCEPT ![p] = "failed"]
          /\ clientToken' = [clientToken EXCEPT ![p] = FALSE]
        BY <1>9 DEF EnableAuth, Goto, Return
    <2>2. TypeOK'
        BY <1>1, <1>4, <2>1 DEF TypeOK, PCs, Results
    <2>3. ServerGrows
        BY <1>4, <2>1 DEF ServerGrows
    <2>4. SnapshotCurrent'
        BY <1>1, <1>4, <2>2, <2>3, SnapshotStable
    <2>5. Progress(p)'
        BY <1>1, <2>1 DEF Progress, TypeOK
    <2>6. RerunFacts(p)'
        BY <1>4, <1>6, <1>9 DEF RerunFacts
    <2>7. QED
        BY <1>5, <2>2, <2>3, <2>4, <2>5, <2>6 DEF StepOK
<1>10. QED
    BY <1>7, <1>8, <1>9


\* Passing entry n extends what is done before the next one.
LEMMA BeforeSucc ==
    ASSUME NEW n \in Nat \ {0}
    PROVE  /\ AuthBefore(n) /\ AuthOK(n) => AuthBefore(n + 1)
           /\ PoliciesBefore(n) /\ PolicyNames[n] \in policies
                 => PoliciesBefore(n + 1)
           /\ SecretsBefore(n) /\ SecretOK(n) => SecretsBefore(n + 1)
BY DEF AuthBefore, PoliciesBefore, SecretsBefore

\* The three phases done, for every entry, is the reconciled server.
LEMMA ReconciledFromPhases ==
    AllAuth /\ AllPolicies /\ SecretsBefore(Len(SecretEntries) + 1)
        => Reconciled
<1> SUFFICES ASSUME AllAuth, AllPolicies,
                    SecretsBefore(Len(SecretEntries) + 1)
             PROVE  Reconciled
    OBVIOUS
<1>1. \A k \in DOMAIN AuthEntries : AuthOK(k)
    BY ConfigFacts DEF AllAuth, AuthBefore
<1>2. \A k \in DOMAIN SecretEntries : SecretOK(k)
    BY ConfigFacts DEF SecretsBefore
<1>3. Converged
    BY <1>1, <1>2 DEF Converged, AuthOK, AuthMounted, SecretOK
<1>4. ConfigIds \subseteq configs
    BY <1>2 DEF ConfigIds, SecretOK
<1>5. \A k \in DOMAIN PolicyNames : PolicyNames[k] \in policies
    BY ConfigFacts DEF AllPolicies, PoliciesBefore
<1>6. QED
    BY <1>1, <1>3, <1>4, <1>5 DEF Reconciled, AuthOK
=============================================================================
