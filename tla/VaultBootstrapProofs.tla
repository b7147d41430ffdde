------------------------ MODULE VaultBootstrapProofs ------------------------
(***************************************************************************)
(* Proofs about VaultBootstrap, for every number of processes, shares and  *)
(* failures: type correctness, that the key store is write-once although  *)
(* keyStoreSet's Get-then-Set is not atomic, and that a successful Init    *)
(* has stored every share.                                                 *)
(***************************************************************************)
EXTENDS VaultBootstrap, TLAPS

\* The facts about the constants that the proofs use.
LEMMA ConstantFacts ==
    /\ Shares \in Nat /\ Shares >= 1
    /\ Threshold \in Nat
    /\ MaxFailures \in Nat
    /\ InitRootToken \in BOOLEAN
    /\ StoreRootToken \in BOOLEAN
BY ConfigAssumption, FlagsAssumption, BoundAssumption

\* Key names are distinct: unsealKeyForID is injective and never the root
\* key, and a name built from an index is a key name iff the index is one
\* of UnsealIDs.
LEMMA KeyNameFacts ==
    /\ \A i, j : unsealKeyForID(i) = unsealKeyForID(j) => i = j
    /\ \A i : unsealKeyForID(i) # rootTokenKey
    /\ \A i : unsealKeyForID(i) \in KeyNames <=> i \in UnsealIDs
BY DEF unsealKeyForID, rootTokenKey, KeyNames

-----------------------------------------------------------------------------
(* Type correctness.                                                       *)

LEMMA TypeInvInit == Init => TypeInv
<1> SUFFICES ASSUME Init PROVE TypeInv
    OBVIOUS
<1>1. \A S \in SUBSET KeyNames :
        [k \in KeyNames |-> IF k \in S THEN StaleValue(k) ELSE Missing]
            \in [KeyNames -> Values]
    BY DEF Values
<1>2. kv \in [KeyNames -> Values]
    BY <1>1 DEF Init
<1>3. NoToken \in TokenValues \cup {NoToken} /\ Missing \in Values
    BY DEF Values
<1>4. TypeOK
    <2>1. held \in [Procs -> Values] /\ parts \subseteq Values
        BY <1>3 DEF Init
    <2>2. clientToken \in [Procs -> TokenValues \cup {NoToken}]
        BY <1>3 DEF Init
    <2>3. pc \in [Procs -> PCs] /\ result \in [Procs -> Results]
        BY DEF Init, PCs, Results
    <2>4. idx \in [Procs -> 0..Shares + 1] /\ failures \in 0..MaxFailures
        BY ConstantFacts DEF Init
    <2>5. tokens \subseteq TokenValues
             /\ initialized \in BOOLEAN /\ sealed \in BOOLEAN
        BY DEF Init
    <2>6. QED
        BY <1>2, <2>1, <2>2, <2>3, <2>4, <2>5 DEF TypeOK
<1>5. IdxInRange
    BY DEF Init, IdxInRange
<1>6. QED
    BY <1>4, <1>5 DEF TypeInv

\* The step of one process preserves TypeInv.
LEMMA TypeInvStep ==
    ASSUME TypeInv, NEW p \in Procs,
           InitStep(p) \/ UnsealStep(p) \/ CallFails(p) \/ Crash(p)
    PROVE  TypeInv'
<1> USE ConstantFacts, KeyNameFacts
<1> USE DEF TypeInv, TypeOK, IdxInRange, PCs, Results, Return, CanFail,
            Fail, serverVars
<1>1. CASE InitStatus(p)
    BY <1>1 DEF InitStatus
<1>2. CASE TestKeyStore(p)
    BY <1>2 DEF TestKeyStore
<1>3. CASE Precheck(p)
    BY <1>3 DEF Precheck, PrecheckNext
<1>4. CASE ServerInit(p)
    <2>1. CASE ~initialized
        <3>1. 0 \in 0..Shares - 1 /\ {TempToken} \subseteq TokenValues
            BY DEF TokenValues
        <3>2. tokens' \subseteq TokenValues /\ initialized' \in BOOLEAN
            BY <1>4, <2>1, <3>1 DEF ServerInit
        <3>3. pc' \in [Procs -> PCs] /\ idx' \in [Procs -> 0..Shares + 1]
            BY <1>4, <2>1 DEF ServerInit
        <3>4. IdxInRange'
            BY <1>4, <2>1, <3>1 DEF ServerInit
        <3>5. QED
            BY <1>4, <2>1, <3>2, <3>3, <3>4 DEF ServerInit
    <2>2. CASE initialized
        BY <1>4, <2>2 DEF ServerInit
    <2>3. QED
        BY <2>1, <2>2
<1>5. CASE StoreGet(p)
    BY <1>5 DEF StoreGet
<1>6. CASE StoreSet(p)
    <2>1. idx[p] \in 0..Shares - 1 /\ Share(idx[p]) \in Values
        BY <1>6 DEF StoreSet, Values, ShareValues
    <2>2. unsealKeyForID(idx[p]) \in KeyNames
        BY <2>1 DEF UnsealIDs
    <2>3. kv' \in [KeyNames -> Values]
        BY <1>6, <2>1, <2>2 DEF StoreSet
    <2>4. QED
        BY <1>6, <2>1, <2>3 DEF StoreSet, StoreRootOrReturn
<1>7. CASE WaitUnsealed(p)
    BY <1>7 DEF WaitUnsealed, TokenValues
<1>8. CASE CreateOrphan(p)
    BY <1>8 DEF CreateOrphan, TokenValues
<1>9. CASE RevokeTemp(p)
    BY <1>9 DEF RevokeTemp, StoreRootOrReturn
<1>10. CASE RootGet(p)
    BY <1>10 DEF RootGet
<1>11. CASE RootSet(p)
    BY <1>11 DEF RootSet, Values, TokenValues
<1>12. CASE StartUnseal(p)
    BY <1>12 DEF StartUnseal
<1>13. CASE UnsealGet(p)
    <2>1. CASE KvGet(unsealKeyForID(idx[p])) # Missing
        <3>1. unsealKeyForID(idx[p]) \in KeyNames
            BY <2>1 DEF KvGet
        <3>2. idx[p] \in UnsealIDs /\ KvGet(unsealKeyForID(idx[p])) \in Values
            BY <3>1 DEF KvGet
        <3>3. QED
            BY <1>13, <2>1, <3>2 DEF UnsealGet
    <2>2. CASE KvGet(unsealKeyForID(idx[p])) = Missing
        BY <1>13, <2>2 DEF UnsealGet
    <2>3. QED
        BY <2>1, <2>2
<1>14. CASE SubmitShare(p)
    <2>1. idx[p] \in UnsealIDs /\ held[p] \in Values
        BY <1>14 DEF SubmitShare
    <2>2. idx[p] + 1 \in 0..Shares + 1
        BY <2>1 DEF UnsealIDs
    <2>3. QED
        BY <1>14, <2>1, <2>2 DEF SubmitShare, Accumulated, UnsealPCs
<1>15. CASE CallFails(p)
    BY <1>15 DEF CallFails, UnsealPCs
<1>16. CASE Crash(p)
    BY <1>16 DEF Crash, Values
<1>17. QED
    BY <1>1, <1>2, <1>3, <1>4, <1>5, <1>6, <1>7, <1>8, <1>9, <1>10, <1>11,
       <1>12, <1>13, <1>14, <1>15, <1>16 DEF InitStep, UnsealStep

LEMMA TypeInvNext == TypeInv /\ [Next]_vars => TypeInv'
<1> SUFFICES ASSUME TypeInv, [Next]_vars PROVE TypeInv'
    OBVIOUS
<1>1. ASSUME NEW p \in Procs,
             InitStep(p) \/ UnsealStep(p) \/ CallFails(p) \/ Crash(p)
      PROVE  TypeInv'
    BY <1>1, TypeInvStep
<1>2. CASE ServerRestart
    BY <1>2, ConstantFacts
    DEF ServerRestart, TypeInv, TypeOK, IdxInRange, CanFail, Fail, engineVars
<1>3. CASE UNCHANGED vars
    BY <1>3 DEF vars, TypeInv, TypeOK, IdxInRange
<1>4. QED
    BY <1>1, <1>2, <1>3 DEF Next

\* Type correctness (TypeOK is checked by the run bootstrap_safety).
THEOREM TypeCorrect == Spec => []TypeOK
<1>1. Init => TypeInv
    BY TypeInvInit
<1>2. TypeInv /\ [Next]_vars => TypeInv'
    BY TypeInvNext
<1>3. TypeInv => TypeOK
    BY DEF TypeInv
<1>4. QED
    BY <1>1, <1>2, <1>3, PTL DEF Spec

-----------------------------------------------------------------------------
(* The key store is write-once.                                            *)
(*                                                                         *)
(* keyStoreSet is a Get followed by a Set, and another process could write *)
(* the key in between.  None does, because only the process whose sys/init *)
(* call succeeded ever gets past it (PostInitUnique, which rests on the    *)
(* server refusing a second sys/init), and that process's pending Set      *)
(* targets the key its Get found absent (PendingSetAbsent).                *)

\* A step of one process preserves the two invariants over TypeInv.
LEMMA StoreInvStep ==
    ASSUME StoreInv, TypeInv', NEW p \in Procs,
           InitStep(p) \/ UnsealStep(p) \/ CallFails(p) \/ Crash(p)
    PROVE  (PostInitUnique /\ PendingSetAbsent)'
<1> USE ConstantFacts, KeyNameFacts
<1> USE DEF StoreInv, TypeInv, TypeOK, IdxInRange, PostInitUnique,
            PendingSetAbsent, PostInitPCs, Return, CanFail, Fail, serverVars
<1>1. CASE InitStatus(p)
    BY <1>1 DEF InitStatus
<1>2. CASE TestKeyStore(p)
    BY <1>2 DEF TestKeyStore
<1>3. CASE Precheck(p)
    BY <1>3 DEF Precheck, PrecheckNext
<1>4. CASE ServerInit(p)
    BY <1>4 DEF ServerInit
<1>5. CASE StoreGet(p)
    BY <1>5 DEF StoreGet
<1>6. CASE StoreSet(p)
    <2>1. \A q \in Procs : q # p => pc[q] \notin PostInitPCs
        BY <1>6 DEF StoreSet
    <2>2. PostInitUnique'
        BY <1>6, <2>1 DEF StoreSet, StoreRootOrReturn
    <2>3. \A q \in Procs : pc'[q] # "i_store_set"
        BY <1>6, <2>1 DEF StoreSet, StoreRootOrReturn
    <2>4. \A q \in Procs : pc'[q] # "i_root_set"
        BY <1>6, <2>1 DEF StoreSet, StoreRootOrReturn
    <2>5. QED
        BY <2>2, <2>3, <2>4
<1>7. CASE WaitUnsealed(p)
    BY <1>7 DEF WaitUnsealed
<1>8. CASE CreateOrphan(p)
    BY <1>8 DEF CreateOrphan
<1>9. CASE RevokeTemp(p)
    BY <1>9 DEF RevokeTemp, StoreRootOrReturn
<1>10. CASE RootGet(p)
    BY <1>10 DEF RootGet
<1>11. CASE RootSet(p)
    <2>1. \A q \in Procs : q # p => pc[q] \notin PostInitPCs
        BY <1>11 DEF RootSet
    <2>2. QED
        BY <1>11, <2>1 DEF RootSet
<1>12. CASE StartUnseal(p)
    BY <1>12 DEF StartUnseal
<1>13. CASE UnsealGet(p)
    BY <1>13 DEF UnsealGet
<1>14. CASE SubmitShare(p)
    BY <1>14 DEF SubmitShare
<1>15. CASE CallFails(p)
    BY <1>15 DEF CallFails
<1>16. CASE Crash(p)
    BY <1>16 DEF Crash
<1>17. QED
    BY <1>1, <1>2, <1>3, <1>4, <1>5, <1>6, <1>7, <1>8, <1>9, <1>10, <1>11,
       <1>12, <1>13, <1>14, <1>15, <1>16 DEF InitStep, UnsealStep

LEMMA StoreInvInit == Init => StoreInv
BY TypeInvInit DEF Init, StoreInv, PostInitUnique, PendingSetAbsent,
                   PostInitPCs

LEMMA StoreInvNext == StoreInv /\ [Next]_vars => StoreInv'
<1> SUFFICES ASSUME StoreInv, [Next]_vars PROVE StoreInv'
    OBVIOUS
<1>1. TypeInv'
    BY TypeInvNext DEF StoreInv
<1>2. ASSUME NEW p \in Procs,
             InitStep(p) \/ UnsealStep(p) \/ CallFails(p) \/ Crash(p)
      PROVE  StoreInv'
    BY <1>1, <1>2, StoreInvStep DEF StoreInv
<1>3. CASE ServerRestart
    BY <1>1, <1>3 DEF ServerRestart, StoreInv, PostInitUnique,
                      PendingSetAbsent, engineVars
<1>4. CASE UNCHANGED vars
    BY <1>1, <1>4 DEF vars, StoreInv, PostInitUnique, PendingSetAbsent
<1>5. QED
    BY <1>2, <1>3, <1>4 DEF Next

\* Only StoreSet and RootSet change the key store, and each writes a key
\* that holds Missing.
LEMMA NoOverwriteStep ==
    StoreInv /\ [Next]_vars =>
        [\A k \in KeyNames : kv[k] # Missing => kv'[k] = kv[k]]_kv
<1> SUFFICES ASSUME StoreInv, [Next]_vars
             PROVE  [\A k \in KeyNames : kv[k] # Missing => kv'[k] = kv[k]]_kv
    OBVIOUS
<1> USE DEF StoreInv, TypeInv, TypeOK, PendingSetAbsent
<1>1. ASSUME NEW p \in Procs, StoreSet(p)
      PROVE  \A k \in KeyNames : kv[k] # Missing => kv'[k] = kv[k]
    BY <1>1 DEF StoreSet
<1>2. ASSUME NEW p \in Procs, RootSet(p)
      PROVE  \A k \in KeyNames : kv[k] # Missing => kv'[k] = kv[k]
    BY <1>2 DEF RootSet
<1>3. ASSUME NEW p \in Procs,
             InitStep(p) \/ UnsealStep(p) \/ CallFails(p) \/ Crash(p),
             ~StoreSet(p), ~RootSet(p)
      PROVE  UNCHANGED kv
    BY <1>3 DEF InitStep, UnsealStep, InitStatus, TestKeyStore, Precheck,
       ServerInit, StoreGet, WaitUnsealed, CreateOrphan, RevokeTemp,
       RootGet, StartUnseal, UnsealGet, SubmitShare, CallFails, Crash
<1>4. CASE ServerRestart
    BY <1>4 DEF ServerRestart
<1>5. QED
    BY <1>1, <1>2, <1>3, <1>4 DEF Next, vars

\* The key store is write-once (NoOverwrite, checked by the run
\* bootstrap_safety): whatever the number of processes, shares and
\* failures, Init's non-atomic Get-then-Set never replaces a stored value.
THEOREM KeyStoreWriteOnce == Spec => NoOverwrite
<1>1. Init => StoreInv
    BY StoreInvInit
<1>2. StoreInv /\ [Next]_vars => StoreInv'
    BY StoreInvNext
<1>3. StoreInv /\ [Next]_vars =>
        [\A k \in KeyNames : kv[k] # Missing => kv'[k] = kv[k]]_kv
    BY NoOverwriteStep
<1>4. QED
    BY <1>1, <1>2, <1>3, PTL DEF Spec, NoOverwrite

-----------------------------------------------------------------------------
(* A successful Init has stored every share.                               *)
(*                                                                         *)
(* The share loop stores the shares in index order, and the key store is   *)
(* write-once, so a share once stored stays: SharesStoredSoFar records how *)
(* far the loop of each process got, and it holds over StoreInv.           *)

\* A share or the root token once stored stays stored: the write-once step
\* of NoOverwriteStep, read at the keys the loop writes.
LEMMA StoredPersists ==
    ASSUME StoreInv, [Next]_vars
    PROVE  /\ \A n \in 0..Shares - 1 :
                 kv[unsealKeyForID(n)] = Share(n) =>
                     kv'[unsealKeyForID(n)] = Share(n)
           /\ AllSharesStored => AllSharesStored'
           /\ kv[rootTokenKey] # Missing => kv'[rootTokenKey] # Missing
<1>1. [\A k \in KeyNames : kv[k] # Missing => kv'[k] = kv[k]]_kv
    BY NoOverwriteStep
<1>2. \A n \in 0..Shares - 1 : unsealKeyForID(n) \in KeyNames
                                /\ Share(n) # Missing
    BY ConstantFacts, KeyNameFacts DEF UnsealIDs, Share, Missing
<1>3. rootTokenKey \in KeyNames
    BY DEF KeyNames
<1>4. \A n \in 0..Shares - 1 :
         kv[unsealKeyForID(n)] = Share(n) => kv'[unsealKeyForID(n)] = Share(n)
    BY <1>1, <1>2
<1>5. QED
    BY <1>1, <1>3, <1>4 DEF AllSharesStored

\* A step of process p leaves the control state of every other process.
LEMMA OthersUnchanged ==
    ASSUME TypeInv, NEW p \in Procs,
           InitStep(p) \/ UnsealStep(p) \/ CallFails(p) \/ Crash(p),
           NEW q \in Procs, q # p
    PROVE  pc'[q] = pc[q] /\ idx'[q] = idx[q] /\ result'[q] = result[q]
<1> USE DEF TypeInv, TypeOK, Return, StoreRootOrReturn
<1>1. CASE InitStatus(p) \/ TestKeyStore(p) \/ ServerInit(p)
    BY <1>1 DEF InitStatus, TestKeyStore, ServerInit
<1>2. CASE Precheck(p)
    BY <1>2 DEF Precheck, PrecheckNext
<1>3. CASE StoreGet(p) \/ StoreSet(p) \/ WaitUnsealed(p)
    BY <1>3 DEF StoreGet, StoreSet, WaitUnsealed
<1>4. CASE CreateOrphan(p) \/ RevokeTemp(p) \/ RootGet(p) \/ RootSet(p)
    BY <1>4 DEF CreateOrphan, RevokeTemp, RootGet, RootSet
<1>5. CASE StartUnseal(p) \/ UnsealGet(p) \/ SubmitShare(p)
    BY <1>5 DEF StartUnseal, UnsealGet, SubmitShare
<1>6. CASE CallFails(p) \/ Crash(p)
    BY <1>6 DEF CallFails, Crash
<1>7. QED
    BY <1>1, <1>2, <1>3, <1>4, <1>5, <1>6 DEF InitStep, UnsealStep

\* A step of process p keeps its own share-loop record.
LEMMA SharesStoredByStep ==
    ASSUME ReportInv, [Next]_vars, TypeInv', NEW p \in Procs,
           InitStep(p) \/ UnsealStep(p) \/ CallFails(p) \/ Crash(p)
    PROVE  SharesStoredBy(p)'
<1> USE ConstantFacts
<1> USE DEF ReportInv, StoreInv, TypeInv, TypeOK, IdxInRange, Return,
            StoreRootOrReturn, CanFail, Fail, serverVars
<1>0. /\ \A n \in 0..Shares - 1 :
            kv[unsealKeyForID(n)] = Share(n) =>
                kv'[unsealKeyForID(n)] = Share(n)
      /\ AllSharesStored => AllSharesStored'
      /\ kv[rootTokenKey] # Missing => kv'[rootTokenKey] # Missing
    BY StoredPersists
<1>1. SharesStoredBy(p)
    BY DEF SharesStoredSoFar
<1>2. CASE InitStatus(p) \/ TestKeyStore(p) \/ ServerInit(p)
    BY <1>0, <1>1, <1>2 DEF InitStatus, TestKeyStore, ServerInit,
                             SharesStoredBy
<1>3. CASE Precheck(p)
    BY <1>0, <1>1, <1>3 DEF Precheck, PrecheckNext, SharesStoredBy
<1>4. CASE StoreGet(p)
    BY <1>0, <1>1, <1>4 DEF StoreGet, SharesStoredBy
<1>5. CASE StoreSet(p)
    <2>1. kv'[unsealKeyForID(idx[p])] = Share(idx[p])
        BY <1>5, KeyNameFacts DEF StoreSet, UnsealIDs
    <2>2. \A n \in 0..idx[p] : kv'[unsealKeyForID(n)] = Share(n)
        <3>1. idx[p] \in 0..Shares - 1
            BY <1>5 DEF StoreSet
        <3>2. \A n \in 0..idx[p] - 1 : kv[unsealKeyForID(n)] = Share(n)
            BY <1>1, <1>5 DEF StoreSet, SharesStoredBy
        <3>3. \A n \in 0..idx[p] - 1 : kv'[unsealKeyForID(n)] = Share(n)
            BY <1>0, <3>1, <3>2
        <3>4. QED
            BY <2>1, <3>1, <3>3
    <2>3. CASE idx[p] = Shares - 1
        <3>1. AllSharesStored'
            BY <2>2, <2>3 DEF AllSharesStored
        <3>2. CASE InitRootToken
            BY <1>0, <1>1, <1>5, <2>3, <3>1, <3>2 DEF StoreSet, SharesStoredBy
        <3>3. CASE ~InitRootToken /\ StoreRootToken
            BY <1>0, <1>1, <1>5, <2>3, <3>1, <3>3 DEF StoreSet, SharesStoredBy
        <3>4. CASE ~InitRootToken /\ ~StoreRootToken
            BY <1>0, <1>1, <1>5, <2>3, <3>1, <3>4 DEF StoreSet, SharesStoredBy
        <3>5. QED
            BY <3>2, <3>3, <3>4
    <2>4. CASE idx[p] # Shares - 1
        BY <1>0, <1>1, <1>5, <2>2, <2>4 DEF StoreSet, SharesStoredBy
    <2>5. QED
        BY <2>3, <2>4
<1>6. CASE WaitUnsealed(p) \/ CreateOrphan(p) \/ RootGet(p)
    BY <1>0, <1>1, <1>6 DEF WaitUnsealed, CreateOrphan, RootGet,
                             SharesStoredBy
<1>7. CASE RevokeTemp(p)
    BY <1>0, <1>1, <1>7 DEF RevokeTemp, SharesStoredBy
<1>8. CASE RootSet(p)
    <2>1. kv'[rootTokenKey] # Missing
        BY <1>8 DEF RootSet, KeyNames, TempToken, Missing
    <2>2. QED
        BY <1>0, <1>1, <1>8, <2>1 DEF RootSet, SharesStoredBy
<1>9. CASE UnsealStep(p) \/ CallFails(p) \/ Crash(p)
    BY <1>0, <1>1, <1>9 DEF UnsealStep, StartUnseal, UnsealGet,
                             SubmitShare, CallFails, Crash, SharesStoredBy
<1>10. QED
    BY <1>2, <1>3, <1>4, <1>5, <1>6, <1>7, <1>8, <1>9 DEF InitStep

LEMMA ReportInvInit == Init => ReportInv
<1> SUFFICES ASSUME Init PROVE ReportInv
    OBVIOUS
<1>1. StoreInv
    BY StoreInvInit
<1>2. SharesStoredSoFar
    BY DEF Init, SharesStoredSoFar, SharesStoredBy
<1>3. QED
    BY <1>1, <1>2 DEF ReportInv

LEMMA ReportInvNext == ReportInv /\ [Next]_vars => ReportInv'
<1> SUFFICES ASSUME ReportInv, [Next]_vars PROVE ReportInv'
    OBVIOUS
<1>1. StoreInv'
    BY StoreInvNext DEF ReportInv
<1>2. ASSUME NEW p \in Procs,
             InitStep(p) \/ UnsealStep(p) \/ CallFails(p) \/ Crash(p)
      PROVE  SharesStoredSoFar'
    <2>1. SharesStoredBy(p)'
        BY <1>1, <1>2, SharesStoredByStep DEF StoreInv
    <2>2. ASSUME NEW q \in Procs, q # p PROVE SharesStoredBy(q)'
        <3>1. pc'[q] = pc[q] /\ idx'[q] = idx[q] /\ result'[q] = result[q]
            BY <1>2, <2>2, OthersUnchanged DEF ReportInv, StoreInv
        <3>2. SharesStoredBy(q)
            BY DEF ReportInv, SharesStoredSoFar
        <3>3. /\ \A n \in 0..Shares - 1 :
                    kv[unsealKeyForID(n)] = Share(n) =>
                        kv'[unsealKeyForID(n)] = Share(n)
              /\ AllSharesStored => AllSharesStored'
              /\ kv[rootTokenKey] # Missing => kv'[rootTokenKey] # Missing
            BY StoredPersists DEF ReportInv
        <3>4. pc[q] \in {"i_store_get", "i_store_set"} =>
                  idx[q] \in 0..Shares - 1
            BY DEF ReportInv, StoreInv, TypeInv, IdxInRange
        <3>5. QED
            BY <3>1, <3>2, <3>3, <3>4, ConstantFacts DEF SharesStoredBy
    <2>3. QED
        BY <2>1, <2>2 DEF SharesStoredSoFar
<1>3. CASE ServerRestart
    BY <1>1, <1>3 DEF ReportInv, ServerRestart, engineVars, SharesStoredSoFar,
                SharesStoredBy, AllSharesStored
<1>4. CASE UNCHANGED vars
    BY <1>1, <1>4 DEF ReportInv, vars, SharesStoredSoFar, SharesStoredBy,
                AllSharesStored
<1>5. QED
    BY <1>1, <1>2, <1>3, <1>4 DEF Next, ReportInv

\* A successful Init has stored every share, and the root token when
\* StoreRootToken is set (InitReportsStored, checked by the run
\* bootstrap_safety): for any number of processes and shares, the share
\* loop of vault.go:180-189 with its non-atomic keyStoreSet never reports
\* success with a share missing.
THEOREM InitSuccessStoresShares == Spec => []InitReportsStored
<1>1. Init => ReportInv
    BY ReportInvInit
<1>2. ReportInv /\ [Next]_vars => ReportInv'
    BY ReportInvNext
<1>3. ReportInv => InitReportsStored
    BY DEF ReportInv, SharesStoredSoFar, SharesStoredBy, InitReportsStored
<1>4. QED
    BY <1>1, <1>2, <1>3, PTL DEF Spec


\* At most one process is past a successful sys/init, and a process about
\* to Set a key of the key store has seen it absent and nobody has stored
\* it since (keyStoreSet, vault.go:121-130, and the Init steps 171-247),
\* in every reachable state, for every number of processes and shares.
THEOREM StoreInvariant == Spec => []StoreInv
BY StoreInvInit, StoreInvNext, PTL DEF Spec

\* Besides StoreInv, each Init process has stored every share it went past,
\* and one that reported success has stored them all and, when configured,
\* the root token (vault.go:171-247).
THEOREM ReportInvariant == Spec => []ReportInv
BY ReportInvInit, ReportInvNext, PTL DEF Spec

=============================================================================
