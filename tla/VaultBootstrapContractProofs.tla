-------------------- MODULE VaultBootstrapContractProofs --------------------
(***************************************************************************)
(* Proof that the bootstrap engine (Init and Unseal, vault.go:81-248)      *)
(* implements BootstrapContract, for every number of processes, shares,    *)
(* threshold and failures: ContractInv is inductive, and under it every    *)
(* step of the engine is a step of the contract or leaves the server's     *)
(* status and the key store as they are.                                   *)
(***************************************************************************)
EXTENDS VaultBootstrapProofs, FiniteSetTheorems, TLAPS

-----------------------------------------------------------------------------
(* Who writes the key store.                                               *)

\* Only StoreSet and RootSet change the key store (the two Set calls of
\* keyStoreSet, vault.go:128); every other step leaves it as it is.
LEMMA KvWriters ==
    ASSUME [Next]_vars
    PROVE  \/ UNCHANGED kv
           \/ \E p \in Procs : StoreSet(p)
           \/ \E p \in Procs : RootSet(p)
<1>1. ASSUME NEW p \in Procs,
             InitStep(p) \/ UnsealStep(p) \/ CallFails(p) \/ Crash(p),
             ~StoreSet(p), ~RootSet(p)
      PROVE  UNCHANGED kv
    BY <1>1 DEF InitStep, UnsealStep, InitStatus, TestKeyStore, Precheck,
       ServerInit, StoreGet, WaitUnsealed, CreateOrphan, RevokeTemp,
       RootGet, StartUnseal, UnsealGet, SubmitShare, CallFails, Crash
<1>2. QED
    BY <1>1 DEF Next, vars, ServerRestart

\* The key store only ever holds, besides leftovers, the values the server
\* generated for each key.
LEMMA KvShapeNext ==
    ASSUME TypeInv, KvShape, [Next]_vars
    PROVE  KvShape'
<1> USE ConstantFacts, KeyNameFacts
<1>1. CASE UNCHANGED kv
    BY <1>1 DEF KvShape
<1>2. ASSUME NEW p \in Procs, StoreSet(p) PROVE KvShape'
    <2>1. idx[p] \in 0..Shares - 1
        BY <1>2 DEF StoreSet, TypeInv, IdxInRange
    <2>2. kv' = [kv EXCEPT ![unsealKeyForID(idx[p])] = Share(idx[p])]
        BY <1>2 DEF StoreSet
    <2>3. unsealKeyForID(idx[p]) \in KeyNames /\ Share(idx[p]) \in ShareValues
        BY <2>1 DEF UnsealIDs, ShareValues
    <2>4. \A i \in UnsealIDs :
            kv'[unsealKeyForID(i)] =
                IF i = idx[p] THEN Share(idx[p]) ELSE kv[unsealKeyForID(i)]
        BY <2>2, <2>3 DEF TypeInv, TypeOK
    <2>5. kv'[rootTokenKey] = kv[rootTokenKey]
        BY <2>2, <2>3 DEF TypeInv, TypeOK, KeyNames
    <2>6. QED
        BY <2>3, <2>4, <2>5 DEF KvShape
<1>3. ASSUME NEW p \in Procs, RootSet(p) PROVE KvShape'
    <2>1. kv' = [kv EXCEPT ![rootTokenKey] = TempToken]
        BY <1>3 DEF RootSet
    <2>2. \A i \in UnsealIDs : kv'[unsealKeyForID(i)] = kv[unsealKeyForID(i)]
        BY <2>1 DEF TypeInv, TypeOK, KeyNames
    <2>3. kv'[rootTokenKey] = TempToken
        BY <2>1 DEF TypeInv, TypeOK, KeyNames
    <2>4. QED
        BY <2>2, <2>3 DEF KvShape
<1>4. QED
    BY <1>1, <1>2, <1>3, KvWriters

-----------------------------------------------------------------------------
(* The unseal threshold.                                                   *)

\* The shares the server would combine when Unseal submits held[p] are
\* all in the key store under their names, and they are distinct values,
\* so at least Threshold unseal keys are stored when the Threshold-th part
\* unseals the server (SubmitShare, vault.go:94-109).
LEMMA UnsealNeedsStoredShares ==
    ASSUME ContractInv, NEW p \in Procs, pc[p] = "u_submit",
           Completes(held[p]), Accumulated(held[p]) \subseteq ShareValues
    PROVE  Cardinality(Contract!StoredShares) >= Threshold
<1> DEFINE S == Contract!StoredShares
           T == {Share(i) : i \in S}
           A == Accumulated(held[p])
           f == [i \in S |-> Share(i)]
<1>1. S = {i \in 0..Shares - 1 : kv[unsealKeyForID(i)] = Share(i)}
    BY DEF Contract!StoredShares
<1>2. IsFiniteSet(S)
    <2>0. 0 \in Int /\ Shares - 1 \in Int
        BY ConstantFacts
    <2>1. IsFiniteSet(0..Shares - 1)
        BY <2>0, FS_Interval
    <2>2. QED
        BY <1>1, <2>1, FS_Subset
<1>3. f \in Surjection(S, T)
    BY DEF Surjection
<1>4. IsFiniteSet(T) /\ Cardinality(T) <= Cardinality(S)
    BY <1>2, <1>3, FS_Surjection
<1>5. A \subseteq T
    <2>1. SUFFICES ASSUME NEW v \in A PROVE v \in T
        OBVIOUS
    <2>2. PICK i \in 0..Shares - 1 : v = Share(i)
        BY DEF ShareValues
    <2>3. kv[unsealKeyForID(i)] = Share(i)
        BY <2>2 DEF Accumulated, ContractInv, SharesFromStore
    <2>4. QED
        BY <1>1, <2>2, <2>3
<1>6. IsFiniteSet(A) /\ Cardinality(A) <= Cardinality(T)
    BY <1>4, <1>5, FS_Subset
<1>7. Cardinality(A) >= Threshold
    BY DEF Completes
<1>8. Cardinality(S) \in Nat /\ Cardinality(T) \in Nat
         /\ Cardinality(A) \in Nat
    BY <1>2, <1>4, <1>6, FS_CardinalityType
<1>9. QED
    BY <1>4, <1>6, <1>7, <1>8, ConstantFacts DEF S

-----------------------------------------------------------------------------
(* Where the shares Unseal submits come from.                              *)

\* The server's parts grow only by the share a process submits
\* (SubmitShare, vault.go:95); every other step keeps or clears them.
LEMMA PartsWriters ==
    ASSUME [Next]_vars
    PROVE  \/ parts' \subseteq parts
           \/ \E p \in Procs : pc[p] = "u_submit" /\ parts' = parts \cup {held[p]}
<1>1. ASSUME NEW p \in Procs, SubmitShare(p)
      PROVE  \/ parts' \subseteq parts
             \/ pc[p] = "u_submit" /\ parts' = parts \cup {held[p]}
    BY <1>1 DEF SubmitShare, Accumulated
<1>2. ASSUME NEW p \in Procs,
             InitStep(p) \/ UnsealStep(p) \/ CallFails(p) \/ Crash(p),
             ~SubmitShare(p)
      PROVE  UNCHANGED parts
    BY <1>2 DEF InitStep, UnsealStep, InitStatus, TestKeyStore, Precheck,
       ServerInit, StoreGet, StoreSet, WaitUnsealed, CreateOrphan,
       RevokeTemp, RootGet, RootSet, StartUnseal, UnsealGet, CallFails,
       Crash, serverVars
<1>3. QED
    BY <1>1, <1>2 DEF Next, vars, ServerRestart

\* A step of process p leaves the share every other process holds.
LEMMA HeldOthersUnchanged ==
    ASSUME NEW p \in Procs,
           InitStep(p) \/ UnsealStep(p) \/ CallFails(p) \/ Crash(p),
           NEW q \in Procs, q # p, held \in [Procs -> Values]
    PROVE  held'[q] = held[q]
<1>1. CASE UnsealGet(p) \/ Crash(p)
    BY <1>1 DEF UnsealGet, Crash
<1>2. CASE ~UnsealGet(p) /\ ~Crash(p)
    BY <1>2 DEF InitStep, UnsealStep, InitStatus, TestKeyStore, Precheck,
       ServerInit, StoreGet, StoreSet, WaitUnsealed, CreateOrphan,
       RevokeTemp, RootGet, RootSet, StartUnseal, SubmitShare, CallFails
<1>3. QED
    BY <1>1, <1>2

\* Only UnsealGet brings a process to submit a share, and the share it read
\* is the one stored under that id: the key store holds no other share
\* under an unseal key's name (KvShape).
LEMMA HeldFromStoreStep ==
    ASSUME TypeInv, KvShape, NEW p \in Procs,
           InitStep(p) \/ UnsealStep(p) \/ CallFails(p) \/ Crash(p)
    PROVE  \A i \in 0..Shares - 1 :
              pc'[p] = "u_submit" /\ held'[p] = Share(i) =>
                  kv[unsealKeyForID(i)] = Share(i)
<1> USE DEF TypeInv, TypeOK
<1>1. CASE UnsealGet(p)
    <2> DEFINE k == unsealKeyForID(idx[p])
    <2>1. CASE KvGet(k) = Missing
        BY <1>1, <2>1 DEF UnsealGet, Return
    <2>2. CASE KvGet(k) # Missing
        <3>1. k \in KeyNames /\ KvGet(k) = kv[k]
            BY <2>2 DEF KvGet
        <3>2. idx[p] \in UnsealIDs
            BY <3>1, KeyNameFacts
        <3>3. held'[p] = kv[k]
            BY <1>1, <2>2, <3>1 DEF UnsealGet
        <3>4. kv[k] \in {Missing, StaleValue(k)} \cup ({Share(idx[p])} \cap ShareValues)
            BY <3>2 DEF KvShape
        <3>5. ASSUME NEW i \in 0..Shares - 1, held'[p] = Share(i)
              PROVE  kv[unsealKeyForID(i)] = Share(i)
            <4>1. kv[k] = Share(idx[p])
                BY <3>3, <3>4, <3>5 DEF Missing, StaleValue, Share
            <4>2. Share(i) = Share(idx[p])
                BY <3>3, <3>5, <4>1
            <4>3. i = idx[p]
                BY <4>2 DEF Share
            <4>4. QED
                BY <4>1, <4>3 DEF k
        <3>6. QED
            BY <3>5
    <2>3. QED
        BY <2>1, <2>2
<1>2. ASSUME ~UnsealGet(p) PROVE pc'[p] # "u_submit"
    <2>1. CASE InitStatus(p) \/ TestKeyStore(p) \/ Precheck(p) \/ ServerInit(p)
        BY <1>2, <2>1 DEF InitStatus, TestKeyStore, Precheck, PrecheckNext,
           ServerInit, Return
    <2>2. CASE StoreGet(p) \/ StoreSet(p) \/ WaitUnsealed(p) \/ CreateOrphan(p)
        BY <1>2, <2>2 DEF StoreGet, StoreSet, WaitUnsealed, CreateOrphan,
           Return, StoreRootOrReturn
    <2>3. CASE RevokeTemp(p) \/ RootGet(p) \/ RootSet(p) \/ StartUnseal(p)
        BY <1>2, <2>3 DEF RevokeTemp, RootGet, RootSet, StartUnseal,
           Return, StoreRootOrReturn
    <2>4. CASE SubmitShare(p) \/ CallFails(p) \/ Crash(p)
        BY <1>2, <2>4 DEF SubmitShare, CallFails, Crash, Return
    <2>5. QED
        BY <1>2, <2>1, <2>2, <2>3, <2>4 DEF InitStep, UnsealStep
<1>3. QED
    BY <1>1, <1>2

\* Init reaches the root-token Get and Set only through StoreRootOrReturn,
\* which goes there only when StoreRootToken is set (vault.go:237).
LEMMA RootOnlyIfStoredStep ==
    ASSUME TypeInv, RootOnlyIfStored, NEW p \in Procs,
           InitStep(p) \/ UnsealStep(p) \/ CallFails(p) \/ Crash(p)
    PROVE  pc'[p] \in {"i_root_get", "i_root_set"} => StoreRootToken
<1> USE DEF TypeInv, TypeOK
<1>1. CASE InitStatus(p) \/ TestKeyStore(p) \/ Precheck(p) \/ ServerInit(p)
    BY <1>1 DEF InitStatus, TestKeyStore, Precheck, PrecheckNext,
       ServerInit, Return
<1>2. CASE StoreGet(p) \/ StoreSet(p) \/ WaitUnsealed(p) \/ CreateOrphan(p)
    BY <1>2 DEF StoreGet, StoreSet, WaitUnsealed, CreateOrphan,
       Return, StoreRootOrReturn
<1>3. CASE RevokeTemp(p) \/ RootSet(p) \/ StartUnseal(p)
    BY <1>3 DEF RevokeTemp, RootSet, StartUnseal, Return, StoreRootOrReturn
<1>4. CASE RootGet(p)
    BY <1>4 DEF RootGet, Return, RootOnlyIfStored
<1>5. CASE UnsealGet(p) \/ SubmitShare(p) \/ CallFails(p) \/ Crash(p)
    BY <1>5 DEF UnsealGet, SubmitShare, CallFails, Crash, Return
<1>6. QED
    BY <1>1, <1>2, <1>3, <1>4, <1>5 DEF InitStep, UnsealStep

-----------------------------------------------------------------------------
(* ContractInv is inductive.                                               *)

LEMMA ContractInvInit == Init => ContractInv
<1> SUFFICES ASSUME Init PROVE ContractInv
    OBVIOUS
<1>1. ReportInv
    BY ReportInvInit
<1>2. PICK S \in SUBSET KeyNames :
        kv = [k \in KeyNames |-> IF k \in S THEN StaleValue(k) ELSE Missing]
    BY DEF Init
<1>3. KvShape
    <2>1. \A i \in UnsealIDs : unsealKeyForID(i) \in KeyNames
        BY KeyNameFacts
    <2>2. QED
        BY <1>2, <2>1 DEF KvShape, KeyNames
<1>4. SharesFromStore /\ RootOnlyIfStored
    BY DEF Init, SharesFromStore, RootOnlyIfStored
<1>5. QED
    BY <1>1, <1>3, <1>4 DEF ContractInv

LEMMA ContractInvNext == ContractInv /\ [Next]_vars => ContractInv'
<1> SUFFICES ASSUME ContractInv, [Next]_vars PROVE ContractInv'
    OBVIOUS
<1>0. TypeInv /\ StoreInv /\ KvShape /\ SharesFromStore /\ RootOnlyIfStored
    BY DEF ContractInv, ReportInv, StoreInv
<1>1. ReportInv' /\ TypeInv'
    BY <1>0, ReportInvNext, TypeInvNext DEF ContractInv
<1>2. KvShape'
    BY <1>0, KvShapeNext
\* a share stored under its name stays there
<1>3. \A n \in 0..Shares - 1 :
        kv[unsealKeyForID(n)] = Share(n) => kv'[unsealKeyForID(n)] = Share(n)
    BY <1>0, StoredPersists
<1>4. \A i \in 0..Shares - 1 :
        Share(i) \in parts' => kv[unsealKeyForID(i)] = Share(i)
    <2>1. CASE parts' \subseteq parts
        BY <1>0, <2>1 DEF SharesFromStore
    <2>2. ASSUME NEW p \in Procs, pc[p] = "u_submit",
                 parts' = parts \cup {held[p]}
          PROVE  \A i \in 0..Shares - 1 :
                    Share(i) \in parts' => kv[unsealKeyForID(i)] = Share(i)
        BY <1>0, <2>2 DEF SharesFromStore
    <2>3. QED
        BY <2>1, <2>2, PartsWriters
<1>5. ASSUME NEW q \in Procs, NEW i \in 0..Shares - 1,
             pc'[q] = "u_submit", held'[q] = Share(i)
      PROVE  kv[unsealKeyForID(i)] = Share(i)
    <2>1. ASSUME NEW p \in Procs,
                 InitStep(p) \/ UnsealStep(p) \/ CallFails(p) \/ Crash(p)
          PROVE  kv[unsealKeyForID(i)] = Share(i)
        <3>1. CASE q = p
            BY <1>0, <1>5, <2>1, <3>1, HeldFromStoreStep
        <3>2. CASE q # p
            <4>1. pc'[q] = pc[q] /\ held'[q] = held[q]
                BY <1>0, <2>1, <3>2, OthersUnchanged, HeldOthersUnchanged
                DEF TypeInv, TypeOK
            <4>2. QED
                BY <1>0, <1>5, <4>1 DEF SharesFromStore
        <3>3. QED
            BY <3>1, <3>2
    <2>2. CASE ServerRestart \/ UNCHANGED vars
        BY <1>0, <1>5, <2>2 DEF ServerRestart, engineVars, vars, SharesFromStore
    <2>3. QED
        BY <2>1, <2>2 DEF Next
<1>6. SharesFromStore'
    BY <1>3, <1>4, <1>5 DEF SharesFromStore
<1>7. RootOnlyIfStored'
    <2>1. ASSUME NEW p \in Procs,
                 InitStep(p) \/ UnsealStep(p) \/ CallFails(p) \/ Crash(p)
          PROVE  RootOnlyIfStored'
        <3>1. \A q \in Procs : q # p => pc'[q] = pc[q]
            BY <1>0, <2>1, OthersUnchanged
        <3>2. QED
            BY <1>0, <2>1, <3>1, RootOnlyIfStoredStep DEF RootOnlyIfStored
    <2>2. CASE ServerRestart \/ UNCHANGED vars
        BY <1>0, <2>2 DEF ServerRestart, engineVars, vars, RootOnlyIfStored
    <2>3. QED
        BY <2>1, <2>2 DEF Next
<1>8. QED
    BY <1>1, <1>2, <1>6, <1>7 DEF ContractInv

-----------------------------------------------------------------------------
(* Every engine step is a contract step or a stutter.                      *)

\* The steps that neither initialize the server, nor change its seal, nor
\* write the key store.
LEMMA OthersStutter ==
    ASSUME NEW p \in Procs,
           \/ InitStatus(p) \/ TestKeyStore(p) \/ Precheck(p) \/ StoreGet(p)
           \/ WaitUnsealed(p) \/ CreateOrphan(p) \/ RevokeTemp(p)
           \/ RootGet(p) \/ StartUnseal(p) \/ UnsealGet(p) \/ CallFails(p)
           \/ Crash(p)
    PROVE  UNCHANGED <<initialized, sealed, kv>>
BY DEF InitStatus, TestKeyStore, Precheck, StoreGet, WaitUnsealed,
   CreateOrphan, RevokeTemp, RootGet, StartUnseal, UnsealGet, CallFails,
   Crash, serverVars

\* The Set of the share loop (vault.go:180-189) is StoreShare of its index:
\* the server is initialized, the key was found absent, and every earlier
\* share is stored.
LEMMA StoreSetRefines ==
    ASSUME ContractInv, NEW p \in Procs, StoreSet(p)
    PROVE  Contract!StoreShare(idx[p]) /\ idx[p] \in 0..Shares - 1
<1>0. TypeInv /\ PostInitUnique /\ PendingSetAbsent /\ SharesStoredBy(p)
    BY DEF ContractInv, ReportInv, StoreInv, SharesStoredSoFar
<1>1. idx[p] \in 0..Shares - 1
    BY <1>0, ConstantFacts DEF StoreSet, TypeInv, IdxInRange
<1>2. initialized
    BY <1>0 DEF StoreSet, PostInitUnique, PostInitPCs
<1>3. kv[unsealKeyForID(idx[p])] = Missing
    BY <1>0 DEF StoreSet, PendingSetAbsent
<1>4. \A n \in 0..idx[p] - 1 : n \in Contract!StoredShares
    <2>1. \A n \in 0..idx[p] - 1 : kv[unsealKeyForID(n)] = Share(n)
        BY <1>0 DEF StoreSet, SharesStoredBy
    <2>2. QED
        BY <1>1, <2>1, ConstantFacts DEF Contract!StoredShares
<1>5. QED
    BY <1>1, <1>2, <1>3, <1>4 DEF StoreSet, Contract!StoreShare, serverVars

\* The Set of the root token (vault.go:237-242) is StoreRoot: it is
\* configured, the server is initialized, the key was found absent, and
\* every share is stored.
LEMMA RootSetRefines ==
    ASSUME ContractInv, NEW p \in Procs, RootSet(p)
    PROVE  Contract!StoreRoot
<1>0. PostInitUnique /\ PendingSetAbsent /\ SharesStoredBy(p)
      /\ RootOnlyIfStored
    BY DEF ContractInv, ReportInv, StoreInv, SharesStoredSoFar
<1>1. StoreRootToken /\ initialized
    BY <1>0 DEF RootSet, RootOnlyIfStored, PostInitUnique, PostInitPCs
<1>2. kv[rootTokenKey] = Missing
    BY <1>0 DEF RootSet, PendingSetAbsent
<1>3. Contract!StoredShares = 0..Shares - 1
    BY <1>0 DEF RootSet, SharesStoredBy, AllSharesStored, Contract!StoredShares
<1>4. QED
    BY <1>1, <1>2, <1>3 DEF RootSet, Return, Contract!StoreRoot, serverVars

\* A submitted share that unseals the server is Unseal; any other reply
\* leaves the server's status and the key store alone.
LEMMA SubmitShareRefines ==
    ASSUME ContractInv, NEW p \in Procs, SubmitShare(p)
    PROVE  Contract!Unseal \/ UNCHANGED <<initialized, sealed, kv>>
<1>1. CASE /\ initialized /\ sealed /\ Completes(held[p])
           /\ Accumulated(held[p]) \subseteq ShareValues
           /\ sealed' = FALSE
    <2>0. pc[p] = "u_submit"
        BY DEF SubmitShare
    <2>1. Cardinality(Contract!StoredShares) >= Threshold
        BY <1>1, <2>0, UnsealNeedsStoredShares
    <2>2. Contract!Cardinality(Contract!StoredShares) >= Threshold
        BY <2>1 DEF Contract!Cardinality, Cardinality
    <2>3. QED
        BY <1>1, <2>2 DEF SubmitShare, Contract!Unseal
<1>2. CASE ~(/\ initialized /\ sealed /\ Completes(held[p])
             /\ Accumulated(held[p]) \subseteq ShareValues
             /\ sealed' = FALSE)
    BY <1>2 DEF SubmitShare
<1>3. QED
    BY <1>1, <1>2

LEMMA StepRefines ==
    ContractInv /\ [Next]_vars =>
        [Contract!Next]_<<initialized, sealed, kv>>
<1> SUFFICES ASSUME ContractInv, [Next]_vars
             PROVE  [Contract!Next]_<<initialized, sealed, kv>>
    OBVIOUS
<1>1. ASSUME NEW p \in Procs, ServerInit(p)
      PROVE  [Contract!Next]_<<initialized, sealed, kv>>
    <2>1. CASE ~initialized
        BY <1>1, <2>1 DEF ServerInit, Contract!Initialize, Contract!Next
    <2>2. CASE initialized
        BY <1>1, <2>2 DEF ServerInit
    <2>3. QED
        BY <2>1, <2>2
<1>2. ASSUME NEW p \in Procs, StoreSet(p)
      PROVE  [Contract!Next]_<<initialized, sealed, kv>>
    BY <1>2, StoreSetRefines DEF Contract!Next
<1>3. ASSUME NEW p \in Procs, RootSet(p)
      PROVE  [Contract!Next]_<<initialized, sealed, kv>>
    BY <1>3, RootSetRefines DEF Contract!Next
<1>4. ASSUME NEW p \in Procs, SubmitShare(p)
      PROVE  [Contract!Next]_<<initialized, sealed, kv>>
    BY <1>4, SubmitShareRefines DEF Contract!Next
<1>5. CASE ServerRestart
    <2>1. CASE ~sealed
        BY <1>5, <2>1 DEF ServerRestart, Contract!Seal, Contract!Next
    <2>2. CASE sealed
        BY <1>5, <2>2 DEF ServerRestart
    <2>3. QED
        BY <2>1, <2>2
<1>6. ASSUME NEW p \in Procs,
             \/ InitStatus(p) \/ TestKeyStore(p) \/ Precheck(p) \/ StoreGet(p)
             \/ WaitUnsealed(p) \/ CreateOrphan(p) \/ RevokeTemp(p)
             \/ RootGet(p) \/ StartUnseal(p) \/ UnsealGet(p) \/ CallFails(p)
             \/ Crash(p)
      PROVE  [Contract!Next]_<<initialized, sealed, kv>>
    BY <1>6, OthersStutter
<1>7. CASE UNCHANGED vars
    BY <1>7 DEF vars
<1>8. QED
    BY <1>1, <1>2, <1>3, <1>4, <1>5, <1>6, <1>7
    DEF Next, InitStep, UnsealStep

-----------------------------------------------------------------------------
(* The theorems.                                                           *)

\* ContractInv (checked by the run bootstrap_safety) holds in every
\* reachable state, for every number of processes, shares and failures:
\* beyond ReportInv, the key store holds under each name only a leftover or
\* the value the server generated for it, every share the server holds or
\* an Unseal (vault.go:87-95) is about to submit is in the key store under
\* its name, and Init stores the root token only when configured to.
THEOREM ContractInvariant == Spec => []ContractInv
BY ContractInvInit, ContractInvNext, PTL DEF Spec

\* Init and Unseal (vault.go:81-248), run by any number of engines with
\* crashes, failed calls and server restarts, implement BootstrapContract
\* (ImplementsContract, checked by the run bootstrap_safety): one
\* initialization, each key written once after it with the generated
\* value, the unseal keys in id order and the root token last, and an
\* unseal only while Threshold shares are in the key store.
THEOREM ContractRefinement == Spec => ImplementsContract
<1>1. Init => Contract!Init
    BY DEF Init, Contract!Init, InitialStores
<1>2. ContractInv /\ [Next]_vars => [Contract!Next]_Contract!vars
    BY StepRefines DEF Contract!vars
<1>3. QED
    BY <1>1, <1>2, ContractInvInit, ContractInvNext, PTL
    DEF Spec, ImplementsContract, Contract!Spec

=============================================================================
