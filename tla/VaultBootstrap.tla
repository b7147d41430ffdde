--------------------------- MODULE VaultBootstrap ---------------------------
(***************************************************************************)
(* The bootstrap engine of bank-vaults (src/pkg/vault/vault.go): Init and  *)
(* Unseal, run by several engine processes (pods, restarted containers)    *)
(* against one Vault server and one key store.                             *)
(*                                                                         *)
(* The Vault server and the key store (kv.Service) are not in src/; their  *)
(* behaviour is modelled from the interface the engine consumes (spec.md   *)
(* sections 4.4 and 6).  Every engine step is one call to one of them.     *)
(*                                                                         *)
(* Data is abstracted: a share is <<"share", i>>, a leftover value from an *)
(* earlier deployment is <<"stale", key>>, a root token is TempToken (the  *)
(* one the server generates) or FixedToken (the operator's InitRootToken). *)
(***************************************************************************)
EXTENDS Naturals, FiniteSets

CONSTANTS
    Procs,           \* the engine processes sharing the server and key store
    Shares,          \* Config.SecretShares
    Threshold,       \* Config.SecretThreshold
    InitRootToken,   \* TRUE iff Config.InitRootToken # ""
    StoreRootToken,  \* Config.StoreRootToken
    MaxFailures      \* bound on crashes, call failures and server restarts

\* New (vault.go:56-67) refuses a config whose threshold exceeds the shares;
\* the server refuses a threshold below one.
ASSUME ConfigAssumption ==
    /\ Shares \in Nat \ {0}
    /\ Threshold \in 1..Shares
ASSUME FlagsAssumption ==
    /\ InitRootToken \in BOOLEAN
    /\ StoreRootToken \in BOOLEAN
ASSUME BoundAssumption == MaxFailures \in Nat

VARIABLES
    initialized,  \* server: sys/init status
    sealed,       \* server: seal status
    parts,        \* server: the unseal parts accumulated so far
    tokens,       \* server: the live root tokens
    kv,           \* key store: key name -> stored value (Missing if absent)
    pc,           \* engine: where each process is in Init or Unseal
    idx,          \* engine: loop index of the running call
    held,         \* engine: the share read by Unseal, about to be submitted
    clientToken,  \* engine: the token set on the process's api.Client
    result,       \* engine: outcome of the process's last call
    failures      \* number of failures injected so far

serverVars == <<initialized, sealed, parts, tokens>>
engineVars == <<pc, idx, held, clientToken, result>>
vars == <<initialized, sealed, parts, tokens, kv, pc, idx, held,
          clientToken, result, failures>>

-----------------------------------------------------------------------------
(* Values and key names.                                                   *)

Missing == <<"missing", 0>>
Share(i) == <<"share", i>>
TempToken == <<"token", 0>>
FixedToken == <<"token", 1>>
NoToken == <<"notoken", 0>>

\* unsealKeyForID, rootTokenKey: deterministic, distinct key names.
unsealKeyForID(i) == <<"vault-unseal-", i>>
rootTokenKey == <<"vault-root", 0>>

\* The key names Init's pre-check reads: the root key and unseal keys
\* 0..Shares (the loop of vault.go:157 runs up to Shares inclusive).
UnsealIDs == 0..Shares
KeyNames == {rootTokenKey} \cup {unsealKeyForID(i) : i \in UnsealIDs}

\* A value left under key k by an earlier deployment.
StaleValue(k) == <<"stale", k>>

ShareValues == {Share(i) : i \in 0..Shares - 1}
TokenValues == {TempToken, FixedToken}
Values == {Missing} \cup ShareValues \cup TokenValues
            \cup {StaleValue(k) : k \in KeyNames}

\* Key store Get: a key outside KeyNames has never been written.
KvGet(k) == IF k \in KeyNames THEN kv[k] ELSE Missing

\* The i-th key of Init's pre-check list: the root key, then unseal keys.
PrecheckKey(j) == IF j = 0 THEN rootTokenKey ELSE unsealKeyForID(j - 1)

PCs == {"idle", "i_test", "i_check", "i_init", "i_store_get", "i_store_set",
        "i_wait", "i_orphan", "i_revoke", "i_root_get", "i_root_set",
        "u_get", "u_submit"}
InitPCs == PCs \ {"idle", "u_get", "u_submit"}
UnsealPCs == {"u_get", "u_submit"}
\* The steps of Init that follow a successful server Init call.
PostInitPCs == {"i_store_get", "i_store_set", "i_wait", "i_orphan",
                "i_revoke", "i_root_get", "i_root_set"}
Results == {"none", "initialized", "already", "init_failed", "collision",
            "unsealed", "unseal_failed"}

CanFail == failures < MaxFailures
Fail == failures' = failures + 1

-----------------------------------------------------------------------------
Init ==
    /\ initialized = FALSE
    /\ sealed = TRUE
    /\ parts = {}
    /\ tokens = {}
    \* the key store may hold leftovers of an earlier deployment
    /\ \E S \in SUBSET KeyNames :
          kv = [k \in KeyNames |-> IF k \in S THEN StaleValue(k) ELSE Missing]
    /\ pc = [p \in Procs |-> "idle"]
    /\ idx = [p \in Procs |-> 0]
    /\ held = [p \in Procs |-> Missing]
    /\ clientToken = [p \in Procs |-> NoToken]
    /\ result = [p \in Procs |-> "none"]
    /\ failures = 0

-----------------------------------------------------------------------------
(* Init (vault.go:133-248).                                                *)

\* Return from Init with the given outcome.
Return(p, r) ==
    /\ pc' = [pc EXCEPT ![p] = "idle"]
    /\ result' = [result EXCEPT ![p] = r]

\* After the unseal keys (and the fixed root token): store the root token
\* if configured (vault.go:237), otherwise return success.
StoreRootOrReturn(p) ==
    IF StoreRootToken
    THEN pc' = [pc EXCEPT ![p] = "i_root_get"] /\ UNCHANGED result
    ELSE Return(p, "initialized")

\* InitStatus: a no-op returning success if the server is initialized.
InitStatus(p) ==
    /\ pc[p] = "idle"
    /\ \/ initialized /\ result' = [result EXCEPT ![p] = "already"]
                      /\ UNCHANGED pc
       \/ ~initialized /\ pc' = [pc EXCEPT ![p] = "i_test"]
                       /\ UNCHANGED result
    /\ UNCHANGED <<serverVars, kv, idx, held, clientToken, failures>>

\* keyStore.Test(testKey) succeeded; its failure is CallFails.
TestKeyStore(p) ==
    /\ pc[p] = "i_test"
    /\ pc' = [pc EXCEPT ![p] = "i_check"]
    /\ idx' = [idx EXCEPT ![p] = 0]
    /\ UNCHANGED <<serverVars, kv, held, clientToken, result, failures>>

\* One iteration of the pre-check loop over PrecheckKey(0..Shares+1).
\* keyStoreNotFound returns (true, nil) on NotFound and (false, err) on any
\* other error, so a Get that fails falls through both branches of
\* vault.go:164-168 and the loop goes on.
PrecheckNext(p) ==
    IF idx[p] = Shares + 1
    THEN pc' = [pc EXCEPT ![p] = "i_init"] /\ UNCHANGED idx
    ELSE idx' = [idx EXCEPT ![p] = @ + 1] /\ UNCHANGED pc

Precheck(p) ==
    /\ pc[p] = "i_check"
    /\ LET v == kv[PrecheckKey(idx[p])] IN
       \/ v # Missing /\ Return(p, "collision")
                      /\ UNCHANGED <<idx, failures>>
       \/ v = Missing /\ PrecheckNext(p) /\ UNCHANGED <<result, failures>>
       \/ CanFail /\ Fail /\ PrecheckNext(p) /\ UNCHANGED result
    /\ UNCHANGED <<serverVars, kv, held, clientToken>>

\* sys/init: the server generates Shares shares and a temporary root token;
\* it refuses if it is already initialized.
ServerInit(p) ==
    /\ pc[p] = "i_init"
    /\ \/ /\ ~initialized
          /\ initialized' = TRUE
          /\ tokens' = {TempToken}
          /\ pc' = [pc EXCEPT ![p] = "i_store_get"]
          /\ idx' = [idx EXCEPT ![p] = 0]
          /\ UNCHANGED result
       \/ /\ initialized
          /\ Return(p, "init_failed")
          /\ UNCHANGED <<initialized, tokens, idx>>
    /\ UNCHANGED <<sealed, parts, kv, held, clientToken, failures>>

\* Mutation variant of StoreGet: keyStoreSet calls Set without its Get.
StoreGetBlind(p) ==
    /\ pc[p] = "i_store_get"
    /\ pc' = [pc EXCEPT ![p] = "i_store_set"]
    /\ UNCHANGED <<serverVars, kv, idx, held, clientToken, result, failures>>


\* keyStoreSet, first half (vault.go:121-130): Get the key; only NotFound
\* lets the Set go ahead.
StoreGet(p) ==
    /\ pc[p] = "i_store_get"
    /\ \/ kv[unsealKeyForID(idx[p])] = Missing
          /\ pc' = [pc EXCEPT ![p] = "i_store_set"] /\ UNCHANGED result
       \/ kv[unsealKeyForID(idx[p])] # Missing
          /\ Return(p, "init_failed")
    /\ UNCHANGED <<serverVars, kv, idx, held, clientToken, failures>>

\* Mutation variants of StoreSet: the share loop ends one share late (it
\* runs to i <= len(resp.Keys)) or one share early.
StoreSetPastEnd(p) ==
    /\ pc[p] = "i_store_set"
    /\ kv' = [kv EXCEPT ![unsealKeyForID(idx[p])] = Share(idx[p])]
    /\ IF idx[p] = Shares
       THEN /\ UNCHANGED idx
            /\ IF InitRootToken
               THEN pc' = [pc EXCEPT ![p] = "i_wait"] /\ UNCHANGED result
               ELSE StoreRootOrReturn(p)
       ELSE /\ idx' = [idx EXCEPT ![p] = @ + 1]
            /\ pc' = [pc EXCEPT ![p] = "i_store_get"]
            /\ UNCHANGED result
    /\ UNCHANGED <<serverVars, held, clientToken, failures>>

StoreSetStopsEarly(p) ==
    /\ pc[p] = "i_store_set"
    /\ kv' = [kv EXCEPT ![unsealKeyForID(idx[p])] = Share(idx[p])]
    /\ IF idx[p] = Shares - 2
       THEN /\ UNCHANGED idx
            /\ IF InitRootToken
               THEN pc' = [pc EXCEPT ![p] = "i_wait"] /\ UNCHANGED result
               ELSE StoreRootOrReturn(p)
       ELSE /\ idx' = [idx EXCEPT ![p] = @ + 1]
            /\ pc' = [pc EXCEPT ![p] = "i_store_get"]
            /\ UNCHANGED result
    /\ UNCHANGED <<serverVars, held, clientToken, failures>>


\* keyStoreSet, second half: Set the share under its name; after the last
\* share go on to the fixed root token or to storing the root token.
StoreSet(p) ==
    /\ pc[p] = "i_store_set"
    /\ kv' = [kv EXCEPT ![unsealKeyForID(idx[p])] = Share(idx[p])]
    /\ IF idx[p] = Shares - 1
       THEN /\ UNCHANGED idx
            /\ IF InitRootToken
               THEN pc' = [pc EXCEPT ![p] = "i_wait"] /\ UNCHANGED result
               ELSE StoreRootOrReturn(p)
       ELSE /\ idx' = [idx EXCEPT ![p] = @ + 1]
            /\ pc' = [pc EXCEPT ![p] = "i_store_get"]
            /\ UNCHANGED result
    /\ UNCHANGED <<serverVars, held, clientToken, failures>>

\* The wait loop of vault.go:199-212 and the SetToken of line 215.  Sealed()
\* returns (false, err) when the seal status cannot be read, and the loop
\* breaks on !sealed, so an error ends the wait as an unseal does.  A poll
\* that finds the server sealed changes nothing.
WaitUnsealed(p) ==
    /\ pc[p] = "i_wait"
    /\ \/ ~sealed /\ UNCHANGED failures
       \/ CanFail /\ Fail
    /\ pc' = [pc EXCEPT ![p] = "i_orphan"]
    /\ clientToken' = [clientToken EXCEPT ![p] = TempToken]
    /\ UNCHANGED <<serverVars, kv, idx, held, result>>

\* The server serves a token call iff it is unsealed and the client's token
\* is live.
Authorized(p) == ~sealed /\ clientToken[p] \in tokens

\* CreateOrphan with ID InitRootToken and the root policy.
CreateOrphan(p) ==
    /\ pc[p] = "i_orphan"
    /\ \/ /\ Authorized(p) /\ FixedToken \notin tokens
          /\ tokens' = tokens \cup {FixedToken}
          /\ pc' = [pc EXCEPT ![p] = "i_revoke"]
          /\ UNCHANGED result
       \/ /\ ~(Authorized(p) /\ FixedToken \notin tokens)
          /\ Return(p, "init_failed")
          /\ UNCHANGED tokens
    /\ UNCHANGED <<initialized, sealed, parts, kv, idx, held, clientToken,
                   failures>>

\* RevokeSelf revokes the token the client calls with (the temporary one).
RevokeTemp(p) ==
    /\ pc[p] = "i_revoke"
    /\ \/ /\ Authorized(p)
          /\ tokens' = tokens \ {clientToken[p]}
          /\ StoreRootOrReturn(p)
       \/ /\ ~Authorized(p)
          /\ Return(p, "init_failed")
          /\ UNCHANGED tokens
    /\ UNCHANGED <<initialized, sealed, parts, kv, idx, held, clientToken,
                   failures>>

\* keyStoreSet(rootTokenKey, ...), first half.
RootGet(p) ==
    /\ pc[p] = "i_root_get"
    /\ \/ kv[rootTokenKey] = Missing
          /\ pc' = [pc EXCEPT ![p] = "i_root_set"] /\ UNCHANGED result
       \/ kv[rootTokenKey] # Missing /\ Return(p, "init_failed")
    /\ UNCHANGED <<serverVars, kv, idx, held, clientToken, failures>>

\* Mutation variant of RootSet: the root token stored is the one Init ends
\* up with (rootToken, the fixed InitRootToken) instead of resp.RootToken.
RootSetFixedToken(p) ==
    /\ pc[p] = "i_root_set"
    /\ kv' = [kv EXCEPT ![rootTokenKey] =
                 IF InitRootToken THEN FixedToken ELSE TempToken]
    /\ Return(p, "initialized")
    /\ UNCHANGED <<serverVars, idx, held, clientToken, failures>>

\* keyStoreSet(rootTokenKey, resp.RootToken), second half: vault.go:239
\* stores the server-generated token, whatever rootToken became.
RootSet(p) ==
    /\ pc[p] = "i_root_set"
    /\ kv' = [kv EXCEPT ![rootTokenKey] = TempToken]
    /\ Return(p, "initialized")
    /\ UNCHANGED <<serverVars, idx, held, clientToken, failures>>

\* Mutation variant of StartUnseal: the key loop starts at 1.
StartUnsealAtOne(p) ==
    /\ pc[p] = "idle"
    /\ pc' = [pc EXCEPT ![p] = "u_get"]
    /\ idx' = [idx EXCEPT ![p] = 1]
    /\ UNCHANGED <<serverVars, kv, held, clientToken, result, failures>>


-----------------------------------------------------------------------------
(* Unseal (vault.go:81-111).                                               *)

StartUnseal(p) ==
    /\ pc[p] = "idle"
    /\ pc' = [pc EXCEPT ![p] = "u_get"]
    /\ idx' = [idx EXCEPT ![p] = 0]
    /\ UNCHANGED <<serverVars, kv, held, clientToken, result, failures>>

\* keyStore.Get(unsealKeyForID(i)); a miss is fatal.
UnsealGet(p) ==
    /\ pc[p] = "u_get"
    /\ LET v == KvGet(unsealKeyForID(idx[p])) IN
       \/ v = Missing /\ Return(p, "unseal_failed")
                      /\ UNCHANGED held
       \/ v # Missing /\ held' = [held EXCEPT ![p] = v]
                      /\ pc' = [pc EXCEPT ![p] = "u_submit"]
                      /\ UNCHANGED result
    /\ UNCHANGED <<serverVars, kv, idx, clientToken, failures>>

\* The server's sys/unseal with share v.  A share already accumulated is
\* ignored; the Threshold-th distinct part combines the parts, which
\* unseals the server iff they are all shares of its key, and otherwise
\* discards them (the reply is an error or progress 0, both fatal to
\* Unseal).
Accumulated(v) == parts \cup {v}
Completes(v) == v \notin parts /\ Cardinality(Accumulated(v)) >= Threshold

\* Mutation variant of SubmitShare: the loop never increments i, so a
\* sealed reply leads to the same key again.
SubmitShareNoAdvance(p) ==
    /\ pc[p] = "u_submit"
    /\ LET v == held[p] IN
       \/ /\ ~initialized \/ (sealed /\ Completes(v)
                                     /\ ~(Accumulated(v) \subseteq ShareValues))
          /\ parts' = {}
          /\ Return(p, "unseal_failed")
          /\ UNCHANGED <<sealed, idx>>
       \/ /\ initialized /\ ~sealed
          /\ Return(p, "unsealed")
          /\ UNCHANGED <<sealed, parts, idx>>
       \/ /\ initialized /\ sealed /\ Completes(v)
          /\ Accumulated(v) \subseteq ShareValues
          /\ sealed' = FALSE /\ parts' = {}
          /\ Return(p, "unsealed")
          /\ UNCHANGED idx
       \/ /\ initialized /\ sealed /\ ~Completes(v)
          /\ parts' = Accumulated(v)
          /\ pc' = [pc EXCEPT ![p] = "u_get"]
          /\ UNCHANGED <<sealed, result, idx>>
    /\ UNCHANGED <<initialized, tokens, kv, held, clientToken, failures>>


\* Submit the share and act on the response (vault.go:94-109).
SubmitShare(p) ==
    /\ pc[p] = "u_submit"
    /\ LET v == held[p] IN
       \/ /\ ~initialized \/ (sealed /\ Completes(v)
                                     /\ ~(Accumulated(v) \subseteq ShareValues))
          /\ parts' = {}
          /\ Return(p, "unseal_failed")
          /\ UNCHANGED <<sealed, idx>>
       \/ /\ initialized /\ ~sealed
          /\ Return(p, "unsealed")
          /\ UNCHANGED <<sealed, parts, idx>>
       \/ /\ initialized /\ sealed /\ Completes(v)
          /\ Accumulated(v) \subseteq ShareValues
          /\ sealed' = FALSE /\ parts' = {}
          /\ Return(p, "unsealed")
          /\ UNCHANGED idx
       \/ /\ initialized /\ sealed /\ ~Completes(v)
          /\ parts' = Accumulated(v)
          /\ idx' = [idx EXCEPT ![p] = @ + 1]
          /\ pc' = [pc EXCEPT ![p] = "u_get"]
          /\ UNCHANGED <<sealed, result>>
    /\ UNCHANGED <<initialized, tokens, kv, held, clientToken, failures>>

-----------------------------------------------------------------------------
(* Failures.                                                               *)

\* A key-store or server call fails and the running call returns the
\* error.  The pre-check and the wait loop do not return on an error
\* (see Precheck and WaitUnsealed).  A failure after the callee applied the
\* request is this action one step later.
CallFails(p) ==
    /\ CanFail
    /\ pc[p] \notin {"idle", "i_check", "i_wait"}
    /\ Return(p, IF pc[p] \in UnsealPCs THEN "unseal_failed"
                                            ELSE "init_failed")
    /\ Fail
    /\ UNCHANGED <<serverVars, kv, idx, held, clientToken>>

\* The process dies and is restarted: its memory, the client token
\* included, is lost.
Crash(p) ==
    /\ CanFail
    /\ pc[p] # "idle" \/ clientToken[p] # NoToken
    /\ pc' = [pc EXCEPT ![p] = "idle"]
    /\ idx' = [idx EXCEPT ![p] = 0]
    /\ held' = [held EXCEPT ![p] = Missing]
    /\ clientToken' = [clientToken EXCEPT ![p] = NoToken]
    /\ result' = [result EXCEPT ![p] = "none"]
    /\ Fail
    /\ UNCHANGED <<serverVars, kv>>

\* The Vault server restarts: it comes back sealed with no unseal parts.
ServerRestart ==
    /\ CanFail
    /\ ~sealed \/ parts # {}
    /\ sealed' = TRUE
    /\ parts' = {}
    /\ Fail
    /\ UNCHANGED <<initialized, tokens, kv, engineVars>>

-----------------------------------------------------------------------------
InitStep(p) ==
    \/ InitStatus(p) \/ TestKeyStore(p) \/ Precheck(p) \/ ServerInit(p)
    \/ StoreGet(p) \/ StoreSet(p) \/ WaitUnsealed(p) \/ CreateOrphan(p)
    \/ RevokeTemp(p) \/ RootGet(p) \/ RootSet(p)

UnsealStep(p) == StartUnseal(p) \/ UnsealGet(p) \/ SubmitShare(p)

Next ==
    \/ \E p \in Procs : InitStep(p) \/ UnsealStep(p)
    \/ \E p \in Procs : CallFails(p) \/ Crash(p)
    \/ ServerRestart

Spec == Init /\ [][Next]_vars

\* The steps of a call in progress.  Each is a synchronous call that the
\* single-threaded engine makes as soon as the previous one returned.
Running(p) ==
    \/ TestKeyStore(p) \/ Precheck(p) \/ ServerInit(p) \/ StoreGet(p)
    \/ StoreSet(p) \/ WaitUnsealed(p) \/ CreateOrphan(p) \/ RevokeTemp(p)
    \/ RootGet(p) \/ RootSet(p) \/ UnsealGet(p) \/ SubmitShare(p)

\* A step of a running call that does not fail.  Failures are the
\* environment's: nothing in the code makes a call fail, so fairness must
\* not force one (a failed Sealed() poll would end the wait loop).
RunningOK(p) == Running(p) /\ UNCHANGED failures

\* Every running call goes on without failing, and an idle process keeps
\* calling Unseal (the caller loops on Unseal while the server is sealed,
\* spec.md 2).
Fairness == \A p \in Procs : WF_vars(RunningOK(p)) /\ WF_vars(StartUnseal(p))

FairSpec == Spec /\ Fairness

-----------------------------------------------------------------------------
(* Properties.                                                             *)

\* Every variable holds a value of its kind: the server, key store and
\* engine state that Init and Unseal (vault.go:81-248) read and write, and
\* the loop index of a running call stays in the range it indexes.
TypeOK ==
    /\ initialized \in BOOLEAN
    /\ sealed \in BOOLEAN
    /\ parts \subseteq Values
    /\ tokens \subseteq TokenValues
    /\ kv \in [KeyNames -> Values]
    /\ pc \in [Procs -> PCs]
    /\ idx \in [Procs -> 0..Shares + 1]
    /\ held \in [Procs -> Values]
    /\ clientToken \in [Procs -> TokenValues \cup {NoToken}]
    /\ result \in [Procs -> Results]
    /\ failures \in 0..MaxFailures

\* The key store is write-once: keyStoreSet's Get-then-Set (vault.go:121-130)
\* is not atomic, yet no value stored under a key is ever replaced, by any
\* process, whatever the interleaving, crashes and failed calls.
NoOverwrite ==
    [][\A k \in KeyNames : kv[k] # Missing => kv'[k] = kv[k]]_kv

AllSharesStored == \A i \in 0..Shares - 1 : kv[unsealKeyForID(i)] = Share(i)

\* When Init (vault.go:133-248) returns success after initializing the
\* server, every share is in the key store under its name, and so is the
\* root token if StoreRootToken is set.
InitReportsStored ==
    \A p \in Procs :
        result[p] = "initialized" =>
            /\ AllSharesStored
            /\ StoreRootToken => kv[rootTokenKey] # Missing

\* An initialized, sealed server whose shares are all in the key store is
\* eventually unsealed by the processes' Unseal calls (vault.go:81-111).
SealedEventuallyUnsealed ==
    (initialized /\ sealed /\ AllSharesStored) ~> ~sealed

\* Every Init call returns, including one that waits in the loop of
\* vault.go:199-212 for another process to unseal the server.
InitEventuallyReturns ==
    \A p \in Procs : pc[p] \in InitPCs ~> pc[p] = "idle"

-----------------------------------------------------------------------------
(* Inductive invariants, checked by TLC and proved in VaultBootstrapProofs. *)

\* TypeOK strengthened with the range of the loop index in the steps that
\* index a share or an unseal key with it.
IdxInRange ==
    \A p \in Procs :
        /\ pc[p] \in {"i_store_get", "i_store_set"} => idx[p] \in 0..Shares - 1
        /\ pc[p] = "u_submit" => idx[p] \in UnsealIDs

TypeInv == TypeOK /\ IdxInRange

\* Only the process whose sys/init call succeeded is past it, and a Set that
\* keyStoreSet is about to make targets a key its Get found absent.
PostInitUnique ==
    /\ \A p \in Procs : pc[p] \in PostInitPCs => initialized
    /\ \A p, q \in Procs :
          pc[p] \in PostInitPCs /\ pc[q] \in PostInitPCs => p = q

PendingSetAbsent ==
    /\ \A p \in Procs :
          pc[p] = "i_store_set" => kv[unsealKeyForID(idx[p])] = Missing
    /\ \A p \in Procs : pc[p] = "i_root_set" => kv[rootTokenKey] = Missing

StoreInv == TypeInv /\ PostInitUnique /\ PendingSetAbsent

\* The share loop of Init has stored the shares before its index, and every
\* step after the loop, and a success, finds them all stored; a success
\* with StoreRootToken also finds the root token stored.
SharesStoredBy(p) ==
        /\ pc[p] \in {"i_store_get", "i_store_set"} =>
              \A n \in 0..idx[p] - 1 : kv[unsealKeyForID(n)] = Share(n)
        /\ pc[p] \in {"i_wait", "i_orphan", "i_revoke", "i_root_get",
                      "i_root_set"} => AllSharesStored
        /\ result[p] = "initialized" =>
              /\ AllSharesStored
              /\ StoreRootToken => kv[rootTokenKey] # Missing

SharesStoredSoFar == \A p \in Procs : SharesStoredBy(p)

ReportInv == StoreInv /\ SharesStoredSoFar

-----------------------------------------------------------------------------
(* What spec.md says of Init, checked against what the code does.          *)

\* The keys Init must find absent before it initializes the server
\* (spec.md 4.2 step 3): the root token and unseal keys 0..Shares-1.
TargetKeys == {rootTokenKey} \cup {unsealKeyForID(i) : i \in 0..Shares - 1}

\* A root token stored by Init (vault.go:237-242) is one the server accepts,
\* so that Configure can use it (spec.md 4.2 step 7: the effective root
\* credential is persisted).
StoredRootTokenLive ==
    kv[rootTokenKey] \in TokenValues => kv[rootTokenKey] \in tokens

\* The InitRootToken wait loop (vault.go:199-212) ends only once the
\* server is unsealed (spec.md 4.2 step 6: poll until unsealed).
WaitEndsUnsealed ==
    [][\A p \in Procs :
          pc[p] = "i_wait" /\ pc'[p] = "i_orphan" => ~sealed]_vars

\* The server is initialized only while none of the target keys exists in
\* the key store (spec.md 4.2 step 3: the pre-check of vault.go:151-169
\* aborts before any server-side mutation).
InitOnlyOverEmptyStore ==
    [][~initialized /\ initialized' =>
          \A k \in TargetKeys : kv[k] = Missing]_vars

\* Init aborts with a collision only if one of the Shares + 1 target keys
\* exists (spec.md 8).
CollisionOnlyOnTarget ==
    \A p \in Procs :
        result[p] = "collision" => \E k \in TargetKeys : kv[k] # Missing

\* Whenever Init reports success, also as the no-op on an initialized
\* server (vault.go:138-141), the shares are in the key store, so Unseal
\* can succeed (spec.md 1: correct under a crash mid-init).
InitSuccessMeansUnsealable ==
    \A p \in Procs :
        result[p] \in {"initialized", "already"} => AllSharesStored


-----------------------------------------------------------------------------
(* What the engine promises: BootstrapContract.                            *)

\* The key stores Init may start from: leftovers under any of the names.
InitialStores ==
    {[k \in KeyNames |-> IF k \in S THEN StaleValue(k) ELSE Missing] :
        S \in SUBSET KeyNames}

Contract == INSTANCE BootstrapContract
                WITH KeyOf <- unsealKeyForID, ValueOf <- Share,
                     RootKey <- rootTokenKey, RootValue <- TempToken

\* Init and Unseal (vault.go:81-248), run by any number of engines with
\* crashes, failed calls and server restarts, implement BootstrapContract:
\* one initialization, each key written once after it with the generated
\* value, the unseal keys in id order and the root token last, and an
\* unseal only while Threshold shares are in the key store.
ImplementsContract == Contract!Spec

\* A key holds nothing, a leftover, or the value the server generated for
\* it: unseal key i < Shares its share, the root key the temporary token.
KvShape ==
    /\ \A i \in UnsealIDs :
          kv[unsealKeyForID(i)] \in
              {Missing, StaleValue(unsealKeyForID(i))}
                  \cup ({Share(i)} \cap ShareValues)
    /\ kv[rootTokenKey] \in {Missing, StaleValue(rootTokenKey), TempToken}

\* A share the server holds or that Unseal is about to submit
\* (vault.go:87-95) was read from the key store, where it still is.
SharesFromStore ==
    /\ \A i \in 0..Shares - 1 :
          Share(i) \in parts => kv[unsealKeyForID(i)] = Share(i)
    /\ \A p \in Procs, i \in 0..Shares - 1 :
          pc[p] = "u_submit" /\ held[p] = Share(i) =>
              kv[unsealKeyForID(i)] = Share(i)

\* Init goes on to store the root token only if StoreRootToken is set.
RootOnlyIfStored ==
    \A p \in Procs : pc[p] \in {"i_root_get", "i_root_set"} => StoreRootToken

\* The inductive invariant behind ImplementsContract: ReportInv, the shape
\* of the key store, and every share the server holds or is about to
\* receive is in the key store under its name.
ContractInv == ReportInv /\ KvShape /\ SharesFromStore /\ RootOnlyIfStored

======================================================================================================================================================
