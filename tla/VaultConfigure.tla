--------------------------- MODULE VaultConfigure ---------------------------
(***************************************************************************)
(* Configure (src/pkg/vault/vault.go:250-371 and its helpers, 385-594):    *)
(* the reconciliation of auth methods, policies and secret engines against *)
(* the declarative config, run by one or more engine processes against one *)
(* Vault server.                                                           *)
(*                                                                         *)
(* An auth entry is [type, path]; its type-specific post-configuration is  *)
(* the list of mounts its writes go to (AuthWrites).  A secret engine      *)
(* entry is [type, path, configs], configs the sequence of its nested      *)
(* configuration entries (path/category/name), abstracted to ids.          *)
(***************************************************************************)
EXTENDS Naturals, Sequences, FiniteSets

CONSTANTS
    Procs,          \* engine processes running Configure
    AuthEntries,    \* the "auth" list of the config, in order
    PolicyNames,    \* the "policies" list of the config, in order
    SecretEntries,  \* the "secrets" list of the config, in order
    Immutable,      \* config ids the server refuses to overwrite once set
    InitialAuths,   \* the possible auth mounts before the first run
    InitialMounts,  \* secret mounts present before the first run
    MaxFailures     \* bound on failed calls and crashes

NoMount == "none"

AuthTypes == {"kubernetes", "github", "aws", "ldap", "userpass"}
AuthPaths == {AuthEntries[i].path : i \in DOMAIN AuthEntries} \cup AuthTypes
SecretPaths == {SecretEntries[i].path : i \in DOMAIN SecretEntries}
ConfigIds == UNION {{SecretEntries[i].configs[j] :
                        j \in DOMAIN SecretEntries[i].configs} :
                      i \in DOMAIN SecretEntries}

ASSUME ConfigAssumption ==
    /\ AuthEntries \in Seq([type : AuthTypes, path : STRING])
    /\ PolicyNames \in Seq(STRING)
    /\ SecretEntries \in Seq([type : STRING, path : STRING,
                              configs : Seq(STRING)])
    /\ Immutable \subseteq ConfigIds
    /\ InitialAuths \subseteq [AuthPaths -> AuthTypes \cup {NoMount}]
    /\ InitialMounts \subseteq SecretPaths
    /\ MaxFailures \in Nat

VARIABLES
    authMounts,   \* server: auth path -> mounted type, or NoMount
    authWrites,   \* server: <<auth entry, mount>> of each applied write
    policies,     \* server: the policies put
    mounts,       \* server: the mounted secret engine paths
    configs,      \* server: the nested configuration entries written
    pc,           \* engine: where each process is in Configure
    i,            \* engine: index of the entry in progress
    j,            \* engine: index inside the entry (writes, configs)
    existingAuths, \* engine: the ListAuth snapshot taken at line 265
    present,      \* engine: ListMounts found the secret path mounted
    clientToken,  \* engine: TRUE iff the root token is set on the client
    enabled,      \* engine: enable/mount calls made by the running call
    startedConverged, \* engine: every declared mount existed at the start
    result,       \* engine: outcome of the last Configure call
    rootStored,   \* key store: the root token is stored (by Init, see
                  \* VaultBootstrap)
    failures

serverVars == <<authMounts, authWrites, policies, mounts, configs>>
engineVars == <<pc, i, j, existingAuths, present, clientToken, enabled,
                startedConverged, result>>
vars == <<serverVars, engineVars, rootStored, failures>>

-----------------------------------------------------------------------------
(* The type-specific post-configuration of an auth entry (vault.go:308-357):*)
(* the mount each of its writes goes to.  kubernetesAuthConfig writes      *)
(* auth/<path>/config; every other write has a fixed path: the roles of    *)
(* configureKubernetesRoles go to auth/kubernetes/role, github, aws and    *)
(* ldap write auth/github/..., auth/aws/..., auth/ldap/... .               *)
AuthWrites(e) ==
    CASE e.type = "kubernetes" -> <<e.path, "kubernetes">>
      [] e.type = "github"     -> <<"github", "github">>
      [] e.type = "aws"        -> <<"aws", "aws">>
      [] e.type = "ldap"       -> <<"ldap", "ldap", "ldap">>
      [] OTHER                 -> <<>>

\* Every declared mount exists with its declared type.
Converged ==
    /\ \A k \in DOMAIN AuthEntries :
          authMounts[AuthEntries[k].path] = AuthEntries[k].type
    /\ \A k \in DOMAIN SecretEntries : SecretEntries[k].path \in mounts

CanFail == failures < MaxFailures
Fail == failures' = failures + 1

PCs == {"idle", "c_list", "a_enable", "a_write", "p_put", "s_list",
        "s_mount", "s_config"}
Results == {"none", "ok", "failed"}

Init ==
    /\ authMounts \in InitialAuths
    /\ authWrites = {}
    /\ policies = {}
    /\ mounts = InitialMounts
    /\ configs = {}
    /\ pc = [p \in Procs |-> "idle"]
    /\ i = [p \in Procs |-> 1]
    /\ j = [p \in Procs |-> 1]
    /\ existingAuths = [p \in Procs |-> authMounts]
    /\ present = [p \in Procs |-> FALSE]
    /\ clientToken = [p \in Procs |-> FALSE]
    /\ enabled = [p \in Procs |-> 0]
    /\ startedConverged = [p \in Procs |-> FALSE]
    /\ result = [p \in Procs |-> "none"]
    /\ rootStored \in BOOLEAN
    /\ failures = 0

-----------------------------------------------------------------------------
\* Return from Configure; the deferred SetToken("") of line 262 clears the
\* client token on every path out.
Return(p, r) ==
    /\ pc' = [pc EXCEPT ![p] = "idle"]
    /\ result' = [result EXCEPT ![p] = r]
    /\ clientToken' = [clientToken EXCEPT ![p] = FALSE]

Goto(p, l) == pc' = [pc EXCEPT ![p] = l]

\* Start the auth entry k, or go on to the policies after the last one.
StartAuth(p, k) ==
    IF k <= Len(AuthEntries)
    THEN Goto(p, "a_enable") /\ i' = [i EXCEPT ![p] = k]
    ELSE Goto(p, "p_put") /\ i' = [i EXCEPT ![p] = 1]

\* Start the secret engine k, or return success after the last one.
StartSecret(p, k) ==
    IF k <= Len(SecretEntries)
    THEN Goto(p, "s_list") /\ i' = [i EXCEPT ![p] = k]
                           /\ UNCHANGED <<result, clientToken>>
    ELSE Return(p, "ok") /\ UNCHANGED i

\* keyStore.Get(rootTokenKey) and SetToken (vault.go:253-258).
GetRootToken(p) ==
    /\ pc[p] = "idle"
    /\ \/ rootStored /\ Goto(p, "c_list")
                     /\ clientToken' = [clientToken EXCEPT ![p] = TRUE]
                     /\ enabled' = [enabled EXCEPT ![p] = 0]
                     /\ startedConverged' = [startedConverged EXCEPT ![p] = Converged]
                     /\ UNCHANGED result
       \/ ~rootStored /\ result' = [result EXCEPT ![p] = "failed"]
                      /\ UNCHANGED <<pc, clientToken, enabled, startedConverged>>
    /\ UNCHANGED <<serverVars, i, j, existingAuths, present, failures, rootStored>>

\* Mutant: the auth listing is kept from an earlier run instead of being
\* taken afresh.
ListAuthCached(p) ==
    /\ pc[p] = "c_list"
    /\ StartAuth(p, 1)
    /\ UNCHANGED <<serverVars, j, existingAuths, present, clientToken, enabled,
                   startedConverged, result, failures, rootStored>>

\* ListAuth, once for the whole auth loop (vault.go:265).
ListAuth(p) ==
    /\ pc[p] = "c_list"
    /\ existingAuths' = [existingAuths EXCEPT ![p] = authMounts]
    /\ StartAuth(p, 1)
    /\ UNCHANGED <<serverVars, j, present, clientToken, enabled,
                   startedConverged, result, failures, rootStored>>

\* Mutant: the error of EnableAuthWithOptions is dropped and the
\* post-configuration goes on against whatever is mounted at the path.
EnableAuthIgnoresError(p) ==
    /\ pc[p] = "a_enable"
    /\ LET e == AuthEntries[i[p]] IN
       \/ /\ existingAuths[p][e.path] = e.type
          /\ UNCHANGED <<authMounts, enabled>>
       \/ /\ existingAuths[p][e.path] # e.type
          /\ enabled' = [enabled EXCEPT ![p] = @ + 1]
          /\ authMounts' = IF authMounts[e.path] = NoMount
                           THEN [authMounts EXCEPT ![e.path] = e.type]
                           ELSE authMounts
    /\ Goto(p, "a_write")
    /\ j' = [j EXCEPT ![p] = 1]
    /\ UNCHANGED <<authWrites, policies, mounts, configs, i, existingAuths,
                   present, startedConverged, failures, rootStored, result,
                   clientToken>>

\* Skip an entry whose path the snapshot shows mounted with its type,
\* otherwise EnableAuthWithOptions, which fails on a path in use
\* (vault.go:284-306).
EnableAuth(p) ==
    /\ pc[p] = "a_enable"
    /\ LET e == AuthEntries[i[p]] IN
       \/ /\ existingAuths[p][e.path] = e.type
          /\ UNCHANGED <<authMounts, enabled>>
          /\ Goto(p, "a_write") /\ UNCHANGED <<result, clientToken>>
       \/ /\ existingAuths[p][e.path] # e.type
          /\ enabled' = [enabled EXCEPT ![p] = @ + 1]
          /\ \/ /\ authMounts[e.path] = NoMount
                /\ authMounts' = [authMounts EXCEPT ![e.path] = e.type]
                /\ Goto(p, "a_write") /\ UNCHANGED <<result, clientToken>>
             \/ /\ authMounts[e.path] # NoMount
                /\ Return(p, "failed") /\ UNCHANGED authMounts
    /\ j' = [j EXCEPT ![p] = 1]
    /\ UNCHANGED <<authWrites, policies, mounts, configs, i, existingAuths,
                   present, startedConverged, failures, rootStored>>

\* One write of the entry's post-configuration; a write to a path with no
\* auth mount fails and Configure returns the error.
AuthWrite(p) ==
    /\ pc[p] = "a_write"
    /\ LET w == AuthWrites(AuthEntries[i[p]]) IN
       \/ /\ j[p] > Len(w)
          /\ StartAuth(p, i[p] + 1) /\ UNCHANGED <<authWrites, j, result, clientToken>>
       \/ /\ j[p] <= Len(w) /\ authMounts[w[j[p]]] # NoMount
          /\ authWrites' = authWrites \cup {<<i[p], w[j[p]]>>}
          /\ j' = [j EXCEPT ![p] = @ + 1]
          /\ UNCHANGED <<pc, i, result, clientToken>>
       \/ /\ j[p] <= Len(w) /\ authMounts[w[j[p]]] = NoMount
          /\ Return(p, "failed") /\ UNCHANGED <<authWrites, i, j>>
    /\ UNCHANGED <<authMounts, policies, mounts, configs, existingAuths,
                   present, enabled, startedConverged, failures, rootStored>>

\* configurePolicies (vault.go:403-419): PutPolicy, one per step.
PutPolicy(p) ==
    /\ pc[p] = "p_put"
    /\ \/ /\ i[p] <= Len(PolicyNames)
          /\ policies' = policies \cup {PolicyNames[i[p]]}
          /\ i' = [i EXCEPT ![p] = @ + 1]
          /\ UNCHANGED <<pc, result, clientToken>>
       \/ /\ i[p] > Len(PolicyNames)
          /\ StartSecret(p, 1) /\ UNCHANGED policies
    /\ UNCHANGED <<authMounts, authWrites, mounts, configs, j, existingAuths,
                   present, enabled, startedConverged, failures, rootStored>>

\* Mutant: the nil check of the mount lookup (vault.go:518) is dropped, so
\* every path is taken for mounted and tuned.
ListMountsAlwaysPresent(p) ==
    /\ pc[p] = "s_list"
    /\ present' = [present EXCEPT ![p] = TRUE]
    /\ Goto(p, "s_mount")
    /\ UNCHANGED <<serverVars, i, j, existingAuths, clientToken, enabled,
                   startedConverged, result, failures, rootStored>>

\* ListMounts, afresh for every engine (vault.go:513-518).
ListMounts(p) ==
    /\ pc[p] = "s_list"
    /\ present' = [present EXCEPT ![p] = SecretEntries[i[p]].path \in mounts]
    /\ Goto(p, "s_mount")
    /\ UNCHANGED <<serverVars, i, j, existingAuths, clientToken, enabled,
                   startedConverged, result, failures, rootStored>>

\* Mount an absent path, which fails on a path in use, or TuneMount a
\* present one (vault.go:518-541).
MountOrTune(p) ==
    /\ pc[p] = "s_mount"
    /\ LET path == SecretEntries[i[p]].path IN
       \/ /\ ~present[p] /\ path \notin mounts
          /\ mounts' = mounts \cup {path}
          /\ enabled' = [enabled EXCEPT ![p] = @ + 1]
          /\ Goto(p, "s_config") /\ UNCHANGED <<result, clientToken>>
       \/ /\ ~present[p] /\ path \in mounts
          /\ enabled' = [enabled EXCEPT ![p] = @ + 1]
          /\ Return(p, "failed") /\ UNCHANGED mounts
       \/ /\ present[p]
          /\ Goto(p, "s_config") /\ UNCHANGED <<mounts, enabled, result, clientToken>>
    /\ j' = [j EXCEPT ![p] = 1]
    /\ UNCHANGED <<authMounts, authWrites, policies, configs, i,
                   existingAuths, present, startedConverged, failures, rootStored>>

\* Mutant: an entry is taken for immutable by its name, so even its first
\* write is skipped.
ConfigWriteSkipByName(p) ==
    /\ pc[p] = "s_config"
    /\ LET cs == SecretEntries[i[p]].configs IN
       \/ /\ j[p] > Len(cs)
          /\ StartSecret(p, i[p] + 1) /\ UNCHANGED <<configs, j>>
       \/ /\ j[p] <= Len(cs) /\ cs[j[p]] \notin Immutable
          /\ configs' = configs \cup {cs[j[p]]}
          /\ j' = [j EXCEPT ![p] = @ + 1]
          /\ UNCHANGED <<pc, i, result, clientToken>>
       \/ /\ j[p] <= Len(cs) /\ cs[j[p]] \in Immutable
          /\ j' = [j EXCEPT ![p] = @ + 1]
          /\ UNCHANGED <<configs, pc, i, result, clientToken>>
    /\ UNCHANGED <<authMounts, authWrites, policies, mounts, existingAuths,
                   present, enabled, startedConverged, failures, rootStored>>

\* Mutant: the overwrite-prohibited error is not recognised and aborts
\* Configure like any other error.
ConfigWriteAbortsOnImmutable(p) ==
    /\ pc[p] = "s_config"
    /\ LET cs == SecretEntries[i[p]].configs IN
       \/ /\ j[p] > Len(cs)
          /\ StartSecret(p, i[p] + 1) /\ UNCHANGED <<configs, j>>
       \/ /\ j[p] <= Len(cs)
          /\ cs[j[p]] \notin Immutable \/ cs[j[p]] \notin configs
          /\ configs' = configs \cup {cs[j[p]]}
          /\ j' = [j EXCEPT ![p] = @ + 1]
          /\ UNCHANGED <<pc, i, result, clientToken>>
       \/ /\ j[p] <= Len(cs)
          /\ cs[j[p]] \in Immutable /\ cs[j[p]] \in configs
          /\ Return(p, "failed") /\ UNCHANGED <<configs, i, j>>
    /\ UNCHANGED <<authMounts, authWrites, policies, mounts, existingAuths,
                   present, enabled, startedConverged, failures, rootStored>>

\* One nested configuration write (vault.go:544-560).  Rewriting an
\* immutable entry fails with "delete them before reconfiguring", which
\* isOverwriteProbihitedError recognises: the entry is skipped.
ConfigWrite(p) ==
    /\ pc[p] = "s_config"
    /\ LET cs == SecretEntries[i[p]].configs IN
       \/ /\ j[p] > Len(cs)
          /\ StartSecret(p, i[p] + 1) /\ UNCHANGED <<configs, j>>
       \/ /\ j[p] <= Len(cs)
          /\ cs[j[p]] \notin Immutable \/ cs[j[p]] \notin configs
          /\ configs' = configs \cup {cs[j[p]]}
          /\ j' = [j EXCEPT ![p] = @ + 1]
          /\ UNCHANGED <<pc, i, result, clientToken>>
       \/ /\ j[p] <= Len(cs)
          /\ cs[j[p]] \in Immutable /\ cs[j[p]] \in configs
          /\ j' = [j EXCEPT ![p] = @ + 1]
          /\ UNCHANGED <<configs, pc, i, result, clientToken>>
    /\ UNCHANGED <<authMounts, authWrites, policies, mounts, existingAuths,
                   present, enabled, startedConverged, failures, rootStored>>

\* Any server call fails (transport or server error): Configure returns
\* the error and its deferred calls clear the token.
CallFails(p) ==
    /\ CanFail
    /\ pc[p] \notin {"idle"}
    /\ Return(p, "failed")
    /\ Fail
    /\ UNCHANGED <<serverVars, i, j, existingAuths, present, enabled,
                   startedConverged, rootStored>>

Next ==
    \E p \in Procs :
        \/ GetRootToken(p) \/ ListAuth(p) \/ EnableAuth(p) \/ AuthWrite(p)
        \/ PutPolicy(p) \/ ListMounts(p) \/ MountOrTune(p) \/ ConfigWrite(p)
        \/ CallFails(p)

Spec == Init /\ [][Next]_vars

\* Each running call goes on, and the caller runs Configure again (on a
\* config change or the next period).
Fairness ==
    \A p \in Procs :
        /\ WF_vars(ListAuth(p) \/ EnableAuth(p) \/ AuthWrite(p) \/ PutPolicy(p)
                   \/ ListMounts(p) \/ MountOrTune(p) \/ ConfigWrite(p))
        /\ WF_vars(GetRootToken(p))

FairSpec == Spec /\ Fairness

-----------------------------------------------------------------------------
(* Properties.                                                             *)

\* Every variable holds a value of its kind: the server state Configure
\* (vault.go:250-371) changes and each engine's position in it.
TypeOK ==
    /\ authMounts \in [AuthPaths -> AuthTypes \cup {NoMount}]
    /\ authWrites \subseteq (DOMAIN AuthEntries) \X AuthPaths
    /\ policies \subseteq {PolicyNames[k] : k \in DOMAIN PolicyNames}
    /\ mounts \subseteq SecretPaths
    /\ configs \subseteq ConfigIds
    /\ pc \in [Procs -> PCs]
    /\ i \in [Procs -> Nat]
    /\ j \in [Procs -> Nat]
    /\ existingAuths \in [Procs -> [AuthPaths -> AuthTypes \cup {NoMount}]]
    /\ present \in [Procs -> BOOLEAN]
    /\ clientToken \in [Procs -> BOOLEAN]
    /\ enabled \in [Procs -> Nat]
    /\ startedConverged \in [Procs -> BOOLEAN]
    /\ result \in [Procs -> Results]
    /\ rootStored \in BOOLEAN
    /\ failures \in 0..MaxFailures

\* The server holds everything the config declares: the mounts with their
\* types, every post-configuration write, the policies, and every nested
\* secret engine configuration entry.
Reconciled ==
    /\ Converged
    /\ \A k \in DOMAIN AuthEntries :
          \A m \in DOMAIN AuthWrites(AuthEntries[k]) :
             <<k, AuthWrites(AuthEntries[k])[m]>> \in authWrites
    /\ \A k \in DOMAIN PolicyNames : PolicyNames[k] \in policies
    /\ ConfigIds \subseteq configs

\* When Configure returns success, the server is reconciled with the
\* config, although the auth snapshot of vault.go:265 may be stale, another
\* process may be configuring too, and immutable entries were skipped
\* (vault.go:552-556).
SuccessMeansReconciled ==
    \A p \in Procs : result[p] = "ok" => Reconciled

\* When the key store holds the root token, running Configure again and
\* again reconciles the server for good, even
\* after runs that failed half-way (spec.md 4.5: idempotent by
\* construction; a skipped immutable entry does not block the rest).
EventuallyReconciled == rootStored => <>[]Reconciled

\* Every post-configuration write of an auth entry goes to the mount of
\* that entry (spec.md 4.5: the type-specific post-configuration of the
\* mounted backend).
AuthWritesHitOwnMount ==
    \A w \in authWrites : w[2] = AuthEntries[w[1]].path


\* Running Configure again against a server that already holds every
\* declared mount makes no enable or mount call: the ListAuth snapshot
\* (vault.go:265, 284-291) and ListMounts (vault.go:513-518) find them all,
\* even when a mount is at an overridden path and another process runs too
\* (spec.md 8: a re-run is idempotent).
IdempotentRerun == \A p \in Procs : startedConverged[p] => enabled[p] = 0

-----------------------------------------------------------------------------
(* Refinement: whatever the interleaving of the engines, the failed calls  *)
(* and the stale snapshots, the server changes only as ConfigurePhases     *)
(* allows: nothing removed or retyped, each phase after the one before.    *)
Phases == INSTANCE ConfigurePhases WITH WritesOf <- AuthWrites

\* Configure, run by every engine, implements ConfigurePhases: a write of an
\* auth method only once it is mounted with its type (the skip of
\* vault.go:287 trusts a snapshot), a policy only after every auth method,
\* a secret engine and its configuration only after every policy.
ImplementsPhases == Phases!Spec


-----------------------------------------------------------------------------
(* The inductive invariant behind SuccessMeansReconciled, IdempotentRerun   *)
(* and ImplementsPhases: where each engine is in Configure tells what the   *)
(* server already holds, since the server only ever gains (a mount is      *)
(* never removed or retyped, a write, policy or config never undone).      *)

AuthMounted(k) == authMounts[AuthEntries[k].path] = AuthEntries[k].type

\* Auth entry k is mounted with its type and all its writes are applied.
AuthOK(k) ==
    /\ AuthMounted(k)
    /\ \A m \in DOMAIN AuthWrites(AuthEntries[k]) :
          <<k, AuthWrites(AuthEntries[k])[m]>> \in authWrites

\* Secret engine k is mounted and all its configuration entries written.
SecretOK(k) ==
    /\ SecretEntries[k].path \in mounts
    /\ \A n \in DOMAIN SecretEntries[k].configs :
          SecretEntries[k].configs[n] \in configs

AuthBefore(n) == \A k \in 1..n - 1 : AuthOK(k)
PoliciesBefore(n) == \A k \in 1..n - 1 : PolicyNames[k] \in policies
SecretsBefore(n) == \A k \in 1..n - 1 : SecretOK(k)
AllAuth == AuthBefore(Len(AuthEntries) + 1)
AllPolicies == PoliciesBefore(Len(PolicyNames) + 1)

\* What the position of engine p in Configure implies about the server.
Progress(p) ==
    LET w == AuthWrites(AuthEntries[i[p]])
        cs == SecretEntries[i[p]].configs
    IN
    /\ pc[p] \in {"a_enable", "a_write"} =>
          i[p] \in 1..Len(AuthEntries) /\ AuthBefore(i[p])
    /\ pc[p] = "a_write" =>
          /\ AuthMounted(i[p])
          /\ j[p] \in 1..Len(w) + 1
          /\ \A m \in 1..j[p] - 1 : <<i[p], w[m]>> \in authWrites
    /\ pc[p] = "p_put" =>
          i[p] \in 1..Len(PolicyNames) + 1 /\ AllAuth /\ PoliciesBefore(i[p])
    /\ pc[p] \in {"s_list", "s_mount", "s_config"} =>
          /\ i[p] \in 1..Len(SecretEntries)
          /\ AllAuth /\ AllPolicies /\ SecretsBefore(i[p])
    /\ pc[p] = "s_mount" /\ present[p] => SecretEntries[i[p]].path \in mounts
    /\ pc[p] = "s_config" =>
          /\ SecretEntries[i[p]].path \in mounts
          /\ j[p] \in 1..Len(cs) + 1
          /\ \A n \in 1..j[p] - 1 : cs[n] \in configs
    /\ result[p] = "ok" => Reconciled

\* A run that started converged has found, so far, everything mounted.
RerunFacts(p) ==
    startedConverged[p] =>
        /\ Converged
        /\ enabled[p] = 0
        /\ pc[p] \in {"a_enable", "a_write"} =>
              \A k \in DOMAIN AuthEntries :
                 existingAuths[p][AuthEntries[k].path] = AuthEntries[k].type
        /\ pc[p] = "s_mount" => present[p]

\* A mount in an auth snapshot is still on the server with that type.
SnapshotCurrent ==
    \A p \in Procs : \A x \in AuthPaths :
        existingAuths[p][x] \in {NoMount, authMounts[x]}

\* The inductive invariant of Configure.
ConfigureInv ==
    /\ TypeOK
    /\ SnapshotCurrent
    /\ \A p \in Procs : Progress(p) /\ RerunFacts(p)

=============================================================================
