-------------------------- MODULE ConfigurePhases ---------------------------
(***************************************************************************)
(* What Configure (src/pkg/vault/vault.go:250-371) promises about the      *)
(* server, whatever the number of engines running it, the failed calls and *)
(* the stale snapshots: the server only gains what the config declares,    *)
(* nothing is ever removed or retyped, and the three phases of the config  *)
(* are applied in order.  A post-configuration write of an auth method     *)
(* comes only once that method is mounted with its type, a policy only     *)
(* once every declared auth method is, and a secret engine and its nested  *)
(* configuration only once every policy is in place too.                   *)
(***************************************************************************)
EXTENDS Naturals, Sequences

CONSTANTS
    AuthEntries,    \* the "auth" list: records [type, path]
    PolicyNames,    \* the "policies" list
    SecretEntries,  \* the "secrets" list: records [type, path, configs]
    InitialAuths,   \* the possible auth mounts before the first run
    InitialMounts,  \* the secret mounts before the first run
    NoMount,        \* the value of a path that has no auth mount
    WritesOf(_)     \* the mounts the writes of an auth entry go to

VARIABLES authMounts, authWrites, policies, mounts, configs

vars == <<authMounts, authWrites, policies, mounts, configs>>

AuthMounted(k) == authMounts[AuthEntries[k].path] = AuthEntries[k].type

AuthPhaseDone == \A k \in DOMAIN AuthEntries : AuthMounted(k)

PolicyPhaseDone == \A k \in DOMAIN PolicyNames : PolicyNames[k] \in policies

Init ==
    /\ authMounts \in InitialAuths
    /\ authWrites = {}
    /\ policies = {}
    /\ mounts = InitialMounts
    /\ configs = {}

\* A declared auth method is mounted at its path, which was free.
MountAuth(k) ==
    /\ authMounts[AuthEntries[k].path] = NoMount
    /\ authMounts' = [authMounts EXCEPT ![AuthEntries[k].path] =
                                           AuthEntries[k].type]
    /\ UNCHANGED <<authWrites, policies, mounts, configs>>

\* The m-th write of entry k, once k is mounted with its type, lands on a
\* mounted path.
WriteAuth(k, m) ==
    LET target == WritesOf(AuthEntries[k])[m] IN
    /\ AuthMounted(k)
    /\ authMounts[target] # NoMount
    /\ authWrites' = authWrites \cup {<<k, target>>}
    /\ UNCHANGED <<authMounts, policies, mounts, configs>>

AddPolicy(k) ==
    /\ AuthPhaseDone
    /\ policies' = policies \cup {PolicyNames[k]}
    /\ UNCHANGED <<authMounts, authWrites, mounts, configs>>

MountSecret(k) ==
    /\ AuthPhaseDone /\ PolicyPhaseDone
    /\ mounts' = mounts \cup {SecretEntries[k].path}
    /\ UNCHANGED <<authMounts, authWrites, policies, configs>>

\* The n-th nested configuration entry of engine k, under its mount.
WriteConfig(k, n) ==
    /\ AuthPhaseDone /\ PolicyPhaseDone
    /\ SecretEntries[k].path \in mounts
    /\ configs' = configs \cup {SecretEntries[k].configs[n]}
    /\ UNCHANGED <<authMounts, authWrites, policies, mounts>>

Next ==
    \/ \E k \in DOMAIN AuthEntries :
          \/ MountAuth(k)
          \/ \E m \in DOMAIN WritesOf(AuthEntries[k]) : WriteAuth(k, m)
    \/ \E k \in DOMAIN PolicyNames : AddPolicy(k)
    \/ \E k \in DOMAIN SecretEntries :
          \/ MountSecret(k)
          \/ \E n \in DOMAIN SecretEntries[k].configs : WriteConfig(k, n)

Spec == Init /\ [][Next]_vars

=============================================================================
