------------------------- MODULE MCVaultConfigure --------------------------
(* Model-checking instance of VaultConfigure: two processes, the config of *)
(* src/vault-config.yml reduced to one entry per kind of behaviour.        *)
EXTENDS VaultConfigure, TLC

CONSTANTS c1, c2

MCProcs == {c1, c2}

\* kubernetes and github auth at their default paths.
MCAuthEntries ==
    << [type |-> "kubernetes", path |-> "kubernetes"],
       [type |-> "github", path |-> "github"] >>

\* The kubernetes method mounted at an overridden path (the "path" key of
\* an auth entry, vault.go:281-283).
MCAuthOverride ==
    << [type |-> "kubernetes", path |-> "k8s"],
       [type |-> "github", path |-> "github"] >>

MCPolicyNames == << "allow_secrets" >>

\* A kv engine already mounted, and a database engine with an immutable
\* connection entry followed by a role.
MCSecretEntries ==
    << [type |-> "kv", path |-> "secret", configs |-> << >>],
       [type |-> "database", path |-> "database",
        configs |-> << "config/mysql", "roles/app" >>] >>

MCImmutable == {"config/mysql"}

\* Auth mounts before the first run: github only.
MCInitialAuths ==
    {[p \in {MCAuthEntries[k].path : k \in DOMAIN MCAuthEntries} \cup AuthTypes
        |-> IF p = "github" THEN "github" ELSE NoMount]}

\* Under the path override: github only, or github and a kubernetes
\* method at the default path, mounted earlier by hand or by an older
\* config.
MCInitialAuthsOverride ==
    {[p \in {"k8s"} \cup AuthTypes |->
        IF p \in S THEN p ELSE NoMount] : S \in {{"github"}, {"github", "kubernetes"}}}

\* Under the path override, in addition: a kubernetes method at the
\* default path, and an ldap method mounted by hand at the path the config
\* declares for github.
MCInitialAuthsSafety ==
    MCInitialAuthsOverride \cup
    {[p \in {"k8s"} \cup AuthTypes |->
        CASE p = "github" -> "ldap" [] p = "kubernetes" -> p [] OTHER -> NoMount]}

ProcSymmetry == Permutations(MCProcs)

=============================================================================
