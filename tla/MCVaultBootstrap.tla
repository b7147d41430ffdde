-------------------------- MODULE MCVaultBootstrap --------------------------
(* Model-checking instance of VaultBootstrap.                              *)
EXTENDS VaultBootstrap, TLC

CONSTANTS p1, p2

MCProcs == {p1, p2}

ProcSymmetry == Permutations(MCProcs)

=============================================================================
