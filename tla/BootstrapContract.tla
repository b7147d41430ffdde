------------------------- MODULE BootstrapContract -------------------------
(***************************************************************************)
(* What the bootstrap engine (Init and Unseal, src/pkg/vault/vault.go:81-  *)
(* 248) promises about the server and the key store, whatever the number  *)
(* of engines, their crashes, failed calls and server restarts:           *)
(*   - the server is initialized once;                                    *)
(*   - the key store is written only after that, each key once, with the  *)
(*     value the server generated for it, the unseal keys in the order of *)
(*     their ids and the root token last (only if it is to be stored);    *)
(*   - the server is unsealed only while at least Threshold of its shares *)
(*     are in the key store under their own names.                        *)
(***************************************************************************)
EXTENDS Naturals, FiniteSets

CONSTANTS
    Shares,          \* the number of unseal keys the server generates
    Threshold,       \* the number of them that unseal it
    StoreRootToken,  \* whether the root token is written to the key store
    Missing,         \* the value of a key that is absent from the key store
    KeyOf(_),        \* the key name of unseal key i
    ValueOf(_),      \* unseal key i as the server generated it
    RootKey,         \* the key name of the root token
    RootValue,       \* the root token as the server generated it
    InitialStores    \* the possible key stores before the first run

VARIABLES initialized, sealed, kv

vars == <<initialized, sealed, kv>>

\* The ids of the unseal keys that are in the key store under their names.
StoredShares == {i \in 0..Shares - 1 : kv[KeyOf(i)] = ValueOf(i)}

Init ==
    /\ initialized = FALSE
    /\ sealed = TRUE
    /\ kv \in InitialStores

Initialize ==
    /\ ~initialized
    /\ initialized' = TRUE
    /\ UNCHANGED <<sealed, kv>>

\* Unseal key i is written, once every key before it is.
StoreShare(i) ==
    /\ initialized
    /\ kv[KeyOf(i)] = Missing
    /\ \A n \in 0..i - 1 : n \in StoredShares
    /\ kv' = [kv EXCEPT ![KeyOf(i)] = ValueOf(i)]
    /\ UNCHANGED <<initialized, sealed>>

\* The root token is written, after every unseal key.
StoreRoot ==
    /\ StoreRootToken /\ initialized
    /\ kv[RootKey] = Missing
    /\ StoredShares = 0..Shares - 1
    /\ kv' = [kv EXCEPT ![RootKey] = RootValue]
    /\ UNCHANGED <<initialized, sealed>>

Unseal ==
    /\ initialized /\ sealed
    /\ Cardinality(StoredShares) >= Threshold
    /\ sealed' = FALSE
    /\ UNCHANGED <<initialized, kv>>

\* The server restarts and comes back sealed.
Seal ==
    /\ ~sealed
    /\ sealed' = TRUE
    /\ UNCHANGED <<initialized, kv>>

Next ==
    \/ Initialize
    \/ \E i \in 0..Shares - 1 : StoreShare(i)
    \/ StoreRoot
    \/ Unseal
    \/ Seal

Spec == Init /\ [][Next]_vars

=============================================================================
