--------------------------- MODULE MCRpcConnPool ---------------------------
(* Small instances of RpcConnPool for TLC. *)
EXTENDS RpcConnPool, TLC

\* One limit that never changes, and a pool that is reconfigured at run time.
OneConfig == {[max |-> 2, idle |-> 2, acquire |-> 1]}
TwoConfigs == {[max |-> 1, idle |-> 1, acquire |-> 1],
               [max |-> 2, idle |-> 0, acquire |-> 1]}
TightConfig == {[max |-> 1, idle |-> 0, acquire |-> 1]}

\* Threads and connections are interchangeable; the properties with this
\* symmetry are invariants.
Symmetry == Permutations(Threads) \cup Permutations(Clients)
=============================================================================
