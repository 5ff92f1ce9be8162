---------------------------- MODULE MCRpcServer ----------------------------
(***************************************************************************)
(* RpcServer for TLC.                                                      *)
(***************************************************************************)
EXTENDS RpcServer, TLC

\* Descriptor numbers, connections and threads of one kind are only compared
\* with each other.
Symmetry == Permutations(Conns) \cup Permutations(Fds)
              \cup Permutations(ConnWorkers) \cup Permutations(RealWorkers)
=============================================================================
