---------------------------- MODULE MCServices ----------------------------
(***************************************************************************)
(* Finite instances of the services that serve users' requests over a      *)
(* store: the book service over its database and its cache, and the        *)
(* agent's sessions and memories; of the flow control that a service asks  *)
(* before it serves, and of the load balancer that chooses which instance  *)
(* serves.  Each is checked by itself: the service is drawn in the initial *)
(* state and only its component moves.                                     *)
(***************************************************************************)
EXTENDS BookControl, AgentSessions, MemoryStore, LoadCtrl, LoadBalancer, TLC

CONSTANTS w1, w2, b1, c1, e1, e2, e3

\* The lists a manager of three instances comes to pass, and their weights.
MCLists == {<<>>, <<e1>>, <<e1, e2>>, <<e2, e3>>, <<e1, e2, e3>>}
MCWeights == (e1 :> 0) @@ (e2 :> 3) @@ (e3 :> 1)

VARIABLE service

serviceVars == <<service, bkVars, agVars, mmVars, lcVars, lbVars>>

ServiceInit == /\ service \in {"book", "sessions", "memories", "flow", "balancer"}
               /\ BkInit /\ AgInit /\ MmInit /\ LcInit /\ LbInit
               /\ service # "balancer" => lbStrategy = "kLbHash" /\ lbCandidates = <<>>

ServiceNext == /\ UNCHANGED service
               /\ \/ service = "book" /\ BkNext /\ UNCHANGED <<agVars, mmVars, lcVars, lbVars>>
                  \/ service = "sessions" /\ AgNext /\ UNCHANGED <<bkVars, mmVars, lcVars, lbVars>>
                  \/ service = "memories" /\ MmNext /\ UNCHANGED <<bkVars, agVars, lcVars, lbVars>>
                  \/ service = "flow" /\ LcNext /\ UNCHANGED <<bkVars, agVars, mmVars, lbVars>>
                  \/ service = "balancer" /\ LbNext /\ UNCHANGED <<bkVars, agVars, mmVars, lcVars>>

ServiceSpec == ServiceInit /\ [][ServiceNext]_serviceVars

=============================================================================
