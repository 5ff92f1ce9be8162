------------------------------ MODULE MCCalls ------------------------------
(***************************************************************************)
(* Finite instances of the parts of a call that no other run covers: a     *)
(* client's channel, the older server, the event loop over poll that both  *)
(* servers can run on, and the coroutines a program may use in place of    *)
(* its threads.  Each is checked by itself: the side is drawn in the       *)
(* initial state and only its component moves.                             *)
(***************************************************************************)
EXTENDS RpcChannel, CsServer, EventPoll, Coroutine

CONSTANTS w1, w2

\* An empty request, answered when the next one arrives, and one with a body.
MCBodyLengths == {<<0, 1>>}

VARIABLE side

Sides == {"channel", "server", "poll", "coroutines"}
callVars == <<side, chVars, csVars, epVars, coVars>>

CallInit == /\ side \in Sides
            /\ ChInit /\ CsInit /\ EpInit /\ CoInit
            /\ side # "channel" => ~chPool

CallNext == /\ UNCHANGED side
            /\ \/ side = "channel" /\ ChNext /\ UNCHANGED <<csVars, epVars, coVars>>
               \/ side = "server" /\ CsNext /\ UNCHANGED <<chVars, epVars, coVars>>
               \/ side = "poll" /\ EpNext /\ UNCHANGED <<chVars, csVars, coVars>>
               \/ side = "coroutines" /\ CoNext /\ UNCHANGED <<chVars, csVars, epVars>>

CallSpec == CallInit /\ [][CallNext]_callVars /\ ChFairness /\ CsFairness

=============================================================================
