--------------------------- MODULE ServiceManager ---------------------------
(***************************************************************************)
(* One service of ServiceManager: its endpoints with their health, Pick,   *)
(* Report and MergeEndpoints, each of which runs under the mutex of the    *)
(* ServiceEntry, and the calls of CallBackend: Pick, borrowing a pooled    *)
(* connection, giving it back, Report, each a step of its own, between     *)
(* which everything may change.                                            *)
(*                                                                         *)
(* Abstracted: an endpoint's ip and port are its address; the load         *)
(* balancer picks any candidate, whatever its strategy (load_balancer.cc); *)
(* instead of the wall-clock ejected_at_ms an endpoint keeps its age, the  *)
(* clock's reading minus ejected_at_ms, which is negative after the clock  *)
(* was set back and is only kept while the endpoint is ejected; of the     *)
(* connection pool (module RpcConnPool) only the number of idle            *)
(* connections of an address is kept.                                      *)
(***************************************************************************)
EXTENDS Integers, Sequences, FiniteSets, FiniteSetsExt

CONSTANTS
  Addrs,
  Lists,            \* instance lists the provider may hand over
  Threads,          \* threads that call CallBackend
  FailThreshold, HalfOpenSuccess, Cooldown,   \* HealthConfig
  MinNum, MinDen,   \* min_healthy_ratio = MinNum / MinDen
  MaxFlips,         \* bound: times an instance breaks down or comes back
  MaxBacks,         \* bound: times the clock is set back
  Flaky,            \* may a call to a working instance fail?
  NoCall

ASSUME ConfigAssumption ==
  /\ {FailThreshold, HalfOpenSuccess, Cooldown, MinNum, MaxFlips, MaxBacks} \subseteq Nat
  /\ MinDen \in Nat \ {0}
  /\ Flaky \in BOOLEAN
ASSUME ListsAssumption == \A l \in Lists : l \in Seq(Addrs)

VARIABLES
  endpoints,  \* ServiceEntry::endpoints
  call,       \* a thread's call: where it is, the Endpoint Pick copied out
  idle,       \* idle connections the pool has for an address
  alive,      \* does the instance answer?
  flips, backs,
  bad, good, waited   \* history: what was reported and how long it took

envVars == <<alive, flips, backs>>
history == <<bad, good, waited>>
vars == <<endpoints, call, idle, envVars, history>>

EndpointState == {"Healthy", "HalfOpen", "Ejected"}
Endpoint == [addr : Addrs, state : EndpointState, fails : 0..FailThreshold,
             half : 0..HalfOpenSuccess, age : Int]
\* How far CallBackend is: picked, connection borrowed, outcome known.
Call == [at : {"Picked", "Sending", "Ok", "Failed"}, addr : Addrs, state : EndpointState]
ASSUME NoCallAssumption == NoCall \notin Call

New(a) == [addr |-> a, state |-> "Healthy", fails |-> 0, half |-> 0, age |-> 0]

\* The entries of an address, and the first of them, which is the only one
\* that Report updates and MergeEndpoints copies.
Entries(a) == {i \in DOMAIN endpoints : endpoints[i].addr = a}
First(a) == Min(Entries(a))
Listed(a) == Entries(a) # {}

UpTo(n, max) == IF n > max THEN max ELSE n

Init ==
  /\ \E l \in Lists : endpoints = [i \in DOMAIN l |-> New(l[i])]
  /\ call = [t \in Threads |-> NoCall]
  /\ idle = [a \in Addrs |-> 0]
  /\ alive = [a \in Addrs |-> TRUE]
  /\ flips = 0 /\ backs = 0
  /\ bad = [a \in Addrs |-> 0]
  /\ good = [a \in Addrs |-> 0]
  /\ waited = [a \in Addrs |-> 0]

-----------------------------------------------------------------------------
\* The world

Flip(a) ==
  /\ flips < MaxFlips
  /\ alive' = [alive EXCEPT ![a] = ~ @]
  /\ flips' = flips + 1
  /\ UNCHANGED <<endpoints, call, idle, backs, history>>

\* Endpoints with their ages moved by d; an age counts up to the cooldown.
Aged(d) ==
  [i \in DOMAIN endpoints |->
     IF endpoints[i].state = "Ejected"
       THEN [endpoints[i] EXCEPT !.age = UpTo(endpoints[i].age + d, Cooldown)]
       ELSE endpoints[i]]

Ejected(a) == Listed(a) /\ endpoints[First(a)].state = "Ejected"

Tick ==
  /\ \E i \in DOMAIN endpoints : endpoints[i].state = "Ejected"
  /\ endpoints' = Aged(1)
  /\ waited' = [a \in Addrs |-> IF Ejected(a) THEN UpTo(waited[a] + 1, Cooldown) ELSE waited[a]]
  /\ UNCHANGED <<call, idle, envVars, bad, good>>

ClockBack ==
  /\ backs < MaxBacks
  /\ backs' = backs + 1
  /\ endpoints' = Aged(-1)
  /\ UNCHANGED <<call, idle, alive, flips, history>>

-----------------------------------------------------------------------------
\* Pick

\* Mutant: the unsigned difference is taken without comparing the times.
Cooled_Unsigned(e) == e.age < 0 \/ e.age >= Cooldown

\* now >= ejected_at_ms and the cooldown is over.
Cooled(e) == e.age >= 0 /\ e.age >= Cooldown

Probe(e) == [addr |-> e.addr, state |-> "HalfOpen", fails |-> e.fails, half |-> 0, age |-> 0]

\* Endpoints after the ejected ones whose cooldown is over became half open.
Probed ==
  [i \in DOMAIN endpoints |->
     IF endpoints[i].state = "Ejected" /\ Cooled(endpoints[i])
       THEN Probe(endpoints[i])
       ELSE endpoints[i]]

\* Mutant: an ejected endpoint is still among the candidates.
Candidates_All == DOMAIN endpoints

\* Positions the load balancer may choose from; all of them when there is no
\* healthy or half-open endpoint.
Candidates ==
  LET up == {i \in DOMAIN Probed : Probed[i].state \in {"Healthy", "HalfOpen"}}
  IN IF up = {} THEN DOMAIN Probed ELSE up

Pick(t, a) ==
  /\ call[t] = NoCall
  /\ \E i \in Candidates :
       /\ endpoints[i].addr = a
       /\ call' = [call EXCEPT ![t] =
            [at |-> "Picked", addr |-> a, state |-> Probed[i].state]]
  /\ endpoints' = Probed
  /\ good' = [b \in Addrs |->
       IF Ejected(b) /\ Cooled(endpoints[First(b)]) THEN 0 ELSE good[b]]
  /\ UNCHANGED <<idle, envVars, bad, waited>>

-----------------------------------------------------------------------------
\* SendAndRecv through the pool

\* RpcConnPool::Acquire: an idle connection, or a new one.
Acquire(t) ==
  /\ call[t] # NoCall /\ call[t].at = "Picked"
  /\ call' = [call EXCEPT ![t].at = "Sending"]
  /\ idle' = [idle EXCEPT ![call[t].addr] = IF @ > 0 THEN @ - 1 ELSE 0]
  /\ UNCHANGED <<endpoints, envVars, history>>

\* The exchange is over and RpcConnPool::Release takes the connection back,
\* or deletes it when it is broken.
Release(t, ok) ==
  /\ call[t] # NoCall /\ call[t].at = "Sending"
  /\ ok = alive[call[t].addr] \/ (Flaky /\ ~ ok)
  /\ call' = [call EXCEPT ![t].at = IF ok THEN "Ok" ELSE "Failed"]
  /\ idle' = [idle EXCEPT ![call[t].addr] = IF ok THEN @ + 1 ELSE @]
  /\ UNCHANGED <<endpoints, envVars, history>>

-----------------------------------------------------------------------------
\* Report

HealthyCount == Cardinality({i \in DOMAIN endpoints : endpoints[i].state = "Healthy"})

\* Mutant: the endpoint that is about to be ejected is counted as healthy.
EvictAllowed_CountsSelf == HealthyCount * MinDen >= MinNum * Len(endpoints)

\* The share of healthy endpoints after one more ejection.
EvictAllowed ==
  (IF HealthyCount > 0 THEN HealthyCount - 1 ELSE 0) * MinDen >= MinNum * Len(endpoints)

Eject(e) == [addr |-> e.addr, state |-> "Ejected", fails |-> 0, half |-> e.half, age |-> 0]

\* Mutant: the successes while half open are not counted.
Succeed_NoCount(e) == [e EXCEPT !.fails = 0]

Succeed(e) ==
  LET back == e.state = "HalfOpen" /\ e.half + 1 >= HalfOpenSuccess
  IN [addr |-> e.addr,
      state |-> IF back THEN "Healthy" ELSE e.state,
      fails |-> 0,
      half |-> IF back THEN 0 ELSE IF e.state = "HalfOpen" THEN e.half + 1 ELSE e.half,
      age |-> e.age]

Fail(e) ==
  LET out == e.fails + 1 >= FailThreshold /\ EvictAllowed
  IN CASE e.state = "HalfOpen" -> [Eject(e) EXCEPT !.half = 0]
       [] e.state = "Healthy" /\ out -> Eject(e)
       [] e.state = "Healthy" /\ ~ out -> [e EXCEPT !.fails = UpTo(e.fails + 1, FailThreshold)]
       [] e.state = "Ejected" -> e

\* The outcome counts for the address the call went to, whatever happened to
\* it since; an address that is no longer listed is ignored.  An ejection
\* drops the idle connections (NotifyConnDrop, RpcConnPool::DropAddr).
Report(t) ==
  /\ call[t] # NoCall /\ call[t].at \in {"Ok", "Failed"}
  /\ LET a == call[t].addr
         ok == call[t].at = "Ok"
     IN IF ~ Listed(a)
          THEN UNCHANGED <<endpoints, idle, history>>
          ELSE LET i == First(a)
                   e == endpoints[i]
                   new == IF ok THEN Succeed(e) ELSE Fail(e)
                   ejected == e.state # "Ejected" /\ new.state = "Ejected"
               IN /\ endpoints' = [endpoints EXCEPT ![i] = new]
                  /\ idle' = [idle EXCEPT ![a] = IF ejected THEN 0 ELSE @]
                  /\ bad' = [bad EXCEPT ![a] = IF ok THEN 0 ELSE UpTo(@ + 1, FailThreshold)]
                  /\ good' = [good EXCEPT ![a] =
                       IF ~ ok THEN 0
                       ELSE IF e.state = "HalfOpen" THEN UpTo(@ + 1, HalfOpenSuccess) ELSE @]
                  /\ waited' = [waited EXCEPT ![a] = IF ejected THEN 0 ELSE @]
  /\ call' = [call EXCEPT ![t] = NoCall]
  /\ UNCHANGED envVars

-----------------------------------------------------------------------------
\* OnEndpointsChangedCb

\* MergeEndpoints: listed addresses keep their health, new ones are healthy,
\* and the idle connections of the ones taken off the list are dropped.
MergeEndpoints(l) ==
  LET kept(a) == \E i \in DOMAIN l : l[i] = a
      fresh(a) == ~ (Listed(a) /\ kept(a))
  IN /\ endpoints' = [i \in DOMAIN l |->
          IF Listed(l[i]) THEN endpoints[First(l[i])] ELSE New(l[i])]
     /\ idle' = [a \in Addrs |-> IF Listed(a) /\ ~ kept(a) THEN 0 ELSE idle[a]]
     /\ bad' = [a \in Addrs |-> IF fresh(a) THEN 0 ELSE bad[a]]
     /\ good' = [a \in Addrs |-> IF fresh(a) THEN 0 ELSE good[a]]
     /\ waited' = [a \in Addrs |-> IF fresh(a) THEN 0 ELSE waited[a]]
     /\ UNCHANGED <<call, envVars>>

-----------------------------------------------------------------------------
Next ==
  \/ Tick \/ ClockBack
  \/ \E a \in Addrs : Flip(a)
  \/ \E t \in Threads :
       \/ \E a \in Addrs : Pick(t, a)
       \/ Acquire(t)
       \/ \E ok \in BOOLEAN : Release(t, ok)
       \/ Report(t)
  \/ \E l \in Lists : MergeEndpoints(l)

Spec == Init /\ [][Next]_vars

\* Calls keep coming and end, the clock goes on, and the load balancer comes
\* back to every candidate (load_balancer.cc; with the hash strategy the keys
\* have to spread).
FairSpec ==
  /\ Spec
  /\ WF_vars(Tick)
  /\ \A t \in Threads : WF_vars(Acquire(t) \/ (\E ok \in BOOLEAN : Release(t, ok)) \/ Report(t))
  /\ \A a \in Addrs : SF_vars(\E t \in Threads : Pick(t, a))

-----------------------------------------------------------------------------
\* Properties

\* Type invariant; consecutive_fails and half_open_success stay within the
\* thresholds, as the cap in Report means them to.
TypeOK ==
  /\ endpoints \in Seq(Endpoint)
  /\ call \in [Threads -> Call \cup {NoCall}]
  /\ idle \in [Addrs -> Nat]
  /\ alive \in [Addrs -> BOOLEAN]
  /\ flips \in 0..MaxFlips /\ backs \in 0..MaxBacks
  /\ bad \in [Addrs -> 0..FailThreshold]
  /\ good \in [Addrs -> 0..HalfOpenSuccess]
  /\ waited \in [Addrs -> 0..Cooldown]

\* The health of an address as Pick and Report see it.
StateOf(a) == IF Listed(a) THEN endpoints[First(a)].state ELSE "Healthy"

Breaker(a) == INSTANCE CircuitBreaker WITH
  state <- StateOf(a), bad <- bad[a], good <- good[a], waited <- waited[a]

\* Every endpoint behaves as a circuit breaker: Pick, Report and
\* MergeEndpoints eject, probe and restore it only on the evidence that was
\* reported and after the time that passed, although the counters are reset in
\* several places and the clock may be set back.
ImplementsBreaker ==
  /\ \A a \in Addrs : Breaker(a)!Init
  /\ [][\A a \in Addrs : [Breaker(a)!Next]_(Breaker(a)!vars)]_vars

\* An ejected address takes no part in the selection unless every endpoint is
\* ejected (service_provider.h:23; Pick).
EjectedNotPicked ==
  [][\A t \in Threads :
       /\ call[t] = NoCall /\ call'[t] # NoCall
       /\ \E i \in Entries(call'[t].addr) : endpoints'[i].state = "Ejected"
       => \A i \in DOMAIN endpoints : endpoints'[i].state = "Ejected"]_vars

\* The share of healthy endpoints is never taken below min_healthy_ratio by
\* ejections (Report, EvictAllowed); for one fixed list.
MinHealthyShare == TypeOK /\ HealthyCount * MinDen >= MinNum * Len(endpoints)

\* The verdict on a half-open endpoint comes from a probe, a call that was
\* picked while it was half open ("a probe failed: back to ejected",
\* service_manager.cc:157).
OnlyProbesDecide ==
  [][\A t \in Threads, a \in Addrs :
       /\ call[t] # NoCall /\ call'[t] = NoCall
       /\ call[t].addr = a
       /\ StateOf(a) = "HalfOpen" /\ StateOf(a)' # "HalfOpen"
       => call[t].state = "HalfOpen"]_vars

\* The connections of an instance that was taken off the list are cleaned up
\* (service_manager.cc:229): none is left once the calls are over.
RemovedHaveNoConns ==
  (\A t \in Threads : call[t] = NoCall) => \A a \in Addrs : Listed(a) \/ idle[a] = 0

\* An instance that works from some time on is back in service in the end.
Recovers ==
  \A a \in Addrs : <>[](alive[a] /\ Listed(a)) => <>[](StateOf(a) = "Healthy")
=============================================================================
