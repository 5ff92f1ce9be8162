------------------------ MODULE ServiceManagerProofs ------------------------
(***************************************************************************)
(* Proofs about ServiceManager, for every set of addresses, lists (with    *)
(* duplicates too) and threads and for every HealthConfig.                 *)
(***************************************************************************)
EXTENDS ServiceManager, WellFoundedInduction, SequenceTheorems, FiniteSetTheorems, TLAPS

-----------------------------------------------------------------------------
\* The first entry of an address

\* A set of natural numbers that is not empty has a least element.
LEMMA MinProperty ==
  ASSUME NEW S \in SUBSET Nat, S # {}
  PROVE  Min(S) \in S
  <1>1. PICK x \in S : \A y \in S : ~ (<<y, x>> \in OpToRel(<, Nat))
    BY WFMin, NatLessThanWellFounded
  <1>2. ASSUME NEW y \in S
        PROVE  x <= y
    <2>1. x \in Nat /\ y \in Nat
      OBVIOUS
    <2>2. y < x => <<y, x>> \in OpToRel(<, Nat)
      BY <2>1, Zenon DEF OpToRel
    <2>3. ~ (y < x)
      BY <1>1, <2>2, Zenon
    <2>4. QED
      BY <2>1, <2>3
  <1>3. QED
    BY <1>1, <1>2 DEF Min

\* A listed address has a first entry, and it is an entry of that address.
LEMMA FirstIsEntry ==
  ASSUME endpoints \in Seq(Endpoint), NEW a \in Addrs, Listed(a)
  PROVE  First(a) \in DOMAIN endpoints /\ endpoints[First(a)].addr = a
  <1>1. Entries(a) \in SUBSET Nat
    BY DEF Entries
  <1>2. First(a) \in Entries(a)
    BY <1>1, MinProperty DEF First, Listed
  <1>3. QED
    BY <1>2 DEF Entries

\* An action that leaves the addresses of the entries alone leaves the first
\* entry of every address where it is.
LEMMA FirstStays ==
  ASSUME DOMAIN endpoints' = DOMAIN endpoints,
         \A i \in DOMAIN endpoints : endpoints'[i].addr = endpoints[i].addr,
         NEW a \in Addrs
  PROVE  First(a)' = First(a) /\ (Listed(a)' <=> Listed(a))
  <1>1. Entries(a)' = Entries(a)
    BY DEF Entries
  <1>2. QED
    BY <1>1 DEF First, Listed

-----------------------------------------------------------------------------
\* Types

\* The thresholds of HealthConfig and the bounds are natural numbers.
LEMMA ConfigTypes ==
  /\ FailThreshold \in Nat /\ HalfOpenSuccess \in Nat /\ Cooldown \in Nat
  /\ MaxFlips \in Nat /\ MaxBacks \in Nat
  BY ConfigAssumption

\* The helpers on counters and entries return what they should.
LEMMA UpToType ==
  ASSUME NEW n \in Int, NEW max \in Int
  PROVE  UpTo(n, max) \in Int /\ UpTo(n, max) <= max /\ UpTo(n, max) <= n
  BY DEF UpTo

\* What Report and Pick turn an entry into is an entry of the same address.
LEMMA EntryTypes ==
  ASSUME NEW e \in Endpoint
  PROVE  /\ Eject(e) \in Endpoint
         /\ Succeed(e) \in Endpoint /\ Succeed(e).addr = e.addr
         /\ Fail(e) \in Endpoint /\ Fail(e).addr = e.addr
         /\ Probe(e) \in Endpoint /\ Probe(e).addr = e.addr
         /\ \A d \in Int : [e EXCEPT !.age = UpTo(e.age + d, Cooldown)] \in Endpoint
  <1> USE ConfigTypes
  <1>1. Eject(e) \in Endpoint /\ Eject(e).addr = e.addr
    BY DEF Eject, Endpoint, EndpointState
  <1>2. Succeed(e) \in Endpoint /\ Succeed(e).addr = e.addr
    BY DEF Succeed, Endpoint, EndpointState
  <1>3. Fail(e) \in Endpoint /\ Fail(e).addr = e.addr
    <2>1. CASE e.state = "HalfOpen"
      BY <1>1, <2>1 DEF Fail, Endpoint, EndpointState
    <2>2. CASE e.state = "Healthy" /\ e.fails + 1 >= FailThreshold /\ EvictAllowed
      BY <1>1, <2>2 DEF Fail
    <2>3. CASE e.state = "Healthy" /\ ~ (e.fails + 1 >= FailThreshold /\ EvictAllowed)
      <3>1. UpTo(e.fails + 1, FailThreshold) \in 0..FailThreshold
        BY DEF UpTo, Endpoint
      <3>2. Fail(e) = [e EXCEPT !.fails = UpTo(e.fails + 1, FailThreshold)]
        BY <2>3 DEF Fail
      <3>3. QED
        BY <3>1, <3>2 DEF Endpoint
    <2>4. CASE e.state = "Ejected"
      BY <2>4 DEF Fail
    <2>5. QED
      BY <2>1, <2>2, <2>3, <2>4 DEF Endpoint, EndpointState
  <1>4. ASSUME NEW d \in Int
        PROVE  [e EXCEPT !.age = UpTo(e.age + d, Cooldown)] \in Endpoint
    BY DEF UpTo, Endpoint
  <1>5. Probe(e) \in Endpoint /\ Probe(e).addr = e.addr
    BY DEF Probe, Endpoint, EndpointState
  <1>6. QED
    BY <1>1, <1>2, <1>3, <1>4, <1>5

\* A counter that stops at its limit stays between 0 and the limit.
LEMMA CounterType ==
  ASSUME NEW max \in Nat, NEW n \in 0..max
  PROVE  UpTo(n + 1, max) \in 0..max
  BY DEF UpTo

\* A function on the positions of a sequence is a sequence.
LEMMA SameLength ==
  ASSUME NEW S, NEW T, NEW s \in Seq(S), NEW f \in [DOMAIN s -> T]
  PROVE  f \in Seq(T)
  <1>1. Len(s) \in Nat /\ DOMAIN s = 1..Len(s)
    BY LenProperties
  <1>2. QED
    BY <1>1, SeqDef

\* An update with a value of the right kind.
LEMMA UpdateType ==
  ASSUME NEW S, NEW T, NEW f \in [S -> T], NEW x, NEW v \in T
  PROVE  [f EXCEPT ![x] = v] \in [S -> T]
  OBVIOUS

\* Initially.
LEMMA TypeInit == Init => TypeOK
  <1> SUFFICES ASSUME Init PROVE TypeOK
    OBVIOUS
  <1>1. endpoints \in Seq(Endpoint)
    <2>1. PICK l \in Lists : endpoints = [i \in DOMAIN l |-> New(l[i])]
      BY DEF Init
    <2>2. l \in Seq(Addrs)
      BY ListsAssumption
    <2>3. ASSUME NEW i \in DOMAIN l
          PROVE  New(l[i]) \in Endpoint
      <3>1. l[i] \in Addrs
        BY <2>2
      <3>2. QED
        BY <3>1, ConfigTypes DEF New, Endpoint, EndpointState
    <2>4. endpoints \in [DOMAIN l -> Endpoint]
      BY <2>1, <2>3
    <2>5. QED
      BY <2>2, <2>4, SameLength
  <1>2. QED
    BY <1>1, ConfigTypes DEF Init, TypeOK

\* What the actions do to the entries: their types and addresses stay.
SameAddrs ==
  /\ endpoints' \in Seq(Endpoint)
  /\ DOMAIN endpoints' = DOMAIN endpoints
  /\ \A i \in DOMAIN endpoints : endpoints'[i].addr = endpoints[i].addr

\* The clock moves ages only.
LEMMA AgedAddrs ==
  ASSUME TypeOK, NEW d \in Int, endpoints' = Aged(d)
  PROVE  SameAddrs
  <1>1. endpoints \in Seq(Endpoint)
    BY DEF TypeOK
  <1>2. ASSUME NEW i \in DOMAIN endpoints
        PROVE  endpoints'[i] \in Endpoint /\ endpoints'[i].addr = endpoints[i].addr
    <2>1. endpoints[i] \in Endpoint
      BY <1>1
    <2>2. CASE endpoints[i].state = "Ejected"
      <3>1. endpoints'[i] = [endpoints[i] EXCEPT !.age = UpTo(endpoints[i].age + d, Cooldown)]
        BY <2>2 DEF Aged
      <3>2. QED
        BY <2>1, <3>1, EntryTypes DEF Endpoint
    <2>3. CASE endpoints[i].state # "Ejected"
      BY <2>1, <2>3 DEF Aged
    <2>4. QED
      BY <2>2, <2>3
  <1>3. endpoints' \in [DOMAIN endpoints -> Endpoint]
    BY <1>2 DEF Aged
  <1>4. QED
    BY <1>1, <1>2, <1>3, SameLength DEF SameAddrs

\* Pick changes health only.
LEMMA ProbedAddrs ==
  ASSUME TypeOK, endpoints' = Probed
  PROVE  SameAddrs
  <1>1. endpoints \in Seq(Endpoint)
    BY DEF TypeOK
  <1>2. ASSUME NEW i \in DOMAIN endpoints
        PROVE  endpoints'[i] \in Endpoint /\ endpoints'[i].addr = endpoints[i].addr
    <2>1. endpoints[i] \in Endpoint
      BY <1>1
    <2>2. endpoints'[i] = Probe(endpoints[i]) \/ endpoints'[i] = endpoints[i]
      BY DEF Probed
    <2>3. QED
      BY <2>1, <2>2, EntryTypes
  <1>3. endpoints' \in [DOMAIN endpoints -> Endpoint]
    BY <1>2 DEF Probed
  <1>4. QED
    BY <1>1, <1>2, <1>3, SameLength DEF SameAddrs

\* The report of a call to a listed address, by its effect.
Outcome(t) == IF call[t].at = "Ok" THEN Succeed(endpoints[First(call[t].addr)])
                                   ELSE Fail(endpoints[First(call[t].addr)])

\* Report replaces the first entry of the call's address by its outcome.
LEMMA ReportAddrs ==
  ASSUME TypeOK, NEW t \in Threads, Report(t), Listed(call[t].addr)
  PROVE  /\ call[t] \in Call
         /\ SameAddrs
         /\ endpoints' = [endpoints EXCEPT ![First(call[t].addr)] = Outcome(t)]
         /\ Outcome(t) \in Endpoint
  <1>1. call[t] \in Call /\ call[t].addr \in Addrs
    BY DEF TypeOK, Report, Call
  <1>2. endpoints \in Seq(Endpoint)
    BY DEF TypeOK
  <1> DEFINE i == First(call[t].addr)
  <1>3. i \in DOMAIN endpoints /\ endpoints[i] \in Endpoint
    BY <1>1, <1>2, FirstIsEntry
  <1>4. Outcome(t) \in Endpoint /\ Outcome(t).addr = endpoints[i].addr
    BY <1>3, EntryTypes DEF Outcome
  <1>5. endpoints' = [endpoints EXCEPT ![i] = Outcome(t)]
    BY DEF Report, Outcome
  <1>6. endpoints' \in [DOMAIN endpoints -> Endpoint]
    <2>1. endpoints \in [DOMAIN endpoints -> Endpoint]
      BY <1>2, LenProperties, SeqDef
    <2>2. QED
      BY <1>4, <1>5, <2>1
  <1>7. endpoints' \in Seq(Endpoint)
    BY <1>2, <1>6, SameLength
  <1>8. \A j \in DOMAIN endpoints : endpoints'[j].addr = endpoints[j].addr
    BY <1>3, <1>4, <1>5
  <1>9. QED
    BY <1>1, <1>4, <1>5, <1>6, <1>7, <1>8 DEF SameAddrs

\* Every action keeps the types.
LEMMA TypeStep == TypeOK /\ [Next]_vars => TypeOK'
  <1> SUFFICES ASSUME TypeOK, [Next]_vars PROVE TypeOK'
    OBVIOUS
  <1> USE ConfigTypes
  <1>1. ASSUME NEW a \in Addrs, Flip(a) PROVE TypeOK'
    BY <1>1 DEF Flip, TypeOK, history
  <1>2. CASE Tick
    <2>1. endpoints' \in Seq(Endpoint)
      BY <1>2, AgedAddrs DEF Tick, SameAddrs
    <2>2. waited' \in [Addrs -> 0..Cooldown]
      <3>1. \A a \in Addrs : waited[a] \in 0..Cooldown
        BY DEF TypeOK
      <3>2. \A a \in Addrs : UpTo(waited[a] + 1, Cooldown) \in 0..Cooldown
        BY <3>1, CounterType
      <3>3. QED
        BY <1>2, <3>1, <3>2 DEF Tick
    <2>3. QED
      BY <1>2, <2>1, <2>2 DEF Tick, TypeOK, envVars
  <1>3. CASE ClockBack
    <2>1. endpoints' \in Seq(Endpoint)
      BY <1>3, AgedAddrs DEF ClockBack, SameAddrs
    <2>2. QED
      BY <1>3, <2>1 DEF ClockBack, TypeOK, history
  <1>4. ASSUME NEW t \in Threads, NEW a \in Addrs, Pick(t, a) PROVE TypeOK'
    <2>1. SameAddrs
      BY <1>4, ProbedAddrs DEF Pick
    <2>2. endpoints' \in Seq(Endpoint)
      BY <2>1 DEF SameAddrs
    <2>3. call' \in [Threads -> Call \cup {NoCall}]
      <3>1. PICK i \in Candidates :
              call' = [call EXCEPT ![t] = [at |-> "Picked", addr |-> a, state |-> Probed[i].state]]
        BY <1>4 DEF Pick
      <3>2. DOMAIN Probed = DOMAIN endpoints
        BY DEF Probed
      <3>3. i \in DOMAIN endpoints
        BY <3>1, <3>2 DEF Candidates
      <3>4. Probed[i] \in Endpoint
        BY <1>4, <2>2, <3>2, <3>3 DEF Pick
      <3>5. [at |-> "Picked", addr |-> a, state |-> Probed[i].state] \in Call
        BY <3>4 DEF Call, Endpoint
      <3>6. QED
        BY <3>1, <3>5 DEF TypeOK
    <2>4. good' \in [Addrs -> 0..HalfOpenSuccess]
      BY <1>4 DEF Pick, TypeOK
    <2>5. QED
      BY <1>4, <2>2, <2>3, <2>4 DEF Pick, TypeOK, envVars
  <1>5. ASSUME NEW t \in Threads, Acquire(t) PROVE TypeOK'
    <2>1. call[t] \in Call /\ call[t].addr \in Addrs
      BY <1>5 DEF TypeOK, Acquire, Call
    <2>2. [call[t] EXCEPT !.at = "Sending"] \in Call
      BY <2>1 DEF Call
    <2>3. call' \in [Threads -> Call \cup {NoCall}]
      BY <1>5, <2>2 DEF TypeOK, Acquire
    <2>4. idle' \in [Addrs -> Nat]
      BY <1>5, <2>1, SMTT(30) DEF TypeOK, Acquire
    <2>5. QED
      BY <1>5, <2>3, <2>4 DEF Acquire, TypeOK, envVars, history
  <1>6. ASSUME NEW t \in Threads, NEW ok \in BOOLEAN, Release(t, ok) PROVE TypeOK'
    <2>1. call[t] \in Call /\ call[t].addr \in Addrs
      BY <1>6 DEF TypeOK, Release, Call
    <2>2. [call[t] EXCEPT !.at = IF ok THEN "Ok" ELSE "Failed"] \in Call
      BY <2>1 DEF Call
    <2>3. call' \in [Threads -> Call \cup {NoCall}]
      BY <1>6, <2>2 DEF TypeOK, Release
    <2>4. idle' \in [Addrs -> Nat]
      <3>1. idle \in [Addrs -> Nat] /\ idle[call[t].addr] \in Nat
        BY <2>1 DEF TypeOK
      <3>2. CASE ok
        <4>1. idle' = [idle EXCEPT ![call[t].addr] = idle[call[t].addr] + 1]
          BY <1>6, <3>2 DEF Release
        <4>2. idle[call[t].addr] + 1 \in Nat
          BY <3>1
        <4>3. QED
          BY <3>1, <4>1, <4>2, UpdateType
      <3>3. CASE ~ ok
        <4>1. idle' = [idle EXCEPT ![call[t].addr] = idle[call[t].addr]]
          BY <1>6, <3>3 DEF Release
        <4>2. QED
          BY <3>1, <4>1
      <3>4. QED
        BY <3>2, <3>3
    <2>5. QED
      BY <1>6, <2>3, <2>4 DEF Release, TypeOK, envVars, history
  <1>7. ASSUME NEW t \in Threads, Report(t) PROVE TypeOK'
    <2>1. call' \in [Threads -> Call \cup {NoCall}]
      BY <1>7 DEF TypeOK, Report
    <2>2. CASE ~ Listed(call[t].addr)
      BY <1>7, <2>1, <2>2 DEF Report, TypeOK, envVars, history
    <2>3. CASE Listed(call[t].addr)
      <3>1. endpoints' \in Seq(Endpoint)
        BY <1>7, <2>3, ReportAddrs DEF SameAddrs
      <3>2. call[t].addr \in Addrs
        BY <1>7 DEF TypeOK, Report, Call
      <3> DEFINE a == call[t].addr
                 old == endpoints[First(a)]
                 ejected == old.state # "Ejected" /\ Outcome(t).state = "Ejected"
      <3>3. bad' \in [Addrs -> 0..FailThreshold]
        <4>1. bad' = [bad EXCEPT ![a] = IF call[t].at = "Ok" THEN 0 ELSE UpTo(bad[a] + 1, FailThreshold)]
          BY <1>7, <2>3 DEF Report
        <4>2. UpTo(bad[a] + 1, FailThreshold) \in 0..FailThreshold
          BY <3>2, CounterType DEF TypeOK
        <4>3. QED
          BY <3>2, <4>1, <4>2 DEF TypeOK
      <3>4. good' \in [Addrs -> 0..HalfOpenSuccess]
        <4>1. good' = [good EXCEPT ![a] =
                IF call[t].at # "Ok" THEN 0
                ELSE IF old.state = "HalfOpen" THEN UpTo(good[a] + 1, HalfOpenSuccess) ELSE good[a]]
          BY <1>7, <2>3 DEF Report
        <4>2. UpTo(good[a] + 1, HalfOpenSuccess) \in 0..HalfOpenSuccess
          BY <3>2, CounterType DEF TypeOK
        <4>3. QED
          BY <3>2, <4>1, <4>2 DEF TypeOK
      <3>5. waited' \in [Addrs -> 0..Cooldown] /\ idle' \in [Addrs -> Nat]
        <4>1. /\ waited' = [waited EXCEPT ![a] = IF ejected THEN 0 ELSE waited[a]]
              /\ idle' = [idle EXCEPT ![a] = IF ejected THEN 0 ELSE idle[a]]
          BY <1>7, <2>3 DEF Report, Outcome
        <4>2. QED
          BY <3>2, <4>1 DEF TypeOK
      <3>6. QED
        BY <1>7, <2>1, <3>1, <3>3, <3>4, <3>5 DEF Report, TypeOK, envVars
    <2>4. QED
      BY <2>2, <2>3
  <1>8. ASSUME NEW l \in Lists, MergeEndpoints(l) PROVE TypeOK'
    <2>1. l \in Seq(Addrs)
      BY ListsAssumption
    <2>2. ASSUME NEW i \in DOMAIN l
          PROVE  endpoints'[i] \in Endpoint
      <3>1. l[i] \in Addrs
        BY <2>1
      <3>2. CASE Listed(l[i])
        <4>1. endpoints'[i] = endpoints[First(l[i])]
          BY <1>8, <3>2 DEF MergeEndpoints
        <4>2. QED
          BY <3>1, <3>2, <4>1, FirstIsEntry DEF TypeOK
      <3>3. CASE ~ Listed(l[i])
        <4>1. endpoints'[i] = New(l[i])
          BY <1>8, <3>3 DEF MergeEndpoints
        <4>2. QED
          BY <3>1, <4>1 DEF New, Endpoint, EndpointState
      <3>4. QED
        BY <3>2, <3>3
    <2>3. endpoints' \in [DOMAIN l -> Endpoint]
      BY <1>8, <2>2 DEF MergeEndpoints
    <2>4. endpoints' \in Seq(Endpoint)
      BY <2>1, <2>3, SameLength
    <2>5. /\ bad' \in [Addrs -> 0..FailThreshold]
          /\ good' \in [Addrs -> 0..HalfOpenSuccess]
          /\ waited' \in [Addrs -> 0..Cooldown]
          /\ idle' \in [Addrs -> Nat]
      BY <1>8 DEF MergeEndpoints, TypeOK
    <2>6. QED
      BY <1>8, <2>4, <2>5 DEF MergeEndpoints, TypeOK, envVars
  <1>9. CASE UNCHANGED vars
    BY <1>9 DEF vars, TypeOK, envVars, history
  <1>10. QED
    BY <1>1, <1>2, <1>3, <1>4, <1>5, <1>6, <1>7, <1>8, <1>9 DEF Next

\* The type invariant of the service's endpoints and calls, with the counters
\* of Report within their thresholds.
THEOREM TypeCorrect == Spec => []TypeOK
  BY TypeInit, TypeStep, PTL DEF Spec

-----------------------------------------------------------------------------
\* Refinement of CircuitBreaker

Entry(a) == endpoints[First(a)]

\* Why the code's counters are evidence enough: consecutive_fails never
\* exceeds the failures really reported in a row, half_open_success is the
\* number of successes since the probe, and the age of an ejection never
\* exceeds the time that really passed.
EvidenceAt(a) ==
  Listed(a) =>
    /\ Entry(a).fails <= bad[a]
    /\ Entry(a).state = "HalfOpen" => Entry(a).half = good[a]
    /\ Entry(a).state = "Ejected" => Entry(a).age <= waited[a]

Evidence == \A a \in Addrs : EvidenceAt(a)

\* A step of the abstract breaker of an address, or a stutter.
BreakerStep(a) == [Breaker(a)!Next]_(Breaker(a)!vars)

\* The history of one address.
LEMMA HistoryTypes ==
  ASSUME TypeOK, NEW a \in Addrs
  PROVE  /\ bad[a] \in 0..FailThreshold
         /\ good[a] \in 0..HalfOpenSuccess
         /\ waited[a] \in 0..Cooldown
  BY DEF TypeOK

\* What an address looks like before and after an action that keeps the
\* entries' addresses.
LEMMA EntryStays ==
  ASSUME TypeOK, SameAddrs, NEW a \in Addrs, Listed(a)
  PROVE  /\ Entry(a) \in Endpoint /\ Entry(a)' \in Endpoint
         /\ First(a) \in DOMAIN endpoints /\ Entry(a).addr = a
         /\ Entry(a)' = endpoints'[First(a)]
         /\ Listed(a)'
         /\ StateOf(a) = Entry(a).state
         /\ StateOf(a)' = Entry(a)'.state
  <1>1. First(a) \in DOMAIN endpoints /\ endpoints[First(a)].addr = a
    BY FirstIsEntry DEF TypeOK
  <1>2. First(a)' = First(a) /\ Listed(a)'
    BY FirstStays DEF SameAddrs
  <1>3. Entry(a)' = endpoints'[First(a)]
    BY <1>2 DEF Entry
  <1>4. endpoints[First(a)] \in Endpoint /\ endpoints'[First(a)] \in Endpoint
    BY <1>1 DEF TypeOK, SameAddrs
  <1>5. QED
    BY <1>1, <1>2, <1>3, <1>4 DEF Entry, StateOf

\* An address that is not listed counts as healthy, before and after.
LEMMA UnlistedStays ==
  ASSUME SameAddrs, NEW a \in Addrs, ~ Listed(a)
  PROVE  ~ Listed(a)' /\ StateOf(a) = "Healthy" /\ StateOf(a)' = "Healthy"
  BY FirstStays DEF SameAddrs, StateOf

\* An address of which an action changes nothing.
LEMMA QuietStep ==
  ASSUME NEW a \in Addrs, EvidenceAt(a),
         Listed(a)' <=> Listed(a),
         Listed(a) => Entry(a)' = Entry(a),
         bad'[a] = bad[a], good'[a] = good[a], waited'[a] = waited[a]
  PROVE  EvidenceAt(a)' /\ BreakerStep(a)
  <1>1. EvidenceAt(a)'
    BY DEF EvidenceAt
  <1>2. StateOf(a)' = StateOf(a)
    BY DEF StateOf, Entry
  <1>3. QED
    BY <1>1, <1>2 DEF BreakerStep, Breaker!vars

\* Time passes, in the world and for the clock.
LEMMA TickStep ==
  ASSUME TypeOK, Evidence, Tick, NEW a \in Addrs
  PROVE  EvidenceAt(a)' /\ BreakerStep(a)
  <1> USE ConfigTypes
  <1>1. SameAddrs
    BY AgedAddrs DEF Tick
  <1>2. bad'[a] = bad[a] /\ good'[a] = good[a] /\ waited[a] \in 0..Cooldown
    BY HistoryTypes DEF Tick
  <1>3. CASE Listed(a) /\ Entry(a).state = "Ejected"
    <2>1. /\ Entry(a) \in Endpoint /\ First(a) \in DOMAIN endpoints
          /\ Entry(a)' = endpoints'[First(a)] /\ Listed(a)'
          /\ StateOf(a) = Entry(a).state /\ StateOf(a)' = Entry(a)'.state
      BY <1>1, <1>3, EntryStays
    <2>2. Entry(a)' = [Entry(a) EXCEPT !.age = UpTo(Entry(a).age + 1, Cooldown)]
      BY <1>3, <2>1 DEF Tick, Aged, Entry
    <2>3. waited'[a] = UpTo(waited[a] + 1, Cooldown)
      BY <1>3 DEF Tick, Ejected, Entry
    <2>4. Entry(a).age \in Int /\ Entry(a).age <= waited[a] /\ Entry(a).fails <= bad[a]
      BY <1>3, <2>1 DEF Endpoint, Evidence, EvidenceAt
    <2>5. UpTo(Entry(a).age + 1, Cooldown) <= UpTo(waited[a] + 1, Cooldown)
      BY <1>2, <2>4 DEF UpTo
    <2>6. /\ Entry(a)'.state = "Ejected" /\ Entry(a)'.fails = Entry(a).fails
          /\ Entry(a)'.age = UpTo(Entry(a).age + 1, Cooldown)
      BY <1>3, <2>1, <2>2 DEF Endpoint
    <2>7. EvidenceAt(a)'
      BY <1>2, <2>3, <2>4, <2>5, <2>6 DEF EvidenceAt
    <2>8. Breaker(a)!TimePasses
      BY <1>2, <1>3, <2>1, <2>3, <2>6 DEF Breaker!TimePasses, Breaker!UpTo, UpTo
    <2>9. QED
      BY <2>7, <2>8 DEF BreakerStep, Breaker!Next
  <1>4. CASE ~ (Listed(a) /\ Entry(a).state = "Ejected")
    <2>1. waited'[a] = waited[a]
      BY <1>4 DEF Tick, Ejected, Entry
    <2>2. Listed(a)' <=> Listed(a)
      BY <1>1, FirstStays DEF SameAddrs
    <2>3. Listed(a) => Entry(a)' = Entry(a)
      BY <1>1, <1>4, EntryStays DEF Tick, Aged, Entry
    <2>4. QED
      BY <1>2, <2>1, <2>2, <2>3, QuietStep DEF Evidence
  <1>5. QED
    BY <1>3, <1>4

\* The clock is set back: ages shrink, the time that passed does not.
LEMMA ClockBackStep ==
  ASSUME TypeOK, Evidence, ClockBack, NEW a \in Addrs
  PROVE  EvidenceAt(a)' /\ BreakerStep(a)
  <1> USE ConfigTypes
  <1>1. SameAddrs
    BY AgedAddrs DEF ClockBack
  <1>2. bad' = bad /\ good' = good /\ waited' = waited /\ waited[a] \in 0..Cooldown
    BY HistoryTypes DEF ClockBack, history
  <1>3. CASE Listed(a) /\ Entry(a).state = "Ejected"
    <2>1. /\ Entry(a) \in Endpoint /\ First(a) \in DOMAIN endpoints
          /\ Entry(a)' = endpoints'[First(a)] /\ Listed(a)'
          /\ StateOf(a) = Entry(a).state /\ StateOf(a)' = Entry(a)'.state
      BY <1>1, <1>3, EntryStays
    <2>2. Entry(a)' = [Entry(a) EXCEPT !.age = UpTo(Entry(a).age + (-1), Cooldown)]
      BY <1>3, <2>1 DEF ClockBack, Aged, Entry
    <2>3. Entry(a).age \in Int /\ Entry(a).age <= waited[a] /\ Entry(a).fails <= bad[a]
      BY <1>3, <2>1 DEF Endpoint, Evidence, EvidenceAt
    <2>4. UpTo(Entry(a).age + (-1), Cooldown) <= waited[a]
      BY <1>2, <2>3 DEF UpTo
    <2>5. /\ Entry(a)'.state = "Ejected" /\ Entry(a)'.fails = Entry(a).fails
          /\ Entry(a)'.age = UpTo(Entry(a).age + (-1), Cooldown)
      BY <1>3, <2>1, <2>2 DEF Endpoint
    <2>6. EvidenceAt(a)'
      BY <1>2, <2>3, <2>4, <2>5 DEF EvidenceAt
    <2>7. StateOf(a)' = StateOf(a)
      BY <1>3, <2>1, <2>5
    <2>8. QED
      BY <1>2, <2>6, <2>7 DEF BreakerStep, Breaker!vars
  <1>4. CASE ~ (Listed(a) /\ Entry(a).state = "Ejected")
    <2>1. Listed(a)' <=> Listed(a)
      BY <1>1, FirstStays DEF SameAddrs
    <2>2. Listed(a) => Entry(a)' = Entry(a)
      BY <1>1, <1>4, EntryStays DEF ClockBack, Aged, Entry
    <2>3. QED
      BY <1>2, <2>1, <2>2, QuietStep DEF Evidence
  <1>5. QED
    BY <1>3, <1>4

\* An ejected address whose cooldown is over becomes half open at the next
\* Pick: by Evidence the time has really passed.
LEMMA PickStep ==
  ASSUME TypeOK, Evidence, NEW t \in Threads, NEW b \in Addrs, Pick(t, b), NEW a \in Addrs
  PROVE  EvidenceAt(a)' /\ BreakerStep(a)
  <1> USE ConfigTypes
  <1>1. SameAddrs
    BY ProbedAddrs DEF Pick
  <1>2. bad' = bad /\ waited' = waited /\ waited[a] \in 0..Cooldown
    BY HistoryTypes DEF Pick
  <1>3. CASE Listed(a) /\ Entry(a).state = "Ejected" /\ Cooled(Entry(a))
    <2>1. /\ Entry(a) \in Endpoint /\ First(a) \in DOMAIN endpoints
          /\ Entry(a)' = endpoints'[First(a)] /\ Listed(a)'
          /\ StateOf(a) = Entry(a).state /\ StateOf(a)' = Entry(a)'.state
      BY <1>1, <1>3, EntryStays
    <2>2. Entry(a)' = Probe(Entry(a))
      BY <1>3, <2>1 DEF Pick, Probed, Entry
    <2>3. good'[a] = 0
      BY <1>3 DEF Pick, Ejected, Entry
    <2>4. Entry(a).age \in Int /\ Entry(a).age <= waited[a] /\ Entry(a).fails <= bad[a]
      BY <1>3, <2>1 DEF Endpoint, Evidence, EvidenceAt
    <2>5. waited[a] >= Cooldown
      BY <1>2, <1>3, <2>4 DEF Cooled
    <2>6. Entry(a)'.state = "HalfOpen" /\ Entry(a)'.fails = Entry(a).fails /\ Entry(a)'.half = 0
      BY <2>2 DEF Probe
    <2>7. EvidenceAt(a)'
      BY <1>2, <2>3, <2>4, <2>6 DEF EvidenceAt
    <2>8. Breaker(a)!Probe
      BY <1>2, <1>3, <2>1, <2>3, <2>5, <2>6 DEF Breaker!Probe
    <2>9. QED
      BY <2>7, <2>8 DEF BreakerStep, Breaker!Next
  <1>4. CASE ~ (Listed(a) /\ Entry(a).state = "Ejected" /\ Cooled(Entry(a)))
    <2>1. good'[a] = good[a]
      BY <1>4 DEF Pick, Ejected, Entry
    <2>2. Listed(a)' <=> Listed(a)
      BY <1>1, FirstStays DEF SameAddrs
    <2>3. Listed(a) => Entry(a)' = Entry(a)
      BY <1>1, <1>4, EntryStays DEF Pick, Probed, Entry
    <2>4. QED
      BY <1>2, <2>1, <2>2, <2>3, QuietStep DEF Evidence
  <1>5. QED
    BY <1>3, <1>4

\* A success is reported for the first entry e of an address.
LEMMA SuccessStep ==
  ASSUME TypeOK, Evidence, NEW a \in Addrs, Listed(a), Listed(a)',
         StateOf(a)' = Entry(a)'.state, Entry(a)' = Succeed(Entry(a)),
         bad'[a] = 0, waited'[a] = waited[a],
         good'[a] = IF Entry(a).state = "HalfOpen" THEN UpTo(good[a] + 1, HalfOpenSuccess)
                                                   ELSE good[a]
  PROVE  EvidenceAt(a)' /\ BreakerStep(a)
  <1> USE ConfigTypes
  <1>1. Entry(a) \in Endpoint /\ StateOf(a) = Entry(a).state
    BY FirstIsEntry DEF TypeOK, Entry, StateOf
  <1>2. good[a] \in 0..HalfOpenSuccess /\ Entry(a).half \in 0..HalfOpenSuccess
    BY <1>1, HistoryTypes DEF Endpoint
  <1>3. /\ Entry(a).state = "HalfOpen" => Entry(a).half = good[a]
        /\ Entry(a).state = "Ejected" => Entry(a).age <= waited[a]
    BY DEF Evidence, EvidenceAt
  <1>4. Entry(a)'.fails = 0 /\ Entry(a)'.age = Entry(a).age
    BY DEF Succeed
  <1>5. CASE Entry(a).state = "HalfOpen" /\ Entry(a).half + 1 >= HalfOpenSuccess
    <2>1. Entry(a)'.state = "Healthy"
      BY <1>5 DEF Succeed
    <2>2. good'[a] = UpTo(good[a] + 1, HalfOpenSuccess) /\ good'[a] >= HalfOpenSuccess
      BY <1>2, <1>3, <1>5 DEF UpTo
    <2>3. EvidenceAt(a)'
      BY <1>4, <2>1 DEF EvidenceAt
    <2>4. Breaker(a)!Success
      BY <1>1, <1>5, <2>1, <2>2 DEF Breaker!Success, Breaker!UpTo, UpTo
    <2>5. QED
      BY <2>3, <2>4 DEF BreakerStep, Breaker!Next
  <1>6. CASE Entry(a).state = "HalfOpen" /\ ~ (Entry(a).half + 1 >= HalfOpenSuccess)
    <2>1. Entry(a)'.state = "HalfOpen" /\ Entry(a)'.half = Entry(a).half + 1
      BY <1>6 DEF Succeed
    <2>2. good'[a] = good[a] + 1 /\ ~ (good'[a] >= HalfOpenSuccess)
      BY <1>2, <1>3, <1>6 DEF UpTo
    <2>3. EvidenceAt(a)'
      BY <1>3, <1>4, <1>6, <2>1, <2>2 DEF EvidenceAt
    <2>4. Breaker(a)!Success
      BY <1>1, <1>6, <2>1, <2>2 DEF Breaker!Success, Breaker!UpTo, UpTo
    <2>5. QED
      BY <2>3, <2>4 DEF BreakerStep, Breaker!Next
  <1>7. CASE Entry(a).state # "HalfOpen"
    <2>1. Entry(a)'.state = Entry(a).state
      BY <1>7 DEF Succeed
    <2>2. EvidenceAt(a)'
      BY <1>3, <1>4, <1>7, <2>1 DEF EvidenceAt
    <2>3. Breaker(a)!Success
      BY <1>1, <1>7, <2>1 DEF Breaker!Success
    <2>4. QED
      BY <2>2, <2>3 DEF BreakerStep, Breaker!Next
  <1>8. QED
    BY <1>5, <1>6, <1>7

\* A failure is reported for the first entry e of an address.
LEMMA FailureStep ==
  ASSUME TypeOK, Evidence, NEW a \in Addrs, Listed(a), Listed(a)',
         StateOf(a)' = Entry(a)'.state, Entry(a)' = Fail(Entry(a)),
         bad'[a] = UpTo(bad[a] + 1, FailThreshold), good'[a] = 0,
         waited'[a] = IF Entry(a).state # "Ejected" /\ Entry(a)'.state = "Ejected"
                        THEN 0 ELSE waited[a]
  PROVE  EvidenceAt(a)' /\ BreakerStep(a)
  <1> USE ConfigTypes
  <1>1. Entry(a) \in Endpoint /\ StateOf(a) = Entry(a).state
    BY FirstIsEntry DEF TypeOK, Entry, StateOf
  <1>2. bad[a] \in 0..FailThreshold /\ Entry(a).fails \in 0..FailThreshold /\ Entry(a).fails <= bad[a]
    BY <1>1, HistoryTypes DEF Endpoint, Evidence, EvidenceAt
  <1>3. UpTo(Entry(a).fails + 1, FailThreshold) <= bad'[a] /\ bad'[a] \in Nat /\ Entry(a).fails <= bad'[a]
    BY <1>2 DEF UpTo
  <1>4. bad'[a] = Breaker(a)!UpTo(bad[a] + 1, FailThreshold)
    BY DEF Breaker!UpTo, UpTo
  <1> DEFINE out == Entry(a).fails + 1 >= FailThreshold /\ EvictAllowed
  <1>5. CASE Entry(a).state = "HalfOpen" \/ (Entry(a).state = "Healthy" /\ out)
    <2>1. Entry(a)'.state = "Ejected" /\ Entry(a)'.fails = 0 /\ Entry(a)'.age = 0
      <3>1. Fail(Entry(a)) = [Eject(Entry(a)) EXCEPT !.half = 0] \/ Fail(Entry(a)) = Eject(Entry(a))
        BY <1>5 DEF Fail
      <3>2. Eject(Entry(a)).state = "Ejected" /\ Eject(Entry(a)).fails = 0 /\ Eject(Entry(a)).age = 0
        BY DEF Eject
      <3>3. LET r == [Eject(Entry(a)) EXCEPT !.half = 0]
            IN r.state = "Ejected" /\ r.fails = 0 /\ r.age = 0
        BY DEF Eject
      <3>4. QED
        BY <3>1, <3>2, <3>3
    <2>2. waited'[a] = 0
      BY <1>5, <2>1
    <2>3. EvidenceAt(a)'
      BY <1>3, <2>1, <2>2 DEF EvidenceAt
    <2>4. Entry(a).state = "HalfOpen" \/ (Entry(a).state = "Healthy" /\ bad'[a] >= FailThreshold)
      BY <1>2, <1>5 DEF UpTo
    <2>5. Breaker(a)!Failure
      BY <1>1, <1>4, <2>1, <2>2, <2>4 DEF Breaker!Failure
    <2>6. QED
      BY <2>3, <2>5 DEF BreakerStep, Breaker!Next
  <1>6. CASE Entry(a).state = "Healthy" /\ ~ out
    <2>1. Fail(Entry(a)) = [Entry(a) EXCEPT !.fails = UpTo(Entry(a).fails + 1, FailThreshold)]
      BY <1>6 DEF Fail
    <2>2. Entry(a)'.state = "Healthy" /\ Entry(a)'.fails = UpTo(Entry(a).fails + 1, FailThreshold)
      BY <1>1, <1>6, <2>1 DEF Endpoint
    <2>3. waited'[a] = waited[a]
      BY <2>2
    <2>4. EvidenceAt(a)'
      BY <1>3, <2>2 DEF EvidenceAt
    <2>5. Breaker(a)!Failure
      BY <1>1, <1>4, <1>6, <2>2, <2>3 DEF Breaker!Failure
    <2>6. QED
      BY <2>4, <2>5 DEF BreakerStep, Breaker!Next
  <1>7. CASE Entry(a).state = "Ejected"
    <2>1. Entry(a)' = Entry(a)
      BY <1>7 DEF Fail
    <2>2. waited'[a] = waited[a]
      BY <1>7
    <2>3. Entry(a).age <= waited[a]
      BY <1>7 DEF Evidence, EvidenceAt
    <2>4. EvidenceAt(a)'
      BY <1>3, <1>7, <2>1, <2>2, <2>3 DEF EvidenceAt
    <2>5. Breaker(a)!Failure
      BY <1>1, <1>4, <1>7, <2>1, <2>2 DEF Breaker!Failure
    <2>6. QED
      BY <2>4, <2>5 DEF BreakerStep, Breaker!Next
  <1>8. QED
    BY <1>1, <1>5, <1>6, <1>7 DEF Endpoint, EndpointState

\* The outcome of a call counts for the address it went to and for no other.
LEMMA ReportStep ==
  ASSUME TypeOK, Evidence, NEW t \in Threads, Report(t), NEW a \in Addrs
  PROVE  EvidenceAt(a)' /\ BreakerStep(a)
  <1>1. CASE ~ Listed(call[t].addr)
    <2>1. endpoints' = endpoints /\ bad' = bad /\ good' = good /\ waited' = waited
      BY <1>1 DEF Report, history
    <2>2. (Listed(a)' <=> Listed(a)) /\ Entry(a)' = Entry(a)
      BY <2>1 DEF Listed, Entry, First, Entries
    <2>3. QED
      BY <2>1, <2>2, QuietStep DEF Evidence
  <1>2. CASE Listed(call[t].addr)
    <2> DEFINE b == call[t].addr
    <2>1. /\ b \in Addrs /\ SameAddrs
          /\ endpoints' = [endpoints EXCEPT ![First(b)] = Outcome(t)]
      BY <1>2, ReportAddrs DEF Call
    <2>2. /\ bad' = [bad EXCEPT ![b] = IF call[t].at = "Ok" THEN 0 ELSE UpTo(bad[b] + 1, FailThreshold)]
          /\ good' = [good EXCEPT ![b] =
               IF call[t].at # "Ok" THEN 0
               ELSE IF Entry(b).state = "HalfOpen" THEN UpTo(good[b] + 1, HalfOpenSuccess) ELSE good[b]]
          /\ waited' = [waited EXCEPT ![b] =
               IF Entry(b).state # "Ejected" /\ Outcome(t).state = "Ejected" THEN 0 ELSE waited[b]]
      BY <1>2 DEF Report, Outcome, Entry
    <2>3. bad \in [Addrs -> 0..FailThreshold] /\ good \in [Addrs -> 0..HalfOpenSuccess]
          /\ waited \in [Addrs -> 0..Cooldown]
      BY DEF TypeOK
    <2>4. CASE a # b
      <3>1. bad'[a] = bad[a] /\ good'[a] = good[a] /\ waited'[a] = waited[a]
        BY <2>1, <2>2, <2>3, <2>4
      <3>2. Listed(a)' <=> Listed(a)
        BY <2>1, FirstStays DEF SameAddrs
      <3>3. ASSUME Listed(a) PROVE Entry(a)' = Entry(a)
        <4>1. First(a) \in DOMAIN endpoints /\ endpoints[First(a)].addr = a
          BY <3>3, FirstIsEntry DEF TypeOK
        <4>2. endpoints[First(b)].addr = b
          BY <1>2, <2>1, FirstIsEntry DEF TypeOK
        <4>3. Entry(a)' = endpoints'[First(a)]
          BY <2>1, <3>3, EntryStays
        <4>4. QED
          BY <2>1, <2>4, <4>1, <4>2, <4>3 DEF Entry
      <3>4. QED
        BY <3>1, <3>2, <3>3, QuietStep DEF Evidence
    <2>5. CASE a = b
      <3>1. /\ First(a) \in DOMAIN endpoints /\ Listed(a)' /\ StateOf(a)' = Entry(a)'.state
            /\ Entry(a)' = endpoints'[First(a)]
        BY <1>2, <2>1, <2>5, EntryStays
      <3>2. Entry(a)' = Outcome(t)
        BY <2>1, <2>5, <3>1
      <3>3. /\ bad'[a] = IF call[t].at = "Ok" THEN 0 ELSE UpTo(bad[a] + 1, FailThreshold)
            /\ good'[a] = IF call[t].at # "Ok" THEN 0
                          ELSE IF Entry(a).state = "HalfOpen" THEN UpTo(good[a] + 1, HalfOpenSuccess) ELSE good[a]
            /\ waited'[a] = IF Entry(a).state # "Ejected" /\ Entry(a)'.state = "Ejected" THEN 0 ELSE waited[a]
        BY <2>2, <2>3, <2>5, <3>2
      <3>4. CASE call[t].at = "Ok"
        <4>1. Entry(a)' = Succeed(Entry(a))
          BY <2>5, <3>2, <3>4 DEF Outcome, Entry
        <4>2. Entry(a)'.state = "Ejected" => Entry(a).state = "Ejected"
          BY <4>1 DEF Succeed
        <4>3. waited'[a] = waited[a]
          BY <3>3, <4>2
        <4>4. QED
          BY <1>2, <2>5, <3>1, <3>3, <3>4, <4>1, <4>3, SuccessStep
      <3>5. CASE call[t].at # "Ok"
        <4>1. Entry(a)' = Fail(Entry(a))
          BY <2>5, <3>2, <3>5 DEF Outcome, Entry
        <4>2. QED
          BY <1>2, <2>5, <3>1, <3>3, <3>5, <4>1, FailureStep
      <3>6. QED
        BY <3>4, <3>5
    <2>6. QED
      BY <2>4, <2>5
  <1>3. QED
    BY <1>1, <1>2

\* After a merge the first entry of an address stands where the new list
\* names that address.
LEMMA MergedFirst ==
  ASSUME TypeOK, NEW l \in Lists, MergeEndpoints(l), NEW a \in Addrs
  PROVE  /\ (\E i \in DOMAIN l : l[i] = a) <=> Listed(a)'
         /\ Listed(a)' => Entry(a)' = IF Listed(a) THEN Entry(a) ELSE New(a)
  <1>1. l \in Seq(Addrs)
    BY ListsAssumption
  <1>2. endpoints' = [i \in DOMAIN l |-> IF Listed(l[i]) THEN endpoints[First(l[i])] ELSE New(l[i])]
    BY DEF MergeEndpoints
  <1>3. ASSUME NEW i \in DOMAIN l
        PROVE  /\ endpoints'[i].addr = l[i]
               /\ l[i] = a => endpoints'[i] = IF Listed(a) THEN Entry(a) ELSE New(a)
    <2>1. l[i] \in Addrs
      BY <1>1
    <2>2. Listed(l[i]) => endpoints[First(l[i])].addr = l[i]
      BY <2>1, FirstIsEntry DEF TypeOK
    <2>3. New(l[i]).addr = l[i]
      BY DEF New
    <2>4. QED
      BY <1>2, <2>2, <2>3 DEF Entry
  <1>4. Entries(a)' = {i \in DOMAIN l : l[i] = a}
    BY <1>2, <1>3 DEF Entries
  <1>5. ASSUME Listed(a)' PROVE First(a)' \in DOMAIN l /\ l[First(a)'] = a
    <2>1. Entries(a)' \in SUBSET Nat
      BY <1>1, <1>4
    <2>2. Entries(a)' # {}
      BY <1>5 DEF Listed
    <2>3. First(a)' = Min(Entries(a)')
      BY DEF First
    <2>4. First(a)' \in Entries(a)'
      BY <2>1, <2>2, <2>3, MinProperty
    <2>5. QED
      BY <1>4, <2>4
  <1>6. QED
    BY <1>3, <1>4, <1>5 DEF Listed, Entry

\* A listed address that stays listed keeps its health; every other address
\* is forgotten.
LEMMA MergeStep ==
  ASSUME TypeOK, Evidence, NEW l \in Lists, MergeEndpoints(l), NEW a \in Addrs
  PROVE  EvidenceAt(a)' /\ BreakerStep(a)
  <1>1. CASE Listed(a) /\ Listed(a)'
    <2>1. Entry(a)' = Entry(a) /\ \E i \in DOMAIN l : l[i] = a
      BY <1>1, MergedFirst
    <2>2. bad'[a] = bad[a] /\ good'[a] = good[a] /\ waited'[a] = waited[a]
      BY <1>1, <2>1 DEF MergeEndpoints
    <2>3. QED
      BY <1>1, <2>1, <2>2, QuietStep DEF Evidence
  <1>2. CASE ~ (Listed(a) /\ Listed(a)')
    <2>1. bad'[a] = 0 /\ good'[a] = 0 /\ waited'[a] = 0
      BY <1>2, MergedFirst DEF MergeEndpoints
    <2>2. Listed(a)' => Entry(a)' = New(a)
      BY <1>2, MergedFirst
    <2>3. Listed(a)' => Entry(a)'.state = "Healthy" /\ Entry(a)'.fails = 0
      BY <2>2 DEF New
    <2>4. EvidenceAt(a)'
      BY <2>1, <2>3 DEF EvidenceAt
    <2>5. StateOf(a)' = "Healthy"
      BY <2>3 DEF StateOf, Entry
    <2>6. Breaker(a)!Forget
      BY <2>1, <2>5 DEF Breaker!Forget
    <2>7. QED
      BY <2>4, <2>6 DEF BreakerStep, Breaker!Next
  <1>3. QED
    BY <1>1, <1>2

\* Initially every listed address is new.
LEMMA EvidenceInit ==
  ASSUME Init
  PROVE  Evidence /\ \A a \in Addrs : Breaker(a)!Init
  <1>1. endpoints \in Seq(Endpoint)
    BY TypeInit DEF TypeOK
  <1>2. PICK l \in Lists : endpoints = [i \in DOMAIN l |-> New(l[i])]
    BY DEF Init
  <1>3. ASSUME NEW a \in Addrs, Listed(a)
        PROVE  Entry(a).state = "Healthy" /\ Entry(a).fails = 0
    <2>1. First(a) \in DOMAIN l
      BY <1>1, <1>2, <1>3, FirstIsEntry
    <2>2. QED
      BY <1>2, <2>1 DEF Entry, New
  <1>4. \A a \in Addrs : bad[a] = 0 /\ good[a] = 0 /\ waited[a] = 0
    BY DEF Init
  <1>5. Evidence
    BY <1>3, <1>4 DEF Evidence, EvidenceAt
  <1>6. ASSUME NEW a \in Addrs PROVE Breaker(a)!Init
    BY <1>3, <1>4 DEF Breaker!Init, StateOf, Entry
  <1>7. QED
    BY <1>5, <1>6

\* Every action keeps the evidence and is a step of every breaker.
LEMMA EvidenceStep ==
  ASSUME TypeOK, Evidence, [Next]_vars
  PROVE  Evidence' /\ \A a \in Addrs : BreakerStep(a)
  <1> SUFFICES ASSUME NEW a \in Addrs PROVE EvidenceAt(a)' /\ BreakerStep(a)
    BY DEF Evidence
  <1>1. ASSUME UNCHANGED <<endpoints, history>> PROVE EvidenceAt(a)' /\ BreakerStep(a)
    <2>1. endpoints' = endpoints /\ bad' = bad /\ good' = good /\ waited' = waited
      BY <1>1 DEF history
    <2>2. (Listed(a)' <=> Listed(a)) /\ Entry(a)' = Entry(a)
      BY <2>1 DEF Listed, Entry, First, Entries
    <2>3. QED
      BY <2>1, <2>2, QuietStep DEF Evidence
  <1>2. CASE Tick
    BY <1>2, TickStep
  <1>3. CASE ClockBack
    BY <1>3, ClockBackStep
  <1>4. CASE \E b \in Addrs : Flip(b)
    BY <1>1, <1>4 DEF Flip
  <1>5. CASE \E t \in Threads, b \in Addrs : Pick(t, b)
    BY <1>5, PickStep
  <1>6. CASE \E t \in Threads : Acquire(t)
    BY <1>1, <1>6 DEF Acquire
  <1>7. CASE \E t \in Threads, ok \in BOOLEAN : Release(t, ok)
    BY <1>1, <1>7 DEF Release
  <1>8. CASE \E t \in Threads : Report(t)
    BY <1>8, ReportStep
  <1>9. CASE \E l \in Lists : MergeEndpoints(l)
    BY <1>9, MergeStep
  <1>10. CASE UNCHANGED vars
    BY <1>1, <1>10 DEF vars
  <1>11. QED
    BY <1>2, <1>3, <1>4, <1>5, <1>6, <1>7, <1>8, <1>9, <1>10 DEF Next

\* Pick, Report, MergeEndpoints, the calls and the clock make every address
\* behave as a circuit breaker, for every list the provider hands over and
\* every HealthConfig: it is ejected, probed and restored only on evidence.
THEOREM RefinesBreaker == Spec => ImplementsBreaker
  <1>1. Init => Evidence /\ \A a \in Addrs : Breaker(a)!Init
    BY EvidenceInit
  <1>2. TypeOK /\ Evidence /\ [Next]_vars => Evidence'
    BY EvidenceStep
  <1>3. TypeOK /\ Evidence /\ [Next]_vars
          => [\A a \in Addrs : [Breaker(a)!Next]_(Breaker(a)!vars)]_vars
    BY EvidenceStep DEF BreakerStep
  <1>4. QED
    BY <1>1, <1>2, <1>3, TypeCorrect, PTL DEF Spec, ImplementsBreaker

-----------------------------------------------------------------------------
\* Selection: an ejected endpoint is picked only when all are ejected

\* No address appears twice in a list the provider hands over.
NoneTwice == \A l \in Lists : \A i, j \in DOMAIN l : l[i] = l[j] => i = j

\* Every listed address has one entry.
OneEntry == \A i, j \in DOMAIN endpoints : endpoints[i].addr = endpoints[j].addr => i = j

\* MergeEndpoints lists the addresses of the new list, in its order.
LEMMA MergedAddrs ==
  ASSUME TypeOK, NEW l \in Lists, MergeEndpoints(l)
  PROVE  DOMAIN endpoints' = DOMAIN l /\ \A i \in DOMAIN l : endpoints'[i].addr = l[i]
  <1>1. DOMAIN endpoints' = DOMAIN l
    BY DEF MergeEndpoints
  <1>2. ASSUME NEW i \in DOMAIN l
        PROVE  endpoints'[i].addr = l[i]
    <2>1. l[i] \in Addrs
      BY ListsAssumption
    <2>2. CASE Listed(l[i])
      <3>1. endpoints'[i] = endpoints[First(l[i])]
        BY <2>2 DEF MergeEndpoints
      <3>2. QED
        BY <2>1, <2>2, <3>1, FirstIsEntry DEF TypeOK
    <2>3. CASE ~ Listed(l[i])
      BY <2>3 DEF MergeEndpoints, New
    <2>4. QED
      BY <2>2, <2>3
  <1>3. QED
    BY <1>1, <1>2

\* Every action but MergeEndpoints leaves the addresses alone.
LEMMA AddrsStay ==
  ASSUME TypeOK, [Next]_vars
  PROVE  SameAddrs \/ \E l \in Lists : MergeEndpoints(l)
  <1>1. endpoints' = endpoints => SameAddrs
    BY DEF SameAddrs, TypeOK
  <1>2. CASE Tick
    BY <1>2, AgedAddrs DEF Tick
  <1>3. CASE ClockBack
    BY <1>3, AgedAddrs DEF ClockBack
  <1>4. CASE \E t \in Threads, a \in Addrs : Pick(t, a)
    BY <1>4, ProbedAddrs DEF Pick
  <1>5. ASSUME NEW t \in Threads, Report(t)
        PROVE  SameAddrs
    <2>1. CASE Listed(call[t].addr)
      BY <1>5, <2>1, ReportAddrs
    <2>2. CASE ~ Listed(call[t].addr)
      BY <1>1, <1>5, <2>2 DEF Report
    <2>3. QED
      BY <2>1, <2>2
  <1>6. CASE UNCHANGED vars \/ (\E a \in Addrs : Flip(a))
             \/ \E t \in Threads : Acquire(t) \/ \E ok \in BOOLEAN : Release(t, ok)
    BY <1>1, <1>6 DEF vars, Flip, Acquire, Release
  <1>7. QED
    BY <1>2, <1>3, <1>4, <1>5, <1>6 DEF Next

\* The entries stay one for each address.
LEMMA OneEntryStep ==
  ASSUME NoneTwice, TypeOK, OneEntry, [Next]_vars
  PROVE  OneEntry'
  <1>1. CASE SameAddrs
    BY <1>1 DEF SameAddrs, OneEntry
  <1>2. ASSUME NEW l \in Lists, MergeEndpoints(l)
        PROVE  OneEntry'
    BY <1>2, MergedAddrs DEF NoneTwice, OneEntry
  <1>3. QED
    BY <1>1, <1>2, AddrsStay

\* Only Pick starts a call of a thread.
LEMMA PickStarts ==
  ASSUME TypeOK, Next, NEW t \in Threads, call[t] = NoCall, call'[t] # NoCall
  PROVE  \E a \in Addrs : Pick(t, a)
  <1> USE DEF TypeOK
  <1>1. ASSUME NEW u \in Threads, NEW a \in Addrs, Pick(u, a)
        PROVE  u = t
    BY <1>1 DEF Pick
  <1>2. ASSUME NEW u \in Threads, Acquire(u) \/ \E ok \in BOOLEAN : Release(u, ok)
        PROVE  FALSE
    BY <1>2 DEF Acquire, Release
  <1>3. ASSUME NEW u \in Threads, Report(u)
        PROVE  FALSE
    BY <1>3 DEF Report
  <1>4. Tick \/ ClockBack \/ (\E a \in Addrs : Flip(a)) \/ (\E l \in Lists : MergeEndpoints(l))
          => FALSE
    BY DEF Tick, ClockBack, Flip, MergeEndpoints
  <1>5. QED
    BY <1>1, <1>2, <1>3, <1>4 DEF Next

\* What Pick hands out is ejected only when every endpoint is.
LEMMA PickedIsUp ==
  ASSUME TypeOK, OneEntry, NEW t \in Threads, NEW a \in Addrs, Pick(t, a),
         NEW j \in Entries(call'[t].addr), endpoints'[j].state = "Ejected"
  PROVE  \A i \in DOMAIN endpoints : endpoints'[i].state = "Ejected"
  <1>1. PICK i \in Candidates :
          /\ endpoints[i].addr = a
          /\ call' = [call EXCEPT ![t] = [at |-> "Picked", addr |-> a, state |-> Probed[i].state]]
    BY DEF Pick
  <1>2. endpoints' = Probed /\ DOMAIN Probed = DOMAIN endpoints /\ i \in DOMAIN endpoints
    BY <1>1 DEF Pick, Probed, Candidates
  <1>3. call'[t].addr = a
    BY <1>1 DEF TypeOK
  <1>4. j = i
    BY <1>1, <1>2, <1>3 DEF OneEntry, Entries
  <1>5. Probed[i].state = "Ejected"
    BY <1>2, <1>4
  <1>6. \A k \in DOMAIN Probed : ~ (Probed[k].state \in {"Healthy", "HalfOpen"})
    BY <1>1, <1>5 DEF Candidates
  <1>7. \A k \in DOMAIN Probed : Probed[k].state \in EndpointState
    <2>1. SameAddrs
      BY <1>2, ProbedAddrs
    <2>2. \A k \in DOMAIN endpoints' : endpoints'[k] \in Endpoint
      BY <2>1 DEF SameAddrs
    <2>3. QED
      BY <1>2, <2>2 DEF Endpoint
  <1>8. QED
    BY <1>2, <1>6, <1>7 DEF EndpointState

\* With lists in which no address appears twice, Pick hands out an ejected
\* endpoint only when it has no other, whatever Report and MergeEndpoints of
\* other threads did before.
THEOREM SelectionSkipsEjected == ASSUME NoneTwice PROVE Spec => EjectedNotPicked
  <1> DEFINE Skips ==
        \A t \in Threads :
          /\ call[t] = NoCall /\ call'[t] # NoCall
          /\ \E i \in Entries(call'[t].addr) : endpoints'[i].state = "Ejected"
          => \A i \in DOMAIN endpoints : endpoints'[i].state = "Ejected"
  <1>1. Init => OneEntry
    <2> SUFFICES ASSUME Init PROVE OneEntry
      OBVIOUS
    <2>1. PICK l \in Lists : endpoints = [i \in DOMAIN l |-> New(l[i])]
      BY DEF Init
    <2>2. QED
      BY <2>1 DEF NoneTwice, OneEntry, New
  <1>2. TypeOK /\ OneEntry /\ [Next]_vars => OneEntry'
    BY OneEntryStep
  <1>3. TypeOK /\ OneEntry /\ Next => Skips
    BY PickStarts, PickedIsUp
  <1>4. TypeOK /\ OneEntry /\ [Next]_vars => [Skips]_vars
    BY <1>3
  <1>5. QED
    BY <1>1, <1>2, <1>4, TypeCorrect, PTL DEF Spec, EjectedNotPicked

-----------------------------------------------------------------------------
\* The share of healthy endpoints

\* The provider keeps handing over the same list.
OneList == \A l, m \in Lists : l = m

\* The positions HealthyCount counts.
HealthyOnes == {i \in DOMAIN endpoints : endpoints[i].state = "Healthy"}

\* They are finite in number.
LEMMA HealthyFinite ==
  ASSUME NEW s \in Seq(Endpoint), NEW H \in SUBSET DOMAIN s
  PROVE  IsFiniteSet(H) /\ Cardinality(H) \in Nat
  <1>1. Len(s) \in Nat /\ DOMAIN s = 1..Len(s)
    BY LenProperties
  <1>2. IsFiniteSet(1..Len(s))
    BY <1>1, FS_Interval
  <1>3. QED
    BY <1>1, <1>2, FS_Subset, FS_CardinalityType

\* The entries are those of the list.
Tracks == \E l \in Lists : DOMAIN endpoints = DOMAIN l /\ \A i \in DOMAIN l : endpoints[i].addr = l[i]

\* With one list MergeEndpoints changes no entry.
LEMMA MergeKeeps ==
  ASSUME NoneTwice, OneList, TypeOK, Tracks, NEW l \in Lists, MergeEndpoints(l)
  PROVE  endpoints' = endpoints
  <1>1. DOMAIN endpoints = DOMAIN l /\ \A i \in DOMAIN l : endpoints[i].addr = l[i]
    BY DEF Tracks, OneList
  <1>2. ASSUME NEW i \in DOMAIN l
        PROVE  endpoints'[i] = endpoints[i]
    <2>1. l[i] \in Addrs
      BY ListsAssumption
    <2>2. Listed(l[i])
      BY <1>1 DEF Listed, Entries
    <2>3. First(l[i]) \in DOMAIN endpoints /\ endpoints[First(l[i])].addr = l[i]
      BY <2>1, <2>2, FirstIsEntry DEF TypeOK
    <2>4. First(l[i]) = i
      BY <1>1, <2>3 DEF NoneTwice
    <2>5. QED
      BY <2>2, <2>4 DEF MergeEndpoints
  <1>3. endpoints' = [i \in DOMAIN l |-> endpoints'[i]]
    BY DEF MergeEndpoints
  <1>4. endpoints = [i \in DOMAIN endpoints |-> endpoints[i]]
    BY DEF TypeOK
  <1>5. QED
    BY <1>1, <1>2, <1>3, <1>4

\* An action takes the health of an endpoint away only in Report, of one
\* endpoint, and only when EvictAllowed.
LEMMA HealthLost ==
  ASSUME NoneTwice, OneList, TypeOK, Tracks, [Next]_vars
  PROVE  /\ DOMAIN endpoints' = DOMAIN endpoints
         /\ \/ HealthyOnes \subseteq HealthyOnes'
            \/ EvictAllowed /\ \E i \in HealthyOnes : HealthyOnes \ {i} \subseteq HealthyOnes'
  <1>1. endpoints' = endpoints => DOMAIN endpoints' = DOMAIN endpoints
                                  /\ HealthyOnes \subseteq HealthyOnes'
    BY DEF HealthyOnes
  <1>2. ASSUME NEW d \in Int, endpoints' = Aged(d)
        PROVE  DOMAIN endpoints' = DOMAIN endpoints /\ HealthyOnes \subseteq HealthyOnes'
    BY <1>2 DEF HealthyOnes, Aged
  <1>3. ASSUME NEW t \in Threads, NEW a \in Addrs, Pick(t, a)
        PROVE  DOMAIN endpoints' = DOMAIN endpoints /\ HealthyOnes \subseteq HealthyOnes'
    BY <1>3 DEF Pick, Probed, HealthyOnes
  <1>4. ASSUME NEW t \in Threads, Report(t), Listed(call[t].addr)
        PROVE  /\ DOMAIN endpoints' = DOMAIN endpoints
               /\ \/ HealthyOnes \subseteq HealthyOnes'
                  \/ EvictAllowed /\ \E i \in HealthyOnes : HealthyOnes \ {i} \subseteq HealthyOnes'
    <2> DEFINE i == First(call[t].addr)
    <2>1. /\ call[t].addr \in Addrs /\ SameAddrs
          /\ endpoints' = [endpoints EXCEPT ![i] = Outcome(t)]
      BY <1>4, ReportAddrs DEF Call
    <2>2. i \in DOMAIN endpoints /\ endpoints[i] \in Endpoint
      BY <1>4, <2>1, FirstIsEntry DEF TypeOK
    <2>3. DOMAIN endpoints' = DOMAIN endpoints /\ \A j \in DOMAIN endpoints \ {i} : endpoints'[j] = endpoints[j]
      BY <2>1, <2>2 DEF SameAddrs
    <2>4. HealthyOnes \ {i} \subseteq HealthyOnes'
      BY <2>3 DEF HealthyOnes
    <2>5. endpoints'[i] = Outcome(t)
      BY <2>1, <2>2
    <2>6. CASE endpoints[i].state = "Healthy" /\ Outcome(t).state = "Healthy"
      <3>1. i \in HealthyOnes'
        BY <2>2, <2>3, <2>5, <2>6 DEF HealthyOnes
      <3>2. QED
        BY <2>3, <2>4, <3>1
    <2>7. CASE endpoints[i].state = "Healthy" /\ Outcome(t).state # "Healthy"
      <3>1. EvictAllowed
        <4>1. Succeed(endpoints[i]).state = "Healthy"
          BY <2>7 DEF Succeed
        <4>2. Outcome(t) = Fail(endpoints[i])
          BY <2>7, <4>1 DEF Outcome
        <4>3. ~ EvictAllowed => Fail(endpoints[i]) = [endpoints[i] EXCEPT !.fails = UpTo(endpoints[i].fails + 1, FailThreshold)]
          BY <2>7 DEF Fail
        <4>4. QED
          BY <2>2, <2>7, <4>2, <4>3 DEF Endpoint
      <3>2. i \in HealthyOnes
        BY <2>2, <2>7 DEF HealthyOnes
      <3>3. QED
        BY <2>3, <2>4, <3>1, <3>2
    <2>8. CASE endpoints[i].state # "Healthy"
      <3>1. i \notin HealthyOnes
        BY <2>8 DEF HealthyOnes
      <3>2. QED
        BY <2>3, <2>4, <3>1
    <2>9. QED
      BY <2>6, <2>7, <2>8
  <1>5. ASSUME NEW t \in Threads, Report(t), ~ Listed(call[t].addr)
        PROVE  endpoints' = endpoints
    BY <1>5 DEF Report
  <1>6. CASE Tick \/ ClockBack
    BY <1>2, <1>6 DEF Tick, ClockBack
  <1>7. CASE UNCHANGED vars \/ (\E a \in Addrs : Flip(a))
             \/ \E t \in Threads : Acquire(t) \/ \E ok \in BOOLEAN : Release(t, ok)
    <2>1. endpoints' = endpoints
      BY <1>7 DEF vars, Flip, Acquire, Release
    <2>2. QED
      BY <1>1, <2>1
  <1>8. CASE \E l \in Lists : MergeEndpoints(l)
    <2>1. endpoints' = endpoints
      BY <1>8, MergeKeeps
    <2>2. QED
      BY <1>1, <2>1
  <1>9. CASE \E t \in Threads : Report(t)
    BY <1>1, <1>4, <1>5, <1>9
  <1>10. QED
    BY <1>3, <1>6, <1>7, <1>8, <1>9 DEF Next

\* The multiplications of EvictAllowed grow with their first factor.
LEMMA TimesGrows ==
  ASSUME NEW m \in Nat, NEW n \in Nat, NEW c \in Nat, m <= n
  PROVE  m * c <= n * c /\ m * c \in Nat /\ n * c \in Nat
  OBVIOUS

\* The share after a step.
LEMMA ShareStep ==
  ASSUME NoneTwice, OneList, TypeOK, TypeOK', Tracks, HealthyCount * MinDen >= MinNum * Len(endpoints),
         [Next]_vars
  PROVE  HealthyCount' * MinDen >= MinNum * Len(endpoints)'
  <1>1. /\ endpoints \in Seq(Endpoint) /\ endpoints' \in Seq(Endpoint)
        /\ HealthyOnes \in SUBSET DOMAIN endpoints
        /\ HealthyOnes' \in SUBSET DOMAIN endpoints'
    BY DEF TypeOK, HealthyOnes
  <1>2. DOMAIN endpoints' = DOMAIN endpoints
    BY HealthLost
  <1>3. Len(endpoints') = Len(endpoints) /\ Len(endpoints) \in Nat
    BY <1>1, <1>2, LenProperties
  <1>4. /\ IsFiniteSet(HealthyOnes) /\ Cardinality(HealthyOnes) \in Nat
        /\ IsFiniteSet(HealthyOnes') /\ Cardinality(HealthyOnes') \in Nat
    BY <1>1, HealthyFinite
  <1>5. HealthyCount = Cardinality(HealthyOnes) /\ HealthyCount' = Cardinality(HealthyOnes')
    BY DEF HealthyCount, HealthyOnes
  <1>6. MinDen \in Nat /\ MinNum \in Nat /\ MinNum * Len(endpoints) \in Nat
    BY <1>3, ConfigAssumption
  <1>7. CASE HealthyOnes \subseteq HealthyOnes'
    <2>1. HealthyCount <= HealthyCount'
      BY <1>4, <1>5, <1>7, FS_Subset
    <2>2. HealthyCount * MinDen <= HealthyCount' * MinDen /\ HealthyCount * MinDen \in Nat
          /\ HealthyCount' * MinDen \in Nat
      BY <1>4, <1>5, <1>6, <2>1, TimesGrows
    <2>3. QED
      BY <1>3, <1>6, <2>2
  <1>8. ASSUME EvictAllowed, NEW i \in HealthyOnes, HealthyOnes \ {i} \subseteq HealthyOnes'
        PROVE  HealthyCount' * MinDen >= MinNum * Len(endpoints)'
    <2>1. Cardinality(HealthyOnes \ {i}) = HealthyCount - 1 /\ IsFiniteSet(HealthyOnes \ {i})
      BY <1>4, <1>5, <1>8, FS_RemoveElement
    <2>2. Cardinality(HealthyOnes \ {i}) \in Nat
      BY <2>1, FS_CardinalityType
    <2>3. HealthyCount > 0 /\ HealthyCount - 1 \in Nat
      BY <1>4, <1>5, <2>1, <2>2
    <2>4. HealthyCount - 1 <= HealthyCount'
      BY <1>4, <1>5, <1>8, <2>1, FS_Subset
    <2>5. (HealthyCount - 1) * MinDen <= HealthyCount' * MinDen /\ (HealthyCount - 1) * MinDen \in Nat
          /\ HealthyCount' * MinDen \in Nat
      BY <1>4, <1>5, <1>6, <2>3, <2>4, TimesGrows
    <2>6. (HealthyCount - 1) * MinDen >= MinNum * Len(endpoints)
      BY <1>8, <2>3 DEF EvictAllowed
    <2>7. QED
      BY <1>3, <1>6, <2>5, <2>6
  <1>9. QED
    BY <1>7, <1>8, HealthLost

\* The entries stay those of the list.
LEMMA TracksStep ==
  ASSUME TypeOK, Tracks, [Next]_vars
  PROVE  Tracks'
  <1>1. CASE SameAddrs
    BY <1>1 DEF SameAddrs, Tracks
  <1>2. ASSUME NEW l \in Lists, MergeEndpoints(l)
        PROVE  Tracks'
    BY <1>2, MergedAddrs DEF Tracks
  <1>3. QED
    BY <1>1, <1>2, AddrsStay

\* Initially every endpoint is healthy.
LEMMA ShareInit ==
  ASSUME MinNum <= MinDen, Init
  PROVE  Tracks /\ HealthyCount * MinDen >= MinNum * Len(endpoints)
  <1>1. PICK l \in Lists : endpoints = [i \in DOMAIN l |-> New(l[i])]
    BY DEF Init
  <1>2. Tracks
    BY <1>1 DEF Tracks, New
  <1>3. endpoints \in Seq(Endpoint)
    BY TypeInit DEF TypeOK
  <1>4. Len(endpoints) \in Nat /\ DOMAIN endpoints = 1..Len(endpoints)
    BY <1>3, LenProperties
  <1>5. {i \in DOMAIN endpoints : endpoints[i].state = "Healthy"} = 1..Len(endpoints)
    BY <1>1, <1>4 DEF New
  <1>6. Cardinality(1..Len(endpoints)) = Len(endpoints)
    <2>1. 1 \in Int /\ Len(endpoints) \in Int
      BY <1>4
    <2>2. Cardinality(1..Len(endpoints)) = IF 1 > Len(endpoints) THEN 0 ELSE Len(endpoints) - 1 + 1
      BY <2>1, FS_Interval, Zenon
    <2>3. QED
      BY <1>4, <2>2
  <1>7. HealthyCount = Len(endpoints)
    BY <1>5, <1>6 DEF HealthyCount
  <1>8. MinDen \in Nat /\ MinNum \in Nat
    BY ConfigAssumption
  <1>9. MinNum * Len(endpoints) <= MinDen * Len(endpoints)
    BY <1>4, <1>8, TimesGrows
  <1>10. MinDen * Len(endpoints) = Len(endpoints) * MinDen
    BY <1>4, <1>8
  <1>11. MinNum * Len(endpoints) \in Nat /\ MinDen * Len(endpoints) \in Nat
    BY <1>4, <1>8
  <1>12. QED
    BY <1>2, <1>7, <1>9, <1>10, <1>11

\* While the list stays the same, names no address twice and asks for a share
\* of at most one, ejections never take the share of healthy endpoints below
\* min_healthy_ratio, however the reports of concurrent calls come in.
THEOREM ShareKept ==
  ASSUME NoneTwice, OneList, MinNum <= MinDen
  PROVE  Spec => []MinHealthyShare
  <1> DEFINE Share == HealthyCount * MinDen >= MinNum * Len(endpoints)
  <1>1. Init => Tracks /\ Share
    BY ShareInit
  <1>2. TypeOK /\ TypeOK' /\ Tracks /\ Share /\ [Next]_vars => Tracks' /\ Share'
    BY ShareStep, TracksStep
  <1>3. QED
    BY <1>1, <1>2, TypeCorrect, PTL DEF Spec, MinHealthyShare

=============================================================================
