---------------------------- MODULE RpcConnPool ----------------------------
(***************************************************************************)
(* The shared pool of downstream connections, sock/rpc_conn_pool.cc.       *)
(*                                                                         *)
(* Every method holds mu_ from beginning to end except at two places of    *)
(* Acquire: the connection is created with mu_ released (lines 67-69), and *)
(* cond_.TimeWait releases mu_ while the thread waits (line 80).  A        *)
(* critical section is therefore one action, and a thread inside Acquire   *)
(* is in one of the states of pc:                                          *)
(*   "out"       not in the pool and holding no connection                 *)
(*   "creating"  mu_ released, in CreateAndInitClient                      *)
(*   "waiting"   blocked in cond_.TimeWait                                 *)
(*   "woken"     TimeWait is over (signalled or spurious), mu_ not yet     *)
(*               taken again                                               *)
(*   "expired"   TimeWait timed out, mu_ not yet taken again               *)
(*   "using"     Acquire returned kOk, the connection is not released yet  *)
(* One thread borrows one connection at a time, as the pool's only caller  *)
(* RpcChannel::SendViaPool does.  There is ONE condition variable for all  *)
(* addresses, and Signal wakes any one of its waiters.                     *)
(***************************************************************************)
EXTENDS Integers, Sequences, FiniteSets

CONSTANTS
  Threads,       \* threads that call SendViaPool
  Addrs,         \* downstream addresses (the keys "ip:port" of pools_)
  Clients,       \* RpcClient objects that `new` can return
  Configs,       \* the (max, idle, acquire) triples SetConfig may be given
  MaxTime,       \* bound: the wall clock stays in 0..MaxTime
  ClockStepsBack,\* whether the wall clock may be set back
  NoAddr, NoClient

ASSUME ThreadsAssumption == IsFiniteSet(Threads)
ASSUME NoAddrAssumption == NoAddr \notin Addrs
ASSUME NoClientAssumption == NoClient \notin Clients
ASSUME ConfigsAssumption ==
  Configs \subseteq [max : Nat \ {0}, idle : Nat, acquire : Nat]
ASSUME MaxTimeAssumption == MaxTime \in Nat
ASSUME ClockAssumption == ClockStepsBack \in BOOLEAN

VARIABLES
  config,   \* max_conn_per_addr_, idle_timeout_ms_, acquire_timeout_ms_
  known,    \* the keys present in pools_
  idle,     \* AddrPool::idle_conns, front first
  total,    \* AddrPool::total_conns
  pc,       \* control state of each thread
  addr,     \* the address of the thread's current Acquire
  held,     \* the connection a thread borrowed
  deadline, \* absolute time limit of the thread's current TimeWait
  since,    \* when the thread's Acquire began to wait for the first time
  now       \* the wall clock read by NowMs and GetAbsTime

poolVars == <<known, idle, total>>
threadVars == <<pc, addr, held, deadline, since>>
vars == <<config, poolVars, threadVars, now>>

PC == {"out", "creating", "waiting", "woken", "expired", "using"}
IdleConn == [client : Clients, last_used_ms : Nat]

-----------------------------------------------------------------------------
\* Helpers

\* if (pool->total_conns > 0) pool->total_conns--, k times over
Decrement(n, k) == IF n > k THEN n - k ELSE 0

IdleClients(a) == {idle[a][i].client : i \in DOMAIN idle[a]}

\* Objects that exist: idle in some pool, or borrowed by some thread.
Live == (UNION {IdleClients(a) : a \in Addrs}) \cup {held[t] : t \in Threads}

\* An idle connection DropExpiredIdle reclaims; a last_used_ms in the
\* future (the clock was set back) counts as expired.
Expired(e) ==
  /\ config.idle # 0
  /\ ~ (now >= e.last_used_ms /\ now - e.last_used_ms < config.idle)

\* DropExpiredIdle removes exactly the first k entries of q: the loop stops
\* at the first entry that is not expired.
ExpiredPrefix(q, k) ==
  /\ \A i \in 1..k : Expired(q[i])
  /\ k < Len(q) => ~ Expired(q[k + 1])

Waiters(p) == {t \in Threads : p[t] = "waiting"}

\* cond_.Signal(): one waiter, of whatever address, or nobody.
Signal(p) == IF Waiters(p) = {} THEN {p}
             ELSE {[p EXCEPT ![w] = "woken"] : w \in Waiters(p)}

-----------------------------------------------------------------------------
Init ==
  /\ config \in Configs
  /\ known = {}
  /\ idle = [a \in Addrs |-> << >>]
  /\ total = [a \in Addrs |-> 0]
  /\ pc = [t \in Threads |-> "out"]
  /\ addr = [t \in Threads |-> NoAddr]
  /\ held = [t \in Threads |-> NoClient]
  /\ deadline = [t \in Threads |-> 0]
  /\ since = [t \in Threads |-> 0]
  /\ now = 0

\* The rest of the loop of Acquire, once DropExpiredIdle left q idle
\* connections of n in all.

\* A reuse that forgets pop_front.
ReuseIdle_NoPop(t, a, q, n) ==
  /\ q # << >>
  /\ idle' = [idle EXCEPT ![a] = q]
  /\ total' = [total EXCEPT ![a] = n]
  /\ pc' = [pc EXCEPT ![t] = "using"]
  /\ held' = [held EXCEPT ![t] = Head(q).client]
  /\ deadline' = [deadline EXCEPT ![t] = 0]
  /\ since' = [since EXCEPT ![t] = 0]

\* 1) reuse the idle connection at the front
ReuseIdle(t, a, q, n) ==
  /\ q # << >>
  /\ idle' = [idle EXCEPT ![a] = Tail(q)]
  /\ total' = [total EXCEPT ![a] = n]
  /\ pc' = [pc EXCEPT ![t] = "using"]
  /\ held' = [held EXCEPT ![t] = Head(q).client]
  /\ deadline' = [deadline EXCEPT ![t] = 0]
  /\ since' = [since EXCEPT ![t] = 0]

\* The limit off by one.
ReserveSlot_AtLimit(t, a, q, n) ==
  /\ q = << >>
  /\ n <= config.max
  /\ idle' = [idle EXCEPT ![a] = q]
  /\ total' = [total EXCEPT ![a] = n + 1]
  /\ pc' = [pc EXCEPT ![t] = "creating"]
  /\ deadline' = [deadline EXCEPT ![t] = 0]
  /\ since' = [since EXCEPT ![t] = 0]
  /\ UNCHANGED held

\* 2) below the limit: reserve a place and create with mu_ released
ReserveSlot(t, a, q, n) ==
  /\ q = << >>
  /\ n < config.max
  /\ idle' = [idle EXCEPT ![a] = q]
  /\ total' = [total EXCEPT ![a] = n + 1]
  /\ pc' = [pc EXCEPT ![t] = "creating"]
  /\ deadline' = [deadline EXCEPT ![t] = 0]
  /\ since' = [since EXCEPT ![t] = 0]
  /\ UNCHANGED held

\* 3) full and nothing idle: wait, each time for the whole acquire timeout
StartWait(t, a, q, n) ==
  /\ q = << >>
  /\ n >= config.max
  /\ idle' = [idle EXCEPT ![a] = q]
  /\ total' = [total EXCEPT ![a] = n]
  /\ pc' = [pc EXCEPT ![t] = "waiting"]
  /\ deadline' = [deadline EXCEPT ![t] = now + config.acquire]
  /\ since' = [since EXCEPT ![t] = IF pc[t] = "woken" THEN @ ELSE now]
  /\ UNCHANGED held

\* One turn of the while loop of Acquire.
AcquireLoop(t, a) ==
  \E k \in 0..Len(idle[a]) :
    /\ ExpiredPrefix(idle[a], k)
    /\ LET q == SubSeq(idle[a], k + 1, Len(idle[a]))
           n == Decrement(total[a], k)
       IN \/ ReuseIdle(t, a, q, n)
          \/ ReserveSlot(t, a, q, n)
          \/ StartWait(t, a, q, n)

-----------------------------------------------------------------------------
\* Actions of a thread

Acquire(t, a) ==
  /\ pc[t] = "out"
  /\ addr' = [addr EXCEPT ![t] = a]
  /\ known' = known \cup {a}
  /\ AcquireLoop(t, a)
  /\ UNCHANGED <<config, now>>

\* The signalled thread has mu_ again and takes another turn of the loop.
Resume(t) ==
  /\ pc[t] = "woken"
  /\ AcquireLoop(t, addr[t])
  /\ UNCHANGED <<addr, known, config, now>>

\* CreateAndInitClient returned kOk (a connection-class error of Init counts
\* as success too: the object reconnects when it is used).
CreateOk(t) ==
  /\ pc[t] = "creating"
  /\ \E c \in Clients \ Live : held' = [held EXCEPT ![t] = c]
  /\ pc' = [pc EXCEPT ![t] = "using"]
  /\ UNCHANGED <<config, poolVars, addr, deadline, since, now>>

\* A failed creation that keeps its place.
CreateFail_KeepsPlace(t) ==
  /\ pc[t] = "creating"
  /\ pc' \in Signal([pc EXCEPT ![t] = "out"])
  /\ addr' = [addr EXCEPT ![t] = NoAddr]
  /\ UNCHANGED <<config, known, total, idle, held, deadline, since, now>>

\* Init failed for good: the place is given back and Acquire returns.
CreateFail(t) ==
  /\ pc[t] = "creating"
  /\ total' = [total EXCEPT ![addr[t]] = Decrement(@, 1)]
  /\ pc' \in Signal([pc EXCEPT ![t] = "out"])
  /\ addr' = [addr EXCEPT ![t] = NoAddr]
  /\ UNCHANGED <<config, known, idle, held, deadline, since, now>>

\* pthread_cond_timedwait gives up; the thread still has to take mu_.
TimeWaitExpires(t) ==
  /\ pc[t] = "waiting"
  /\ now >= deadline[t]
  /\ pc' = [pc EXCEPT ![t] = "expired"]
  /\ UNCHANGED <<config, poolVars, addr, held, deadline, since, now>>

\* Acquire returns kTimeOut without looking at the pool again.
ReturnTimeOut(t) ==
  /\ pc[t] = "expired"
  /\ pc' = [pc EXCEPT ![t] = "out"]
  /\ addr' = [addr EXCEPT ![t] = NoAddr]
  /\ deadline' = [deadline EXCEPT ![t] = 0]
  /\ since' = [since EXCEPT ![t] = 0]
  /\ UNCHANGED <<config, poolVars, held, now>>

\* A condition variable may wake a waiter nobody signalled.
SpuriousWakeup(t) ==
  /\ pc[t] = "waiting"
  /\ pc' = [pc EXCEPT ![t] = "woken"]
  /\ UNCHANGED <<config, poolVars, addr, held, deadline, since, now>>

\* A return to the front of the queue.
ReleaseHealthy_PushFront(t) ==
  /\ pc[t] = "using"
  /\ idle' = [idle EXCEPT ![addr[t]] =
                <<[client |-> held[t], last_used_ms |-> now]>> \o @]
  /\ pc' \in Signal([pc EXCEPT ![t] = "out"])
  /\ addr' = [addr EXCEPT ![t] = NoAddr]
  /\ held' = [held EXCEPT ![t] = NoClient]
  /\ UNCHANGED <<config, known, total, deadline, since, now>>

\* Release(broken = false): back to the end of the idle queue.
ReleaseHealthy(t) ==
  /\ pc[t] = "using"
  /\ idle' = [idle EXCEPT ![addr[t]] =
                Append(@, [client |-> held[t], last_used_ms |-> now])]
  /\ pc' \in Signal([pc EXCEPT ![t] = "out"])
  /\ addr' = [addr EXCEPT ![t] = NoAddr]
  /\ held' = [held EXCEPT ![t] = NoClient]
  /\ UNCHANGED <<config, known, total, deadline, since, now>>

\* A broken connection discarded without a Signal.
ReleaseBroken_NoSignal(t) ==
  /\ pc[t] = "using"
  /\ total' = [total EXCEPT ![addr[t]] = Decrement(@, 1)]
  /\ pc' = [pc EXCEPT ![t] = "out"]
  /\ addr' = [addr EXCEPT ![t] = NoAddr]
  /\ held' = [held EXCEPT ![t] = NoClient]
  /\ UNCHANGED <<config, known, idle, deadline, since, now>>

\* Release(broken = true): the object is deleted.
ReleaseBroken(t) ==
  /\ pc[t] = "using"
  /\ total' = [total EXCEPT ![addr[t]] = Decrement(@, 1)]
  /\ pc' \in Signal([pc EXCEPT ![t] = "out"])
  /\ addr' = [addr EXCEPT ![t] = NoAddr]
  /\ held' = [held EXCEPT ![t] = NoClient]
  /\ UNCHANGED <<config, known, idle, deadline, since, now>>

-----------------------------------------------------------------------------
\* Actions of the rest of the process

\* DropAddr, called by the service manager's connection-drop hook; for an
\* address that is not in pools_ it does nothing.
DropAddr(a) ==
  /\ a \in known
  /\ idle' = [idle EXCEPT ![a] = << >>]
  /\ total' = [total EXCEPT ![a] = Decrement(@, Len(idle[a]))]
  /\ pc' \in Signal(pc)
  /\ UNCHANGED <<config, known, addr, held, deadline, since, now>>

\* SetConfig wakes nobody.
SetConfig(c) ==
  /\ config' = c
  /\ UNCHANGED <<poolVars, threadVars, now>>

\* The wall clock moves on, or is set back.
ClockTick ==
  /\ \E n \in 0..MaxTime : (n > now \/ ClockStepsBack) /\ now' = n
  /\ UNCHANGED <<config, poolVars, threadVars>>

Next ==
  \/ \E t \in Threads :
       \/ \E a \in Addrs : Acquire(t, a)
       \/ Resume(t)
       \/ CreateOk(t)
       \/ CreateFail(t)
       \/ TimeWaitExpires(t)
       \/ ReturnTimeOut(t)
       \/ SpuriousWakeup(t)
       \/ ReleaseHealthy(t)
       \/ ReleaseBroken(t)
  \/ \E a \in Addrs : DropAddr(a)
  \/ \E c \in Configs : SetConfig(c)
  \/ ClockTick

Spec == Init /\ [][Next]_vars

-----------------------------------------------------------------------------
(* Properties *)

\* Type invariant.
TypeOK ==
  /\ config \in Configs
  /\ known \subseteq Addrs
  /\ idle \in [Addrs -> Seq(IdleConn)]
  /\ total \in [Addrs -> Nat]
  /\ pc \in [Threads -> PC]
  /\ addr \in [Threads -> Addrs \cup {NoAddr}]
  /\ held \in [Threads -> Clients \cup {NoClient}]
  /\ deadline \in [Threads -> Nat]
  /\ since \in [Threads -> Nat]
  /\ now \in 0..MaxTime

\* Threads that own one of the places of address a: they use a borrowed
\* connection or are creating one.
Owners(a) == {t \in Threads : addr[t] = a /\ pc[t] \in {"creating", "using"}}

\* total_conns of every address is exactly its idle connections plus the ones
\* in use or being created, although the counter is reserved before an
\* unlocked creation and decremented at five places under an
\* `if (total_conns > 0)` that would hide a miscount.
Accounting == \A a \in Addrs : total[a] = Len(idle[a]) + Cardinality(Owners(a))

\* No address ever has more connections, idle and in use, than the largest
\* limit SetConfig was given, creations outside mu_ included.
LimitRespected == \A a \in Addrs : \E c \in Configs : total[a] <= c.max

\* A connection has one owner: it is never borrowed by two threads, borrowed
\* while idle, idle twice or idle under two addresses (so what Release,
\* DropAddr or DropExpiredIdle deletes is in nobody's hands).
ExclusiveOwnership ==
  /\ \A t, u \in Threads :
       (held[t] # NoClient /\ held[t] = held[u]) => t = u
  /\ \A t \in Threads, a \in Addrs : held[t] \notin IdleClients(a)
  /\ \A a, b \in Addrs : \A i \in DOMAIN idle[a], j \in DOMAIN idle[b] :
       idle[a][i].client = idle[b][j].client => a = b /\ i = j

WaitingFor(a) == {t \in Threads : addr[t] = a /\ pc[t] = "waiting"}
WokenFor(a) == {t \in Threads : addr[t] = a /\ pc[t] = "woken"}

\* What an Acquire of a could have right now: idle connections and free places.
Available(a) == Len(idle[a]) + Decrement(config.max, total[a])

\* A thread sleeps in TimeWait only while its address has nothing to give it,
\* or while enough woken threads of that address are on their way to take it:
\* no Signal of Release, DropAddr or a failed creation is lost.
NoStrandedWaiter ==
  \A a \in Addrs :
    WaitingFor(a) # {} => Available(a) <= Cardinality(WokenFor(a))

\* idle_conns is ordered from the oldest to the newest return, which is what
\* lets DropExpiredIdle stop at the first entry that has not expired.
IdleOldestFirst ==
  \A a \in Addrs : \A i, j \in DOMAIN idle[a] :
    i <= j => idle[a][i].last_used_ms <= idle[a][j].last_used_ms

\* acquire_timeout_ms is the longest wait of an Acquire: no TimeWait of it
\* runs past that long after the Acquire began to wait.
WaitBounded ==
  \A t \in Threads :
    pc[t] = "waiting" => deadline[t] <= since[t] + config.acquire

\* Acquire returns kTimeOut only when the pool of the address is full.
TimeOutOnlyWhenFull ==
  [][\A t \in Threads :
       (pc[t] = "expired" /\ pc'[t] = "out") => Available(addr[t]) = 0]_vars
=============================================================================
