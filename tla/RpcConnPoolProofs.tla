------------------------- MODULE RpcConnPoolProofs -------------------------
(***************************************************************************)
(* Proofs about RpcConnPool, for every set of threads, addresses,          *)
(* connections and configurations.  The inductive invariant IInv joins the *)
(* type invariant, the agreement of a thread's control state with what it  *)
(* holds (ThreadState), the exact counters (Accounting) and the single     *)
(* owner of every connection (ExclusiveOwnership).                         *)
(***************************************************************************)
EXTENDS RpcConnPool, FiniteSetTheorems, SequenceTheorems, TLAPS

\* A thread has an address exactly while it is inside Acquire or uses a
\* connection, and a connection exactly while it uses one.
ThreadState ==
  \A t \in Threads :
    /\ (pc[t] = "out") <=> (addr[t] = NoAddr)
    /\ (pc[t] = "using") <=> (held[t] # NoClient)

-----------------------------------------------------------------------------
\* The helpers

\* k saturating decrements of n: a natural number, and n - k when n >= k.
LEMMA DecrementType ==
  ASSUME NEW n \in Nat, NEW k \in Nat
  PROVE  /\ Decrement(n, k) \in Nat
         /\ k <= n => Decrement(n, k) = n - k
         /\ Decrement(n, k) <= n
  BY DEF Decrement

\* Signal turns at most one waiting thread into a woken one and leaves every
\* other thread as it was.
LEMMA SignalEffect ==
  ASSUME NEW p \in [Threads -> PC], NEW r \in Signal(p)
  PROVE  /\ r \in [Threads -> PC]
         /\ \A t \in Threads : r[t] = p[t] \/ (p[t] = "waiting" /\ r[t] = "woken")
  <1>1. CASE Waiters(p) = {}
    BY <1>1 DEF Signal
  <1>2. CASE Waiters(p) # {}
    <2>1. PICK w \in Waiters(p) : r = [p EXCEPT ![w] = "woken"]
      BY <1>2 DEF Signal
    <2>2. w \in Threads /\ p[w] = "waiting"
      BY <2>1 DEF Waiters
    <2>3. r \in [Threads -> PC]
      BY <2>1, <2>2 DEF PC
    <2>4. ASSUME NEW t \in Threads
          PROVE  r[t] = p[t] \/ (p[t] = "waiting" /\ r[t] = "woken")
      BY <2>1, <2>2
    <2>5. QED
      BY <2>3, <2>4
  <1>3. QED
    BY <1>1, <1>2

\* What DropExpiredIdle leaves of the idle queue is a suffix of it.
LEMMA LoopEffect ==
  ASSUME TypeOK, NEW t \in Threads, NEW a \in Addrs, AcquireLoop(t, a)
  PROVE  \E k \in Nat, q \in Seq(IdleConn) :
           /\ k <= Len(idle[a])
           /\ Len(q) = Len(idle[a]) - k
           /\ \A i \in 1..Len(q) : q[i] = idle[a][i + k]
           /\ \/ ReuseIdle(t, a, q, Decrement(total[a], k))
              \/ ReserveSlot(t, a, q, Decrement(total[a], k))
              \/ StartWait(t, a, q, Decrement(total[a], k))
  <1> DEFINE s == idle[a]
  <1>1. s \in Seq(IdleConn)
    BY DEF TypeOK
  <1>2. Len(s) \in Nat /\ DOMAIN s = 1..Len(s)
    BY <1>1, LenProperties
  <1>3. PICK k \in 0..Len(s) :
           \/ ReuseIdle(t, a, SubSeq(s, k + 1, Len(s)), Decrement(total[a], k))
           \/ ReserveSlot(t, a, SubSeq(s, k + 1, Len(s)), Decrement(total[a], k))
           \/ StartWait(t, a, SubSeq(s, k + 1, Len(s)), Decrement(total[a], k))
    BY DEF AcquireLoop
  <1> DEFINE q == SubSeq(s, k + 1, Len(s))
  <1>4. k \in Nat /\ k <= Len(s) /\ k + 1 \in Int /\ Len(s) \in Int
    BY <1>2, <1>3
  <1>5. \A i \in (k + 1)..Len(s) : s[i] \in IdleConn
    BY <1>1, <1>2, <1>4, ElementOfSeq
  <1> HIDE DEF s
  <1>6. /\ q \in Seq(IdleConn)
        /\ Len(q) = IF k + 1 <= Len(s) THEN Len(s) - (k + 1) + 1 ELSE 0
        /\ \A i \in 1..(Len(s) - (k + 1) + 1) : q[i] = s[k + 1 + i - 1]
    BY <1>4, <1>5, SubSeqProperties
  <1>7. Len(q) = Len(s) - k
    BY <1>4, <1>6
  <1> HIDE DEF q
  <1>8. \A i \in 1..Len(q) : q[i] = s[i + k]
    <2> TAKE i \in 1..Len(q)
    <2>1. i \in 1..(Len(s) - (k + 1) + 1) /\ k + 1 + i - 1 = i + k
      BY <1>4, <1>7
    <2> QED
      BY <1>6, <2>1
  <1>9. QED
    BY <1>3, <1>4, <1>6, <1>7, <1>8 DEF q, s

-----------------------------------------------------------------------------
\* Type correctness

\* A turn of the loop of Acquire keeps the types of what it assigns and ends
\* with a borrowed connection, a reserved place or a wait.
LEMMA LoopType ==
  ASSUME TypeOK, NEW t \in Threads, NEW a \in Addrs, AcquireLoop(t, a)
  PROVE  /\ idle' \in [Addrs -> Seq(IdleConn)]
         /\ total' \in [Addrs -> Nat]
         /\ pc' \in [Threads -> PC]
         /\ held' \in [Threads -> Clients \cup {NoClient}]
         /\ deadline' \in [Threads -> Nat]
         /\ since' \in [Threads -> Nat]
         /\ \A u \in Threads \ {t} : pc'[u] = pc[u] /\ held'[u] = held[u]
         /\ \/ pc'[t] = "using" /\ held'[t] \in Clients
            \/ pc'[t] \in {"creating", "waiting"} /\ held'[t] = held[t]
  <1>1. PICK k \in Nat, q \in Seq(IdleConn) :
           \/ ReuseIdle(t, a, q, Decrement(total[a], k))
           \/ ReserveSlot(t, a, q, Decrement(total[a], k))
           \/ StartWait(t, a, q, Decrement(total[a], k))
    BY LoopEffect
  <1> DEFINE n == Decrement(total[a], k)
  <1>2. n \in Nat
    BY <1>1, DecrementType DEF TypeOK
  <1> HIDE DEF n
  <1>3. config \in [max : Nat \ {0}, idle : Nat, acquire : Nat] /\ now \in Nat
    BY ConfigsAssumption, MaxTimeAssumption DEF TypeOK
  <1>4. CASE ReuseIdle(t, a, q, n)
    <2>1. Head(q) \in IdleConn /\ Tail(q) \in Seq(IdleConn)
      BY <1>4, HeadTailProperties DEF ReuseIdle
    <2>2. Head(q).client \in Clients
      BY <2>1 DEF IdleConn
    <2> QED
      BY <1>2, <1>4, <2>1, <2>2 DEF ReuseIdle, TypeOK, PC
  <1>5. CASE ReserveSlot(t, a, q, n)
    BY <1>2, <1>5 DEF ReserveSlot, TypeOK, PC
  <1>6. CASE StartWait(t, a, q, n)
    <2>1. now + config.acquire \in Nat
      BY <1>3
    <2> QED
      BY <1>2, <1>3, <1>6, <2>1 DEF StartWait, TypeOK, PC
  <1>7. QED
    BY <1>1, <1>4, <1>5, <1>6 DEF n

\* A thread leaves the pool and signals: it is out, and at most waiting
\* threads were woken.
LEMMA LeaveEffect ==
  ASSUME TypeOK, NEW t \in Threads, pc' \in Signal([pc EXCEPT ![t] = "out"])
  PROVE  /\ pc' \in [Threads -> PC]
         /\ pc'[t] = "out"
         /\ \A u \in Threads \ {t} :
              pc'[u] = pc[u] \/ (pc[u] = "waiting" /\ pc'[u] = "woken")
  <1>1. [pc EXCEPT ![t] = "out"] \in [Threads -> PC]
    BY DEF TypeOK, PC
  <1>2. /\ pc' \in [Threads -> PC]
        /\ \A u \in Threads :
             \/ pc'[u] = [pc EXCEPT ![t] = "out"][u]
             \/ [pc EXCEPT ![t] = "out"][u] = "waiting" /\ pc'[u] = "woken"
    BY <1>1, SignalEffect
  <1>3. QED
    BY <1>2 DEF TypeOK

\* Every step keeps the types and the agreement of pc, addr and held.
LEMMA TypeStep ==
  ASSUME TypeOK, ThreadState, [Next]_vars
  PROVE  TypeOK' /\ ThreadState'
  <1> USE DEF TypeOK, ThreadState
  <1>1. ASSUME NEW t \in Threads, NEW a \in Addrs, Acquire(t, a)
        PROVE  TypeOK' /\ ThreadState'
    <2>1. a # NoAddr
      BY NoAddrAssumption
    <2>2. AcquireLoop(t, a)
      BY <1>1 DEF Acquire
    <2> QED
      BY <1>1, <2>1, <2>2, LoopType, NoClientAssumption, ZenonT(60) DEF Acquire
  <1>2. ASSUME NEW t \in Threads, Resume(t)
        PROVE  TypeOK' /\ ThreadState'
    <2>1. addr[t] \in Addrs
      BY <1>2 DEF Resume
    <2>2. AcquireLoop(t, addr[t])
      BY <1>2 DEF Resume
    <2> QED
      BY <1>2, <2>1, <2>2, LoopType, NoClientAssumption, ZenonT(60) DEF Resume
  <1>3. ASSUME NEW t \in Threads, CreateOk(t)
        PROVE  TypeOK' /\ ThreadState'
    BY <1>3, NoClientAssumption DEF CreateOk, poolVars, PC
  <1>4. ASSUME NEW t \in Threads, CreateFail(t)
        PROVE  TypeOK' /\ ThreadState'
    <2>1. addr[t] \in Addrs
      BY <1>4 DEF CreateFail
    <2>2. Decrement(total[addr[t]], 1) \in Nat
      BY <2>1, DecrementType
    <2>3. /\ pc' \in [Threads -> PC]
          /\ pc'[t] = "out"
          /\ \A u \in Threads \ {t} :
               pc'[u] = pc[u] \/ (pc[u] = "waiting" /\ pc'[u] = "woken")
      BY <1>4, LeaveEffect DEF CreateFail
    <2> QED
      BY <1>4, <2>1, <2>2, <2>3 DEF CreateFail
  <1>5. ASSUME NEW t \in Threads, TimeWaitExpires(t)
        PROVE  TypeOK' /\ ThreadState'
    BY <1>5 DEF TimeWaitExpires, poolVars, PC
  <1>6. ASSUME NEW t \in Threads, ReturnTimeOut(t)
        PROVE  TypeOK' /\ ThreadState'
    BY <1>6 DEF ReturnTimeOut, poolVars, PC
  <1>7. ASSUME NEW t \in Threads, SpuriousWakeup(t)
        PROVE  TypeOK' /\ ThreadState'
    BY <1>7 DEF SpuriousWakeup, poolVars, PC
  <1>8. ASSUME NEW t \in Threads, ReleaseHealthy(t)
        PROVE  TypeOK' /\ ThreadState'
    <2>1. addr[t] \in Addrs /\ held[t] \in Clients
      BY <1>8 DEF ReleaseHealthy
    <2>2. [client |-> held[t], last_used_ms |-> now] \in IdleConn
      BY <2>1, MaxTimeAssumption DEF IdleConn
    <2>3. Append(idle[addr[t]], [client |-> held[t], last_used_ms |-> now])
            \in Seq(IdleConn)
      BY <2>1, <2>2, AppendProperties
    <2>4. /\ pc' \in [Threads -> PC]
          /\ pc'[t] = "out"
          /\ \A u \in Threads \ {t} :
               pc'[u] = pc[u] \/ (pc[u] = "waiting" /\ pc'[u] = "woken")
      BY <1>8, LeaveEffect DEF ReleaseHealthy
    <2> QED
      BY <1>8, <2>1, <2>3, <2>4 DEF ReleaseHealthy
  <1>9. ASSUME NEW t \in Threads, ReleaseBroken(t)
        PROVE  TypeOK' /\ ThreadState'
    <2>1. addr[t] \in Addrs
      BY <1>9 DEF ReleaseBroken
    <2>2. Decrement(total[addr[t]], 1) \in Nat
      BY <2>1, DecrementType
    <2>3. /\ pc' \in [Threads -> PC]
          /\ pc'[t] = "out"
          /\ \A u \in Threads \ {t} :
               pc'[u] = pc[u] \/ (pc[u] = "waiting" /\ pc'[u] = "woken")
      BY <1>9, LeaveEffect DEF ReleaseBroken
    <2> QED
      BY <1>9, <2>1, <2>2, <2>3 DEF ReleaseBroken
  <1>10. ASSUME NEW a \in Addrs, DropAddr(a)
         PROVE  TypeOK' /\ ThreadState'
    <2>1. Decrement(total[a], Len(idle[a])) \in Nat
      BY DecrementType, LenProperties
    <2>2. pc' \in Signal(pc)
      BY <1>10 DEF DropAddr
    <2> QED
      BY <1>10, <2>1, <2>2, SignalEffect, EmptySeq, ZenonT(60) DEF DropAddr
  <1>11. ASSUME NEW c \in Configs, SetConfig(c)
         PROVE  TypeOK' /\ ThreadState'
    BY <1>11 DEF SetConfig, poolVars, threadVars
  <1>12. CASE ClockTick
    BY <1>12 DEF ClockTick, poolVars, threadVars
  <1>13. CASE UNCHANGED vars
    BY <1>13 DEF vars, poolVars, threadVars
  <1>14. QED
    BY <1>1, <1>2, <1>3, <1>4, <1>5, <1>6, <1>7, <1>8, <1>9, <1>10, <1>11,
       <1>12, <1>13 DEF Next

\* The type invariant holds in every reachable state.
THEOREM TypeCorrect == Spec => []TypeOK
  <1>1. Init => TypeOK /\ ThreadState
    BY MaxTimeAssumption, EmptySeq DEF Init, TypeOK, ThreadState, PC
  <1>2. TypeOK /\ ThreadState /\ [Next]_vars => TypeOK' /\ ThreadState'
    BY TypeStep
  <1>3. QED
    BY <1>1, <1>2, PTL DEF Spec

-----------------------------------------------------------------------------
\* The counters

\* Owners is a finite set of threads.
LEMMA OwnersFinite ==
  ASSUME NEW a
  PROVE  /\ IsFiniteSet(Owners(a)) /\ Cardinality(Owners(a)) \in Nat
         /\ IsFiniteSet(Owners(a)') /\ Cardinality(Owners(a)') \in Nat
  <1>1. Owners(a) \in SUBSET Threads /\ Owners(a)' \in SUBSET Threads
    BY DEF Owners
  <1>2. QED
    BY <1>1, ThreadsAssumption, FS_Subset, FS_CardinalityType

\* A turn of the loop keeps the counters exact and within the limit.
LEMMA LoopAccounting ==
  ASSUME TypeOK, Accounting, LimitRespected,
         NEW t \in Threads, NEW a \in Addrs, AcquireLoop(t, a),
         pc[t] \in {"out", "woken"}, addr' = [addr EXCEPT ![t] = a]
  PROVE  Accounting' /\ LimitRespected'
  <1>1. PICK k \in Nat, q \in Seq(IdleConn) :
           /\ k <= Len(idle[a])
           /\ Len(q) = Len(idle[a]) - k
           /\ \/ ReuseIdle(t, a, q, Decrement(total[a], k))
              \/ ReserveSlot(t, a, q, Decrement(total[a], k))
              \/ StartWait(t, a, q, Decrement(total[a], k))
    BY LoopEffect
  <1>2. Len(idle[a]) \in Nat /\ total[a] \in Nat /\ Len(q) \in Nat
    BY LenProperties DEF TypeOK
  <1>3. total[a] = Len(idle[a]) + Cardinality(Owners(a))
    BY DEF Accounting
  <1> DEFINE n == Decrement(total[a], k)
  <1>4. n = Len(q) + Cardinality(Owners(a)) /\ n \in Nat /\ n <= total[a]
    <2>1. Cardinality(Owners(a)) \in Nat
      BY OwnersFinite
    <2>2. k <= total[a]
      BY <1>1, <1>2, <1>3, <2>1
    <2>3. n = total[a] - k
      BY <1>2, <2>2, DecrementType
    <2> QED
      BY <1>1, <1>2, <1>3, <2>1, <2>3
  <1> HIDE DEF n
  <1>5. PICK c \in Configs : total[a] <= c.max
    BY DEF LimitRespected
  <1>6. config.max \in Nat /\ c.max \in Nat /\ config \in Configs
    BY ConfigsAssumption DEF TypeOK
  <1>7. t \notin Owners(a)
    BY DEF Owners
  <1>8. /\ \A b \in Addrs \ {a} : idle'[b] = idle[b] /\ total'[b] = total[b]
        /\ \A u \in Threads \ {t} : pc'[u] = pc[u] /\ addr'[u] = addr[u]
        /\ addr'[t] = a
    BY <1>1 DEF ReuseIdle, ReserveSlot, StartWait, TypeOK
  <1>9. \A b \in Addrs \ {a} : Owners(b)' = Owners(b)
    BY <1>8 DEF Owners
  <1>10. CASE ReuseIdle(t, a, q, n)
    <2>1. Owners(a)' = Owners(a) \cup {t}
      BY <1>8, <1>10 DEF ReuseIdle, Owners, TypeOK
    <2>2. Cardinality(Owners(a)') = Cardinality(Owners(a)) + 1
      BY <1>7, <2>1, OwnersFinite, FS_AddElement
    <2>3. Len(idle'[a]) = Len(q) - 1 /\ total'[a] = n
      BY <1>10, HeadTailProperties DEF ReuseIdle, TypeOK
    <2>4. total'[a] = Len(idle'[a]) + Cardinality(Owners(a)')
      BY <1>2, <1>4, <2>2, <2>3, OwnersFinite, SMTT(30)
    <2>5. total'[a] <= c.max
      BY <1>2, <1>4, <1>5, <1>6, <2>3
    <2> QED
      BY <1>5, <1>8, <1>9, <2>4, <2>5 DEF Accounting, LimitRespected
  <1>11. CASE ReserveSlot(t, a, q, n)
    <2>1. Owners(a)' = Owners(a) \cup {t}
      BY <1>8, <1>11 DEF ReserveSlot, Owners, TypeOK
    <2>2. Cardinality(Owners(a)') = Cardinality(Owners(a)) + 1
      BY <1>7, <2>1, OwnersFinite, FS_AddElement
    <2>3. idle'[a] = q /\ total'[a] = n + 1 /\ n < config.max
      BY <1>11 DEF ReserveSlot, TypeOK
    <2>4. total'[a] = Len(idle'[a]) + Cardinality(Owners(a)')
      BY <1>2, <1>4, <2>2, <2>3, OwnersFinite
    <2>5. total'[a] <= config.max
      BY <1>4, <1>6, <2>3
    <2> QED
      BY <1>6, <1>8, <1>9, <2>4, <2>5 DEF Accounting, LimitRespected
  <1>12. CASE StartWait(t, a, q, n)
    <2>1. Owners(a)' = Owners(a)
      BY <1>8, <1>12 DEF StartWait, Owners, TypeOK
    <2>2. idle'[a] = q /\ total'[a] = n
      BY <1>12 DEF StartWait, TypeOK
    <2>3. total'[a] = Len(idle'[a]) + Cardinality(Owners(a)')
      BY <1>4, <2>1, <2>2
    <2>4. total'[a] <= c.max
      BY <1>2, <1>4, <1>5, <1>6, <2>2
    <2> QED
      BY <1>5, <1>8, <1>9, <2>3, <2>4 DEF Accounting, LimitRespected
  <1>13. QED
    BY <1>1, <1>10, <1>11, <1>12 DEF n

\* A thread that gives up a place of address a is no longer one of its owners,
\* and the owners of the other addresses stay.
LEMMA LeaveOwners ==
  ASSUME TypeOK, NEW t \in Threads, pc[t] \in {"creating", "using"},
         NEW a \in Addrs, addr[t] = a,
         pc' \in Signal([pc EXCEPT ![t] = "out"]),
         addr' = [addr EXCEPT ![t] = NoAddr]
  PROVE  /\ Cardinality(Owners(a)) >= 1
         /\ Cardinality(Owners(a)') = Cardinality(Owners(a)) - 1
         /\ \A b \in Addrs \ {a} : Owners(b)' = Owners(b)
  <1>1. t \in Owners(a)
    BY DEF Owners
  <1>2. /\ pc'[t] = "out"
        /\ \A u \in Threads \ {t} :
             /\ addr'[u] = addr[u]
             /\ pc'[u] = pc[u] \/ (pc[u] = "waiting" /\ pc'[u] = "woken")
    BY LeaveEffect DEF TypeOK
  <1>3. Owners(a)' = {u \in Threads : addr'[u] = a /\ pc'[u] \in {"creating", "using"}}
    BY DEF Owners
  <1>4. {u \in Threads : addr'[u] = a /\ pc'[u] \in {"creating", "using"}}
           = Owners(a) \ {t}
    BY <1>2 DEF Owners
  <1>5. \A b \in Addrs \ {a} : Owners(b)' = Owners(b)
    BY <1>2 DEF Owners
  <1>6. Cardinality(Owners(a) \ {t}) = Cardinality(Owners(a)) - 1
    BY <1>1, OwnersFinite, FS_RemoveElement
  <1>7. Cardinality(Owners(a) \ {t}) \in Nat
    BY OwnersFinite, FS_RemoveElement, FS_CardinalityType
  <1>8. Cardinality(Owners(a)) \in Nat
    BY OwnersFinite
  <1>9. Owners(a)' = Owners(a) \ {t}
    BY <1>3, <1>4
  <1>10. Cardinality(Owners(a)) >= 1
    BY <1>6, <1>7, <1>8
  <1>11. QED
    BY <1>5, <1>6, <1>9, <1>10

\* The counters stay exact when a thread leaves with its connection deleted
\* or never created.
LEMMA LeaveAccounting ==
  ASSUME TypeOK, Accounting, LimitRespected, NEW t \in Threads,
         pc[t] \in {"creating", "using"}, NEW a \in Addrs, addr[t] = a,
         pc' \in Signal([pc EXCEPT ![t] = "out"]),
         addr' = [addr EXCEPT ![t] = NoAddr],
         total' = [total EXCEPT ![a] = Decrement(@, 1)], idle' = idle
  PROVE  Accounting' /\ LimitRespected'
  <1>1. /\ Cardinality(Owners(a)) >= 1
        /\ Cardinality(Owners(a)') = Cardinality(Owners(a)) - 1
        /\ \A b \in Addrs \ {a} : Owners(b)' = Owners(b)
    BY LeaveOwners
  <1>2. Len(idle[a]) \in Nat /\ total[a] \in Nat /\ Cardinality(Owners(a)) \in Nat
    BY LenProperties, OwnersFinite DEF TypeOK
  <1>3. total[a] = Len(idle[a]) + Cardinality(Owners(a))
    BY DEF Accounting
  <1>4. total'[a] = total[a] - 1
    <2>1. total'[a] = Decrement(total[a], 1)
      BY DEF TypeOK
    <2> QED
      BY <1>1, <1>2, <1>3, <2>1 DEF Decrement
  <1>5. \A b \in Addrs \ {a} : total'[b] = total[b]
    BY DEF TypeOK
  <1>6. total'[a] = Len(idle'[a]) + Cardinality(Owners(a)')
    BY <1>1, <1>2, <1>3, <1>4
  <1>7. Accounting'
    BY <1>1, <1>5, <1>6 DEF Accounting
  <1>8. PICK c \in Configs : total[a] <= c.max
    BY DEF LimitRespected
  <1>9. total'[a] <= c.max
    BY <1>2, <1>4, <1>8, ConfigsAssumption
  <1>10. QED
    BY <1>5, <1>7, <1>8, <1>9 DEF LimitRespected

\* Every step keeps the counters exact and within the limit.
LEMMA AccountingStep ==
  ASSUME TypeOK, ThreadState, Accounting, LimitRespected, [Next]_vars
  PROVE  Accounting' /\ LimitRespected'
  <1>1. ASSUME NEW t \in Threads, NEW a \in Addrs, Acquire(t, a)
        PROVE  Accounting' /\ LimitRespected'
    BY <1>1, LoopAccounting DEF Acquire
  <1>2. ASSUME NEW t \in Threads, Resume(t)
        PROVE  Accounting' /\ LimitRespected'
    <2>1. PICK a \in Addrs : a = addr[t]
      BY <1>2 DEF Resume, TypeOK, ThreadState
    <2>2. addr' = [addr EXCEPT ![t] = a]
      BY <1>2, <2>1 DEF Resume, TypeOK
    <2>3. AcquireLoop(t, a) /\ pc[t] \in {"out", "woken"}
      BY <1>2, <2>1 DEF Resume
    <2> QED
      BY <2>2, <2>3, LoopAccounting
  <1>3. ASSUME NEW t \in Threads, CreateOk(t)
        PROVE  Accounting' /\ LimitRespected'
    <2>1. \A a \in Addrs : Owners(a)' = Owners(a)
      BY <1>3 DEF CreateOk, Owners, TypeOK
    <2> QED
      BY <1>3, <2>1 DEF CreateOk, poolVars, Accounting, LimitRespected
  <1>4. ASSUME NEW t \in Threads, CreateFail(t) \/ ReleaseBroken(t)
        PROVE  Accounting' /\ LimitRespected'
    <2>1. PICK a \in Addrs : addr[t] = a
      BY <1>4 DEF CreateFail, ReleaseBroken, TypeOK, ThreadState
    <2> QED
      BY <1>4, <2>1, LeaveAccounting DEF CreateFail, ReleaseBroken
  <1>5. ASSUME NEW t \in Threads,
               TimeWaitExpires(t) \/ ReturnTimeOut(t) \/ SpuriousWakeup(t)
        PROVE  Accounting' /\ LimitRespected'
    <2>1. \A a \in Addrs : Owners(a)' = Owners(a)
      BY <1>5 DEF TimeWaitExpires, ReturnTimeOut, SpuriousWakeup, Owners, TypeOK
    <2> QED
      BY <1>5, <2>1 DEF TimeWaitExpires, ReturnTimeOut, SpuriousWakeup,
                        poolVars, Accounting, LimitRespected
  <1>6. ASSUME NEW t \in Threads, ReleaseHealthy(t)
        PROVE  Accounting' /\ LimitRespected'
    <2>1. PICK a \in Addrs : addr[t] = a
      BY <1>6 DEF ReleaseHealthy, TypeOK, ThreadState
    <2>2. /\ Cardinality(Owners(a)') = Cardinality(Owners(a)) - 1
          /\ \A b \in Addrs \ {a} : Owners(b)' = Owners(b)
      BY <1>6, <2>1, LeaveOwners DEF ReleaseHealthy
    <2>3. [client |-> held[t], last_used_ms |-> now] \in IdleConn
      BY <1>6, MaxTimeAssumption DEF ReleaseHealthy, ThreadState, TypeOK, IdleConn
    <2>4. Len(idle'[a]) = Len(idle[a]) + 1
      BY <1>6, <2>1, <2>3, AppendProperties DEF ReleaseHealthy, TypeOK
    <2>5. \A b \in Addrs \ {a} : idle'[b] = idle[b]
      BY <1>6, <2>1 DEF ReleaseHealthy, TypeOK
    <2>6. Len(idle[a]) \in Nat /\ Cardinality(Owners(a)) \in Nat
      BY LenProperties, OwnersFinite DEF TypeOK
    <2>7. Len(idle'[a]) + Cardinality(Owners(a)') = Len(idle[a]) + Cardinality(Owners(a))
      BY <2>2, <2>4, <2>6
    <2>8. total' = total
      BY <1>6 DEF ReleaseHealthy
    <2> QED
      BY <2>2, <2>5, <2>7, <2>8 DEF Accounting, LimitRespected
  <1>7. ASSUME NEW a \in Addrs, DropAddr(a)
        PROVE  Accounting' /\ LimitRespected'
    <2>1. \A b \in Addrs : Owners(b)' = Owners(b)
      <3>1. \A u \in Threads : /\ addr'[u] = addr[u]
                               /\ pc'[u] = pc[u] \/ (pc[u] = "waiting" /\ pc'[u] = "woken")
        BY <1>7, SignalEffect DEF DropAddr, TypeOK
      <3> QED
        BY <3>1 DEF Owners
    <2>2. /\ Len(idle[a]) \in Nat /\ total[a] \in Nat
          /\ Cardinality(Owners(a)) \in Nat
          /\ total[a] = Len(idle[a]) + Cardinality(Owners(a))
      BY LenProperties, OwnersFinite DEF TypeOK, Accounting
    <2>3. total'[a] = Decrement(total[a], Len(idle[a])) /\ idle'[a] = << >>
      BY <1>7 DEF DropAddr, TypeOK
    <2>4. total'[a] = Cardinality(Owners(a))
      BY <2>2, <2>3 DEF Decrement
    <2>5. Len(idle'[a]) = 0
      BY <2>3, EmptySeq
    <2>6. \A b \in Addrs \ {a} : idle'[b] = idle[b] /\ total'[b] = total[b]
      BY <1>7 DEF DropAddr, TypeOK
    <2>7. Accounting'
      BY <2>1, <2>2, <2>4, <2>5, <2>6 DEF Accounting
    <2>8. PICK c \in Configs : total[a] <= c.max
      BY DEF LimitRespected
    <2>9. total'[a] <= c.max
      BY <2>2, <2>4, <2>8, ConfigsAssumption
    <2> QED
      BY <2>6, <2>7, <2>8, <2>9 DEF LimitRespected
  <1>8. ASSUME NEW c \in Configs, SetConfig(c)
        PROVE  Accounting' /\ LimitRespected'
    BY <1>8 DEF SetConfig, poolVars, threadVars, Accounting, LimitRespected, Owners
  <1>9. CASE ClockTick
    BY <1>9 DEF ClockTick, poolVars, threadVars, Accounting, LimitRespected, Owners
  <1>10. CASE UNCHANGED vars
    BY <1>10 DEF vars, poolVars, threadVars, Accounting, LimitRespected, Owners
  <1>11. QED
    BY <1>1, <1>2, <1>3, <1>4, <1>5, <1>6, <1>7, <1>8, <1>9, <1>10 DEF Next

\* The counters are exact before the first Acquire.
LEMMA AccountingInit == Init => Accounting /\ LimitRespected
  <1> SUFFICES ASSUME Init
               PROVE  Accounting /\ LimitRespected
    OBVIOUS
  <1>1. ASSUME NEW a \in Addrs
        PROVE  /\ total[a] = Len(idle[a]) + Cardinality(Owners(a))
               /\ \E c \in Configs : total[a] <= c.max
    <2>1. Owners(a) = {} /\ total[a] = 0 /\ idle[a] = << >>
      BY DEF Init, Owners
    <2>2. Cardinality(Owners(a)) = 0 /\ Len(idle[a]) = 0
      BY <2>1, FS_EmptySet, EmptySeq
    <2>3. config \in Configs /\ config.max \in Nat
      BY ConfigsAssumption DEF Init
    <2> QED
      BY <2>1, <2>2, <2>3
  <1>2. QED
    BY <1>1 DEF Accounting, LimitRespected

\* total_conns counts exactly the idle connections, the borrowed ones and the
\* ones being created, and never exceeds the largest configured limit.
THEOREM CountersExact == Spec => [](Accounting /\ LimitRespected)
  <1> DEFINE Inv == TypeOK /\ ThreadState /\ Accounting /\ LimitRespected
  <1>1. Init => Inv
    BY AccountingInit, MaxTimeAssumption, EmptySeq
       DEF Init, TypeOK, ThreadState, PC
  <1>2. Inv /\ [Next]_vars => Inv'
    BY TypeStep, AccountingStep
  <1>3. QED
    BY <1>1, <1>2, PTL DEF Spec

\* No address ever has more connections than the largest limit SetConfig was given.
THEOREM LimitKept == Spec => []LimitRespected
  <1>1. [](Accounting /\ LimitRespected) => []LimitRespected
    BY PTL
  <1>2. QED
    BY <1>1, CountersExact, PTL

-----------------------------------------------------------------------------
\* One owner for every connection

\* A turn of the loop of Acquire keeps a single owner for every connection:
\* what stays idle was idle before, and what it borrows was at the front of
\* the connections that stayed.
LEMMA LoopOwnership ==
  ASSUME TypeOK, ExclusiveOwnership, NEW t \in Threads, NEW a \in Addrs,
         AcquireLoop(t, a), held[t] = NoClient
  PROVE  ExclusiveOwnership'
  <1>1. PICK k \in Nat, q \in Seq(IdleConn) :
           /\ k <= Len(idle[a])
           /\ Len(q) = Len(idle[a]) - k
           /\ \A i \in 1..Len(q) : q[i] = idle[a][i + k]
           /\ \/ ReuseIdle(t, a, q, Decrement(total[a], k))
              \/ ReserveSlot(t, a, q, Decrement(total[a], k))
              \/ StartWait(t, a, q, Decrement(total[a], k))
    BY LoopEffect
  <1> DEFINE n == Decrement(total[a], k)
  <1> HIDE DEF n
  <1>2. /\ \A b \in Addrs : DOMAIN idle[b] = 1..Len(idle[b]) /\ Len(idle[b]) \in Nat
        /\ DOMAIN q = 1..Len(q) /\ Len(q) \in Nat
    BY LenProperties DEF TypeOK
  <1>3. CASE ReuseIdle(t, a, q, n)
    <2>1. /\ Tail(q) \in Seq(IdleConn) /\ Len(Tail(q)) = Len(q) - 1
          /\ \A i \in 1..Len(Tail(q)) : Tail(q)[i] = q[i + 1]
          /\ Head(q) = q[1] /\ Len(q) >= 1
      BY <1>2, <1>3, HeadTailProperties, EmptySeq DEF ReuseIdle
    <2>2. DOMAIN Tail(q) = 1..Len(Tail(q))
      BY <2>1, LenProperties
    <2>3. \A i \in DOMAIN Tail(q) :
            i + k + 1 \in DOMAIN idle[a] /\ Tail(q)[i] = idle[a][i + k + 1]
      <3> TAKE i \in DOMAIN Tail(q)
      <3>1. i \in 1..(Len(q) - 1) /\ i + 1 \in 1..Len(q)
        BY <1>2, <2>1, <2>2
      <3>2. Tail(q)[i] = q[i + 1] /\ q[i + 1] = idle[a][(i + 1) + k]
        BY <1>1, <2>1, <2>2, <3>1
      <3>3. i \in Int /\ k \in Int /\ Len(idle[a]) \in Int
        BY <1>1, <1>2, <3>1
      <3>4. (i + 1) + k = i + k + 1 /\ i + k + 1 \in 1..Len(idle[a])
        BY <1>1, <3>1, <3>3
      <3> QED
        BY <1>2, <3>2, <3>4
    <2>4. 1 + k \in DOMAIN idle[a] /\ Head(q) = idle[a][1 + k]
      <3>1. 1 \in 1..Len(q) /\ 1 + k \in 1..Len(idle[a])
        BY <1>1, <1>2, <2>1
      <3> QED
        BY <1>1, <1>2, <2>1, <3>1
    <2>5. /\ idle' = [idle EXCEPT ![a] = Tail(q)]
          /\ held' = [held EXCEPT ![t] = idle[a][1 + k].client]
      BY <1>3, <2>4 DEF ReuseIdle
    <2>6. \A b \in Addrs : \A i \in DOMAIN idle'[b] :
            \E j \in DOMAIN idle[b] :
               /\ idle'[b][i] = idle[b][j]
               /\ j = IF b = a THEN i + k + 1 ELSE i
      BY <2>3, <2>5 DEF TypeOK
    <2>7. ASSUME NEW u \in Threads, NEW v \in Threads,
                 held'[u] # NoClient, held'[u] = held'[v]
          PROVE  u = v
      BY <2>4, <2>5, <2>7 DEF ExclusiveOwnership, TypeOK, IdleClients
    <2>8. ASSUME NEW u \in Threads, NEW b \in Addrs, NEW i \in DOMAIN idle'[b]
          PROVE  held'[u] # idle'[b][i].client
      <3>1. PICK j \in DOMAIN idle[b] :
               idle'[b][i] = idle[b][j] /\ j = IF b = a THEN i + k + 1 ELSE i
        BY <2>6
      <3>2. CASE u # t
        <4>1. held'[u] = held[u]
          BY <2>5, <3>2 DEF TypeOK
        <4>2. idle[b][j].client \in IdleClients(b)
          BY <3>1 DEF IdleClients
        <4>3. held[u] \notin IdleClients(b)
          BY DEF ExclusiveOwnership
        <4> QED
          BY <3>1, <4>1, <4>2, <4>3
      <3>3. CASE u = t
        <4>1. held'[u] = idle[a][1 + k].client
          BY <2>5, <3>3 DEF TypeOK
        <4>2. b = a => i \in 1..Len(Tail(q))
          BY <2>2, <2>5 DEF TypeOK
        <4>3. ~(b = a /\ j = 1 + k)
          BY <1>1, <1>2, <2>1, <3>1, <4>2
        <4> QED
          BY <2>4, <3>1, <4>1, <4>3 DEF ExclusiveOwnership
      <3> QED
        BY <3>2, <3>3
    <2>9. ASSUME NEW b \in Addrs, NEW c \in Addrs,
                 NEW i \in DOMAIN idle'[b], NEW j \in DOMAIN idle'[c],
                 idle'[b][i].client = idle'[c][j].client
          PROVE  b = c /\ i = j
      <3>1. PICK ii \in DOMAIN idle[b] :
               idle'[b][i] = idle[b][ii] /\ ii = IF b = a THEN i + k + 1 ELSE i
        BY <2>6
      <3>2. PICK jj \in DOMAIN idle[c] :
               idle'[c][j] = idle[c][jj] /\ jj = IF c = a THEN j + k + 1 ELSE j
        BY <2>6
      <3>3. b = c /\ ii = jj
        BY <2>9, <3>1, <3>2 DEF ExclusiveOwnership
      <3>4. b = a => i \in 1..Len(Tail(q)) /\ j \in 1..Len(Tail(q))
        BY <2>2, <2>5, <3>3 DEF TypeOK
      <3> QED
        BY <1>1, <1>2, <2>1, <3>1, <3>2, <3>3, <3>4
    <2> QED
      BY <2>7, <2>8, <2>9 DEF ExclusiveOwnership, IdleClients
  <1>4. CASE ReserveSlot(t, a, q, n) \/ StartWait(t, a, q, n)
    <2>1. /\ idle' = [idle EXCEPT ![a] = << >>]
          /\ held' = held
      BY <1>4 DEF ReserveSlot, StartWait
    <2>2. DOMAIN << >> = {}
      OBVIOUS
    <2>3. \A b \in Addrs : \A i \in DOMAIN idle'[b] : b # a /\ idle'[b] = idle[b]
      BY <2>1, <2>2 DEF TypeOK
    <2> QED
      BY <2>1, <2>3 DEF ExclusiveOwnership, IdleClients
  <1>5. QED
    BY <1>1, <1>3, <1>4 DEF n

\* Every step keeps a single owner for every connection.
LEMMA OwnershipStep ==
  ASSUME TypeOK, ThreadState, ExclusiveOwnership, [Next]_vars
  PROVE  ExclusiveOwnership'
  <1>1. ASSUME NEW t \in Threads, NEW a \in Addrs, Acquire(t, a)
        PROVE  ExclusiveOwnership'
    BY <1>1, LoopOwnership DEF Acquire, ThreadState
  <1>2. ASSUME NEW t \in Threads, Resume(t)
        PROVE  ExclusiveOwnership'
    <2>1. PICK a \in Addrs : a = addr[t]
      BY <1>2 DEF Resume, TypeOK, ThreadState
    <2> QED
      BY <1>2, <2>1, LoopOwnership DEF Resume, ThreadState
  <1>3. ASSUME NEW t \in Threads, CreateOk(t)
        PROVE  ExclusiveOwnership'
    <2>1. PICK c \in Clients \ Live : held' = [held EXCEPT ![t] = c]
      BY <1>3 DEF CreateOk
    <2>2. /\ \A u \in Threads : held[u] # c
          /\ \A a \in Addrs : c \notin IdleClients(a)
      <3>1. \A u \in Threads : held[u] \in Live
        BY DEF Live
      <3>2. ASSUME NEW a \in Addrs, NEW x \in IdleClients(a)
            PROVE  x \in Live
        <4> DEFINE S == {IdleClients(b) : b \in Addrs}
        <4>1. IdleClients(a) \in S
          OBVIOUS
        <4>2. x \in UNION S
          BY <4>1
        <4> QED
          BY <4>2 DEF Live
      <3> QED
        BY <2>1, <3>1, <3>2
    <2>3. \A u \in Threads : held'[u] = IF u = t THEN c ELSE held[u]
      BY <2>1 DEF TypeOK
    <2>4. idle' = idle /\ \A a \in Addrs : IdleClients(a)' = IdleClients(a)
      BY <1>3 DEF CreateOk, poolVars, IdleClients
    <2> QED
      BY <2>2, <2>3, <2>4 DEF ExclusiveOwnership
  <1>4. ASSUME NEW t \in Threads, ReleaseHealthy(t)
        PROVE  ExclusiveOwnership'
    <2>1. PICK a \in Addrs : a = addr[t]
      BY <1>4 DEF ReleaseHealthy, TypeOK, ThreadState
    <2> DEFINE e == [client |-> held[t], last_used_ms |-> now]
    <2>2. held[t] \in Clients /\ held[t] # NoClient /\ e \in IdleConn
      BY <1>4, MaxTimeAssumption DEF ReleaseHealthy, ThreadState, TypeOK, IdleConn
    <2>3. idle' = [idle EXCEPT ![a] = Append(@, e)] /\ held' = [held EXCEPT ![t] = NoClient]
      BY <1>4, <2>1 DEF ReleaseHealthy
    <2>4. idle[a] \in Seq(IdleConn) /\ Len(idle[a]) \in Nat /\ DOMAIN idle[a] = 1..Len(idle[a])
      BY LenProperties DEF TypeOK
    <2>5. /\ Append(idle[a], e) \in Seq(IdleConn)
          /\ Len(Append(idle[a], e)) = Len(idle[a]) + 1
          /\ \A i \in 1..Len(idle[a]) : Append(idle[a], e)[i] = idle[a][i]
          /\ Append(idle[a], e)[Len(idle[a]) + 1] = e
      BY <2>2, <2>4, AppendProperties
    <2>6. DOMAIN Append(idle[a], e) = 1..(Len(idle[a]) + 1)
      BY <2>5, LenProperties
    <2>7. \A b \in Addrs : \A i \in DOMAIN idle'[b] :
             \/ i \in DOMAIN idle[b] /\ idle'[b][i] = idle[b][i]
             \/ b = a /\ i = Len(idle[a]) + 1 /\ idle'[b][i].client = held[t]
      <3> TAKE b \in Addrs
      <3>1. CASE b # a
        BY <2>3, <3>1 DEF TypeOK
      <3>2. CASE b = a
        <4>1. idle'[b] = Append(idle[a], e)
          BY <2>3, <3>2 DEF TypeOK
        <4> TAKE i \in DOMAIN idle'[b]
        <4>2. i \in 1..Len(idle[a]) \/ i = Len(idle[a]) + 1
          BY <2>4, <2>6, <4>1
        <4> QED
          BY <2>4, <2>5, <3>2, <4>1, <4>2
      <3> QED
        BY <3>1, <3>2
    <2>8. \A b \in Addrs : \A i \in DOMAIN idle[b] : idle[b][i].client # held[t]
      BY DEF ExclusiveOwnership, IdleClients
    <2>9. \A u \in Threads : held'[u] = IF u = t THEN NoClient ELSE held[u]
      BY <2>3 DEF TypeOK
    <2>10. \A b \in Addrs : \A i \in DOMAIN idle[b] : idle[b][i].client # NoClient
      <3> TAKE b \in Addrs
      <3> TAKE i \in DOMAIN idle[b]
      <3>1. idle[b][i] \in IdleConn
        BY LenProperties, ElementOfSeq DEF TypeOK
      <3> QED
        BY <3>1, NoClientAssumption DEF IdleConn
    <2>11. \A u, v \in Threads : (held'[u] # NoClient /\ held'[u] = held'[v]) => u = v
      BY <2>9 DEF ExclusiveOwnership
    <2>12. \A u \in Threads, b \in Addrs : \A i \in DOMAIN idle'[b] :
             held'[u] # idle'[b][i].client
      BY <2>2, <2>7, <2>9, <2>10 DEF ExclusiveOwnership, IdleClients
    <2>13. \A b, c \in Addrs : \A i \in DOMAIN idle'[b], j \in DOMAIN idle'[c] :
             idle'[b][i].client = idle'[c][j].client => b = c /\ i = j
      BY <2>7, <2>8 DEF ExclusiveOwnership
    <2> QED
      BY <2>11, <2>12, <2>13 DEF ExclusiveOwnership, IdleClients
  <1>5. ASSUME NEW t \in Threads, ReleaseBroken(t)
        PROVE  ExclusiveOwnership'
    <2>1. idle' = idle /\ \A a \in Addrs : IdleClients(a)' = IdleClients(a)
      BY <1>5 DEF ReleaseBroken, IdleClients
    <2>2. \A u \in Threads : held'[u] = IF u = t THEN NoClient ELSE held[u]
      BY <1>5 DEF ReleaseBroken, TypeOK
    <2>3. \A a \in Addrs : NoClient \notin IdleClients(a)
      <3> TAKE a \in Addrs
      <3>1. \A i \in DOMAIN idle[a] : idle[a][i] \in IdleConn
        BY LenProperties, ElementOfSeq DEF TypeOK
      <3> QED
        BY <3>1, NoClientAssumption DEF IdleConn, IdleClients
    <2> QED
      BY <2>1, <2>2, <2>3 DEF ExclusiveOwnership
  <1>6. ASSUME NEW a \in Addrs, DropAddr(a)
        PROVE  ExclusiveOwnership'
    <2>1. idle' = [idle EXCEPT ![a] = << >>] /\ held' = held
      BY <1>6 DEF DropAddr
    <2>2. \A b \in Addrs : \A i \in DOMAIN idle'[b] : b # a /\ idle'[b] = idle[b]
      BY <2>1 DEF TypeOK
    <2> QED
      BY <2>1, <2>2 DEF ExclusiveOwnership, IdleClients
  <1>7. ASSUME NEW t \in Threads,
               \/ CreateFail(t) \/ TimeWaitExpires(t)
               \/ ReturnTimeOut(t) \/ SpuriousWakeup(t)
        PROVE  ExclusiveOwnership'
    BY <1>7 DEF CreateFail, TimeWaitExpires, ReturnTimeOut, SpuriousWakeup,
                poolVars, ExclusiveOwnership, IdleClients
  <1>8. CASE (\E c \in Configs : SetConfig(c)) \/ ClockTick \/ UNCHANGED vars
    BY <1>8 DEF SetConfig, ClockTick, vars, poolVars, threadVars,
                ExclusiveOwnership, IdleClients
  <1>9. QED
    BY <1>1, <1>2, <1>3, <1>4, <1>5, <1>6, <1>7, <1>8 DEF Next

\* A connection of the pool never has two owners, so nothing that Release,
\* DropAddr or DropExpiredIdle deletes is in use.
THEOREM SingleOwner == Spec => []ExclusiveOwnership
  <1> DEFINE Inv == TypeOK /\ ThreadState /\ ExclusiveOwnership
  <1>1. Init => Inv
    BY MaxTimeAssumption, EmptySeq
       DEF Init, TypeOK, ThreadState, PC, ExclusiveOwnership, IdleClients
  <1>2. Inv /\ [Next]_vars => Inv'
    BY TypeStep, OwnershipStep
  <1>3. QED
    BY <1>1, <1>2, PTL DEF Spec

-----------------------------------------------------------------------------
\* No lost wakeup when there is one address

\* While some thread keeps waiting, a Signal did wake another one.
LEMMA SignalWakes ==
  ASSUME NEW p \in [Threads -> PC], NEW r \in Signal(p),
         NEW u \in Threads, r[u] = "waiting"
  PROVE  \E w \in Threads : p[w] = "waiting" /\ r = [p EXCEPT ![w] = "woken"]
  <1>1. Waiters(p) # {}
    BY DEF Signal, Waiters
  <1>2. QED
    BY <1>1 DEF Signal, Waiters

\* The sets of woken threads are finite.
LEMMA WokenFinite ==
  ASSUME NEW a
  PROVE  /\ IsFiniteSet(WokenFor(a)) /\ Cardinality(WokenFor(a)) \in Nat
         /\ IsFiniteSet(WokenFor(a)') /\ Cardinality(WokenFor(a)') \in Nat
  <1>1. WokenFor(a) \in SUBSET Threads /\ WokenFor(a)' \in SUBSET Threads
    BY DEF WokenFor
  <1>2. QED
    BY <1>1, ThreadsAssumption, FS_Subset, FS_CardinalityType

\* Within the limit, Available is what an Acquire can take.
LEMMA AvailableWithinLimit ==
  ASSUME TypeOK, NEW a \in Addrs, total[a] <= config.max
  PROVE  /\ Len(idle[a]) \in Nat /\ total[a] \in Nat /\ config.max \in Nat
         /\ Available(a) = Len(idle[a]) + (config.max - total[a])
         /\ Available(a) \in Nat
  <1>1. Len(idle[a]) \in Nat /\ total[a] \in Nat /\ config.max \in Nat
    BY LenProperties, ConfigsAssumption DEF TypeOK
  <1>2. QED
    BY <1>1 DEF Available, Decrement

\* A turn of the loop takes one thing that is available, or waits when there
\* is none; it takes the thread out of the woken ones.
LEMMA LoopStranding ==
  ASSUME TypeOK, Accounting, NoStrandedWaiter, \A b \in Addrs : total[b] <= config.max,
         NEW t \in Threads, NEW a \in Addrs, AcquireLoop(t, a),
         pc[t] = "out" \/ (pc[t] = "woken" /\ addr[t] = a),
         addr' = [addr EXCEPT ![t] = a], config' = config,
         \A b \in Addrs : b = a
  PROVE  NoStrandedWaiter'
  <1>1. PICK k \in Nat, q \in Seq(IdleConn) :
           /\ k <= Len(idle[a])
           /\ Len(q) = Len(idle[a]) - k
           /\ \/ ReuseIdle(t, a, q, Decrement(total[a], k))
              \/ ReserveSlot(t, a, q, Decrement(total[a], k))
              \/ StartWait(t, a, q, Decrement(total[a], k))
    BY LoopEffect
  <1>2. /\ Len(idle[a]) \in Nat /\ total[a] \in Nat /\ config.max \in Nat
        /\ Available(a) = Len(idle[a]) + (config.max - total[a])
        /\ Available(a) \in Nat
        /\ total[a] <= config.max
    BY AvailableWithinLimit
  <1> DEFINE n == Decrement(total[a], k)
  <1>3. n = total[a] - k /\ n \in Nat
    <2>1. Cardinality(Owners(a)) \in Nat /\ total[a] = Len(idle[a]) + Cardinality(Owners(a))
      BY OwnersFinite DEF Accounting
    <2>2. k <= total[a]
      BY <1>1, <1>2, <2>1
    <2> QED
      BY <1>2, <2>2, DecrementType
  <1> HIDE DEF n
  <1>4. Cardinality(WokenFor(a)) \in Nat /\ Cardinality(WokenFor(a)') \in Nat
    BY WokenFinite
  <1>5. \A u \in Threads \ {t} : pc'[u] = pc[u] /\ addr'[u] = addr[u]
    BY <1>1 DEF ReuseIdle, ReserveSlot, StartWait, TypeOK
  <1>6. pc'[t] # "woken" /\ addr'[t] = a
    BY <1>1 DEF ReuseIdle, ReserveSlot, StartWait, TypeOK
  <1>7. Cardinality(WokenFor(a)') >= Cardinality(WokenFor(a)) - 1
    <2>1. WokenFor(a)' = WokenFor(a) \ {t}
      BY <1>5, <1>6 DEF WokenFor
    <2>2. \/ Cardinality(WokenFor(a) \ {t}) = Cardinality(WokenFor(a)) - 1
          \/ Cardinality(WokenFor(a) \ {t}) = Cardinality(WokenFor(a))
      BY WokenFinite, FS_RemoveElement
    <2> QED
      BY <1>4, <2>1, <2>2
  <1>8. ASSUME pc'[t] # "waiting"
        PROVE  WaitingFor(a)' # {} => WaitingFor(a) # {}
    BY <1>5, <1>8 DEF WaitingFor
  <1>9. CASE ReuseIdle(t, a, q, n)
    <2>1. Len(q) >= 1 /\ Len(idle'[a]) = Len(q) - 1 /\ total'[a] = n /\ pc'[t] # "waiting"
      BY <1>1, <1>9, HeadTailProperties, EmptySeq DEF ReuseIdle, TypeOK
    <2>2. Available(a)' = Len(q) - 1 + Decrement(config.max, n)
      BY <2>1 DEF Available
    <2>3. Decrement(config.max, n) = config.max - n
      BY <1>1, <1>2, <1>3, SMTT(30) DEF Decrement
    <2>4. Available(a)' = Available(a) - 1
      <3>1. Len(q) = Len(idle[a]) - k
        BY <1>1
      <3>2. Available(a)' = Len(idle[a]) - k - 1 + (config.max - (total[a] - k))
        BY <1>3, <2>2, <2>3, <3>1
      <3> QED
        BY <1>2, <3>2, SMTT(30)
    <2>5. WaitingFor(a)' # {} => Available(a) <= Cardinality(WokenFor(a))
      BY <1>8, <2>1 DEF NoStrandedWaiter
    <2>6. WaitingFor(a)' # {} => Available(a)' <= Cardinality(WokenFor(a)')
      BY <1>2, <1>4, <1>7, <2>4, <2>5
    <2> QED
      BY <2>6 DEF NoStrandedWaiter
  <1>10. CASE ReserveSlot(t, a, q, n)
    <2>1. Len(q) = 0 /\ idle'[a] = q /\ total'[a] = n + 1 /\ n < config.max /\ pc'[t] # "waiting"
      BY <1>10, EmptySeq DEF ReserveSlot, TypeOK
    <2>2. Available(a)' = 0 + Decrement(config.max, n + 1)
      BY <2>1 DEF Available
    <2>3. Decrement(config.max, n + 1) = config.max - (n + 1)
      BY <1>2, <1>3, <2>1 DEF Decrement
    <2>4. Available(a)' = Available(a) - 1
      <3>1. k = Len(idle[a])
        BY <1>1, <1>2, <2>1
      <3>2. Available(a)' = 0 + (config.max - (total[a] - Len(idle[a]) + 1))
        BY <1>3, <2>2, <2>3, <3>1
      <3> QED
        BY <1>2, <3>2, SMTT(30)
    <2>5. WaitingFor(a)' # {} => Available(a) <= Cardinality(WokenFor(a))
      BY <1>8, <2>1 DEF NoStrandedWaiter
    <2>6. WaitingFor(a)' # {} => Available(a)' <= Cardinality(WokenFor(a)')
      BY <1>2, <1>4, <1>7, <2>4, <2>5
    <2> QED
      BY <2>6 DEF NoStrandedWaiter
  <1>11. CASE StartWait(t, a, q, n)
    <2>1. Len(q) = 0 /\ idle'[a] = q /\ total'[a] = n /\ n >= config.max
      BY <1>11, EmptySeq DEF StartWait, TypeOK
    <2>2. Available(a)' = 0
      BY <1>2, <1>3, <2>1 DEF Available, Decrement
    <2>3. Available(a)' <= Cardinality(WokenFor(a)')
      BY <1>4, <2>2
    <2> QED
      BY <2>3 DEF NoStrandedWaiter
  <1>12. QED
    BY <1>1, <1>9, <1>10, <1>11 DEF n

\* A step that makes at most one more thing available and signals does not
\* strand a waiter: every waiter is one of that address.
LEMMA SignalStranding ==
  ASSUME TypeOK, ThreadState, NoStrandedWaiter, NEW a \in Addrs, \A b \in Addrs : b = a,
         NEW p \in [Threads -> PC], pc' \in Signal(p),
         Available(a) \in Nat, Available(a)' \in Nat, Available(a)' <= Available(a) + 1,
         \A u \in Threads :
            \/ p[u] = pc[u] /\ addr'[u] = addr[u]
            \/ p[u] = "out" /\ pc[u] \notin {"waiting", "woken"}
  PROVE  NoStrandedWaiter'
  <1>1. SUFFICES ASSUME WaitingFor(a)' # {}
                 PROVE  Available(a)' <= Cardinality(WokenFor(a)')
    BY DEF NoStrandedWaiter
  <1>2. PICK u \in Threads : pc'[u] = "waiting" /\ addr'[u] = a
    BY <1>1 DEF WaitingFor
  <1>3. PICK w \in Threads : p[w] = "waiting" /\ pc' = [p EXCEPT ![w] = "woken"]
    BY <1>2, SignalWakes
  <1>4. pc[w] = "waiting" /\ addr'[w] = addr[w] /\ addr[w] = a
    BY <1>3 DEF ThreadState, TypeOK
  <1>5. WaitingFor(a) # {}
    BY <1>4 DEF WaitingFor
  <1>6. WokenFor(a)' = WokenFor(a) \cup {w} /\ w \notin WokenFor(a)
    BY <1>3, <1>4 DEF WokenFor
  <1>7. Cardinality(WokenFor(a)') = Cardinality(WokenFor(a)) + 1
    BY <1>6, WokenFinite, FS_AddElement
  <1>8. Available(a) <= Cardinality(WokenFor(a))
    BY <1>5 DEF NoStrandedWaiter
  <1>9. Cardinality(WokenFor(a)) \in Nat /\ Cardinality(WokenFor(a)') \in Nat
    BY WokenFinite
  <1>10. QED
    BY <1>7, <1>8, <1>9

\* A step that changes nothing that is available and wakes nobody strands no
\* waiter if it adds no waiter and takes no woken thread away.
LEMMA QuietStranding ==
  ASSUME NoStrandedWaiter, NEW a \in Addrs, \A b \in Addrs : b = a,
         Available(a)' = Available(a), Available(a) \in Nat,
         WaitingFor(a)' \subseteq WaitingFor(a), WokenFor(a) \subseteq WokenFor(a)'
  PROVE  NoStrandedWaiter'
  <1>1. Cardinality(WokenFor(a)) <= Cardinality(WokenFor(a)')
    <2>1. WokenFor(a) \in SUBSET (WokenFor(a)') /\ IsFiniteSet(WokenFor(a)')
      BY WokenFinite
    <2> QED
      BY <2>1, FS_Subset
  <1>2. Cardinality(WokenFor(a)) \in Nat /\ Cardinality(WokenFor(a)') \in Nat
    BY WokenFinite
  <1>3. WaitingFor(a)' # {} => Available(a) <= Cardinality(WokenFor(a))
    BY DEF NoStrandedWaiter
  <1>4. WaitingFor(a)' # {} => Available(a)' <= Cardinality(WokenFor(a)')
    BY <1>1, <1>2, <1>3
  <1>5. QED
    BY <1>4 DEF NoStrandedWaiter

\* With one address and one configuration no step strands a waiter.
LEMMA StrandingStep ==
  ASSUME \A a, b \in Addrs : a = b, \A c, d \in Configs : c = d,
         TypeOK, ThreadState, Accounting, LimitRespected, NoStrandedWaiter,
         TypeOK', Accounting', LimitRespected', [Next]_vars
  PROVE  NoStrandedWaiter'
  <1>1. config' = config
    BY DEF TypeOK
  <1>2. /\ \A a \in Addrs : total[a] <= config.max
        /\ \A a \in Addrs : total'[a] <= config.max
    <2>1. \A c \in Configs : c = config
      BY DEF TypeOK
    <2> QED
      BY <2>1 DEF LimitRespected
  <1>3. ASSUME NEW a \in Addrs
        PROVE  /\ Len(idle[a]) \in Nat /\ total[a] \in Nat /\ config.max \in Nat
               /\ Available(a) = Len(idle[a]) + (config.max - total[a])
               /\ Available(a) \in Nat
               /\ Len(idle'[a]) \in Nat /\ total'[a] \in Nat
               /\ Available(a)' = Len(idle'[a]) + (config.max - total'[a])
               /\ Available(a)' \in Nat
    <2>1. /\ Len(idle[a]) \in Nat /\ total[a] \in Nat /\ config.max \in Nat
          /\ Available(a) = Len(idle[a]) + (config.max - total[a])
          /\ Available(a) \in Nat
      BY <1>2, AvailableWithinLimit
    <2>2. Len(idle'[a]) \in Nat /\ total'[a] \in Nat
      BY LenProperties DEF TypeOK
    <2>3. Available(a)' = Len(idle'[a]) + Decrement(config.max, total'[a])
      BY <1>1 DEF Available
    <2>4. Decrement(config.max, total'[a]) = config.max - total'[a]
      BY <1>2, <2>1, <2>2 DEF Decrement
    <2>5. Available(a)' \in Nat
      BY <1>2, <2>1, <2>2, <2>3, <2>4
    <2> QED
      BY <2>1, <2>2, <2>3, <2>4, <2>5
  <1>4. ASSUME NEW t \in Threads, NEW a \in Addrs, Acquire(t, a)
        PROVE  NoStrandedWaiter'
    BY <1>1, <1>2, <1>4, LoopStranding DEF Acquire
  <1>5. ASSUME NEW t \in Threads, Resume(t)
        PROVE  NoStrandedWaiter'
    <2>1. PICK a \in Addrs : a = addr[t]
      BY <1>5 DEF Resume, TypeOK, ThreadState
    <2>2. addr' = [addr EXCEPT ![t] = a]
      BY <1>5, <2>1 DEF Resume, TypeOK
    <2>3. AcquireLoop(t, a) /\ pc[t] = "woken" /\ addr[t] = a
      BY <1>5, <2>1 DEF Resume
    <2> QED
      BY <1>1, <1>2, <2>2, <2>3, LoopStranding
  <1>6. ASSUME NEW t \in Threads, CreateFail(t) \/ ReleaseHealthy(t) \/ ReleaseBroken(t)
        PROVE  NoStrandedWaiter'
    <2>1. PICK a \in Addrs : a = addr[t]
      BY <1>6 DEF CreateFail, ReleaseHealthy, ReleaseBroken, TypeOK, ThreadState
    <2> DEFINE p == [pc EXCEPT ![t] = "out"]
    <2>2. p \in [Threads -> PC] /\ pc' \in Signal(p)
      BY <1>6 DEF CreateFail, ReleaseHealthy, ReleaseBroken, TypeOK, PC
    <2>3. \A u \in Threads : \/ p[u] = pc[u] /\ addr'[u] = addr[u]
                             \/ p[u] = "out" /\ pc[u] \notin {"waiting", "woken"}
      BY <1>6 DEF CreateFail, ReleaseHealthy, ReleaseBroken, TypeOK
    <2>4. Available(a)' <= Available(a) + 1
      <3>1. CASE CreateFail(t) \/ ReleaseBroken(t)
        <4>1. idle' = idle /\ total'[a] = Decrement(total[a], 1)
          BY <2>1, <3>1 DEF CreateFail, ReleaseBroken, TypeOK
        <4>2. total'[a] >= total[a] - 1
          BY <1>3, <4>1 DEF Decrement
        <4> QED
          BY <1>3, <4>1, <4>2, SMTT(30)
      <3>2. CASE ReleaseHealthy(t)
        <4>1. [client |-> held[t], last_used_ms |-> now] \in IdleConn
          BY <3>2, MaxTimeAssumption DEF ReleaseHealthy, ThreadState, TypeOK, IdleConn
        <4>2. Len(idle'[a]) = Len(idle[a]) + 1 /\ total' = total
          BY <2>1, <3>2, <4>1, AppendProperties DEF ReleaseHealthy, TypeOK
        <4> QED
          BY <1>3, <4>2
      <3> QED
        BY <1>6, <3>1, <3>2
    <2> HIDE DEF p
    <2> QED
      BY <1>3, <2>2, <2>3, <2>4, SignalStranding
  <1>7. ASSUME NEW a \in Addrs, DropAddr(a)
        PROVE  NoStrandedWaiter'
    <2>1. Available(a)' <= Available(a) + 1
      <3>1. idle'[a] = << >> /\ total'[a] = Decrement(total[a], Len(idle[a]))
        BY <1>7 DEF DropAddr, TypeOK
      <3>2. Len(idle'[a]) = 0
        BY <3>1, EmptySeq
      <3>3. Cardinality(Owners(a)) \in Nat /\ total[a] = Len(idle[a]) + Cardinality(Owners(a))
        BY OwnersFinite DEF Accounting
      <3>4. total'[a] = total[a] - Len(idle[a])
        BY <1>3, <3>1, <3>3 DEF Decrement
      <3>5. Available(a)' = 0 + (config.max - (total[a] - Len(idle[a])))
        BY <1>3, <3>2, <3>4
      <3>6. Available(a)' = Available(a)
        BY <1>3, <3>5
      <3> QED
        BY <1>3, <3>6
    <2>2. pc \in [Threads -> PC] /\ pc' \in Signal(pc) /\ addr' = addr
      BY <1>7 DEF DropAddr, TypeOK
    <2> QED
      BY <1>3, <2>1, <2>2, SignalStranding
  <1>8. ASSUME NEW a \in Addrs, \/ \E t \in Threads : \/ CreateOk(t) \/ TimeWaitExpires(t)
                                                      \/ ReturnTimeOut(t) \/ SpuriousWakeup(t)
                                \/ \E c \in Configs : SetConfig(c)
                                \/ ClockTick
                                \/ UNCHANGED vars
        PROVE  NoStrandedWaiter'
    <2>1. idle' = idle /\ total' = total
      BY <1>8 DEF CreateOk, TimeWaitExpires, ReturnTimeOut, SpuriousWakeup,
                  SetConfig, ClockTick, vars, poolVars, threadVars
    <2>2. Available(a)' = Available(a)
      BY <1>1, <2>1 DEF Available
    <2>3. \A u \in Threads :
            \/ pc'[u] = pc[u] /\ addr'[u] = addr[u]
            \/ pc[u] # "woken" /\ pc'[u] # "waiting"
      BY <1>8, SMTT(30) DEF CreateOk, TimeWaitExpires, ReturnTimeOut, SpuriousWakeup,
                  SetConfig, ClockTick, vars, poolVars, threadVars, TypeOK
    <2>4. WaitingFor(a)' \subseteq WaitingFor(a) /\ WokenFor(a) \subseteq WokenFor(a)'
      BY <2>3 DEF WaitingFor, WokenFor
    <2> QED
      BY <1>3, <2>2, <2>4, QuietStranding
  <1>9. CASE Addrs = {}
    BY <1>9 DEF NoStrandedWaiter
  <1>10. QED
    BY <1>4, <1>5, <1>6, <1>7, <1>8, <1>9 DEF Next

\* With one downstream address and a configuration that does not change, one
\* Signal per returned place is enough: no thread sleeps in Acquire while its
\* address has an idle connection or a free place nobody is on the way to take.
THEOREM OneAddressNoStranding ==
  ASSUME \A a, b \in Addrs : a = b, \A c, d \in Configs : c = d
  PROVE  Spec => []NoStrandedWaiter
  <1> DEFINE Inv == TypeOK /\ ThreadState /\ Accounting /\ LimitRespected /\ NoStrandedWaiter
  <1>1. Init => Inv
    <2>1. Init => NoStrandedWaiter
      BY DEF Init, NoStrandedWaiter, WaitingFor
    <2> QED
      BY <2>1, AccountingInit, MaxTimeAssumption, EmptySeq
         DEF Init, TypeOK, ThreadState, PC
  <1>2. Inv /\ [Next]_vars => Inv'
    BY TypeStep, AccountingStep, StrandingStep
  <1>3. QED
    BY <1>1, <1>2, PTL DEF Spec

-----------------------------------------------------------------------------
\* The order of the idle connections

\* The queues are ordered by the times of return, which have passed.
IdleByAge ==
  /\ IdleOldestFirst
  /\ \A a \in Addrs : \A i \in DOMAIN idle[a] : idle[a][i].last_used_ms <= now

\* A suffix of every queue is ordered as the queue was.
LEMMA SuffixByAge ==
  ASSUME TypeOK, TypeOK', IdleByAge, now <= now',
         \A b \in Addrs : \E d \in Nat : \A i \in DOMAIN idle'[b] :
            i + d \in DOMAIN idle[b] /\ idle'[b][i] = idle[b][i + d]
  PROVE  IdleByAge'
  <1>1. \A b \in Addrs : \A i \in DOMAIN idle[b] : i \in Int /\ idle[b][i].last_used_ms \in Int
    <2> TAKE b \in Addrs
    <2> TAKE i \in DOMAIN idle[b]
    <2>1. idle[b] \in Seq(IdleConn) /\ DOMAIN idle[b] = 1..Len(idle[b]) /\ Len(idle[b]) \in Nat
      BY LenProperties DEF TypeOK
    <2>2. idle[b][i] \in IdleConn
      BY <2>1, ElementOfSeq
    <2> QED
      BY <2>1, <2>2 DEF IdleConn
  <1>2. now \in Int /\ now' \in Int
    BY MaxTimeAssumption DEF TypeOK
  <1>3. \A b \in Addrs : \A i \in DOMAIN idle'[b] : i \in Int
    <2> TAKE b \in Addrs
    <2>1. idle'[b] \in Seq(IdleConn) /\ DOMAIN idle'[b] = 1..Len(idle'[b]) /\ Len(idle'[b]) \in Nat
      BY LenProperties DEF TypeOK
    <2> QED
      BY <2>1
  <1>4. ASSUME NEW b \in Addrs, NEW i \in DOMAIN idle'[b], NEW j \in DOMAIN idle'[b]
        PROVE  /\ i <= j => idle'[b][i].last_used_ms <= idle'[b][j].last_used_ms
               /\ idle'[b][i].last_used_ms <= now'
    <2>1. PICK d \in Nat : \A x \in DOMAIN idle'[b] :
             x + d \in DOMAIN idle[b] /\ idle'[b][x] = idle[b][x + d]
      OBVIOUS
    <2>2. i + d \in DOMAIN idle[b] /\ j + d \in DOMAIN idle[b] /\ (i <= j => i + d <= j + d)
      BY <1>3, <1>4, <2>1
    <2>3. /\ i <= j => idle[b][i + d].last_used_ms <= idle[b][j + d].last_used_ms
          /\ idle[b][i + d].last_used_ms <= now
      BY <2>2 DEF IdleByAge, IdleOldestFirst
    <2>4. idle'[b][i] = idle[b][i + d] /\ idle'[b][j] = idle[b][j + d]
      BY <1>4, <2>1
    <2>5. idle[b][i + d].last_used_ms \in Int
      BY <1>1, <2>2
    <2> QED
      BY <1>2, <2>3, <2>4, <2>5
  <1>5. QED
    BY <1>4 DEF IdleByAge, IdleOldestFirst

\* A turn of the loop of Acquire leaves a suffix of the queue.
LEMMA LoopByAge ==
  ASSUME TypeOK, TypeOK', IdleByAge, NEW t \in Threads, NEW a \in Addrs, AcquireLoop(t, a), now' = now
  PROVE  IdleByAge'
  <1>1. PICK k \in Nat, q \in Seq(IdleConn) :
           /\ k <= Len(idle[a])
           /\ Len(q) = Len(idle[a]) - k
           /\ \A i \in 1..Len(q) : q[i] = idle[a][i + k]
           /\ \/ ReuseIdle(t, a, q, Decrement(total[a], k))
              \/ ReserveSlot(t, a, q, Decrement(total[a], k))
              \/ StartWait(t, a, q, Decrement(total[a], k))
    BY LoopEffect
  <1>2. /\ DOMAIN idle[a] = 1..Len(idle[a]) /\ Len(idle[a]) \in Nat
        /\ DOMAIN q = 1..Len(q) /\ Len(q) \in Nat
    BY LenProperties DEF TypeOK
  <1>3. \/ idle' = [idle EXCEPT ![a] = q]
        \/ q # << >> /\ idle' = [idle EXCEPT ![a] = Tail(q)]
    BY <1>1 DEF ReuseIdle, ReserveSlot, StartWait
  <1>4. \E d \in Nat : \A i \in DOMAIN idle'[a] :
            i + d \in DOMAIN idle[a] /\ idle'[a][i] = idle[a][i + d]
    <2>1. CASE idle' = [idle EXCEPT ![a] = q]
      <3>1. idle'[a] = q
        BY <2>1 DEF TypeOK
      <3>2. \A i \in DOMAIN q : i + k \in DOMAIN idle[a] /\ q[i] = idle[a][i + k]
        BY <1>1, <1>2
      <3> QED
        BY <3>1, <3>2
    <2>2. CASE q # << >> /\ idle' = [idle EXCEPT ![a] = Tail(q)]
      <3>1. idle'[a] = Tail(q)
        BY <2>2 DEF TypeOK
      <3>2. /\ Tail(q) \in Seq(IdleConn) /\ Len(Tail(q)) = Len(q) - 1
            /\ \A i \in 1..Len(Tail(q)) : Tail(q)[i] = q[i + 1]
        BY <2>2, HeadTailProperties
      <3>3. DOMAIN Tail(q) = 1..Len(Tail(q))
        BY <3>2, LenProperties
      <3>4. ASSUME NEW i \in DOMAIN Tail(q)
            PROVE  i + (k + 1) \in DOMAIN idle[a] /\ Tail(q)[i] = idle[a][i + (k + 1)]
        <4>1. i \in Int /\ i + 1 \in 1..Len(q) /\ i \in 1..Len(Tail(q))
          BY <1>2, <3>2, <3>3
        <4>2. Tail(q)[i] = q[i + 1] /\ q[i + 1] = idle[a][(i + 1) + k]
          BY <1>1, <3>2, <4>1
        <4>3. (i + 1) + k = i + (k + 1) /\ i + (k + 1) \in 1..Len(idle[a])
          BY <1>1, <1>2, <4>1
        <4> QED
          BY <1>2, <4>2, <4>3
      <3>5. k + 1 \in Nat
        BY <1>1
      <3> QED
        BY <3>1, <3>4, <3>5
    <2> QED
      BY <1>3, <2>1, <2>2
  <1>5. \A b \in Addrs \ {a} : idle'[b] = idle[b]
    BY <1>3 DEF TypeOK
  <1>6. \A b \in Addrs : \E d \in Nat : \A i \in DOMAIN idle'[b] :
            i + d \in DOMAIN idle[b] /\ idle'[b][i] = idle[b][i + d]
    <2> TAKE b \in Addrs
    <2>1. CASE b # a
      <3>1. DOMAIN idle[b] = 1..Len(idle[b]) /\ Len(idle[b]) \in Nat
        BY LenProperties DEF TypeOK
      <3>2. \A i \in DOMAIN idle'[b] : i + 0 \in DOMAIN idle[b] /\ idle'[b][i] = idle[b][i + 0]
        BY <1>5, <2>1, <3>1
      <3> QED
        BY <3>2
    <2> QED
      BY <1>4, <2>1
  <1>7. now <= now'
    BY MaxTimeAssumption DEF TypeOK
  <1>8. QED
    BY <1>6, <1>7, SuffixByAge

\* A connection is returned at the end of its queue with the latest time.
LEMMA ReleaseByAge ==
  ASSUME TypeOK, TypeOK', ThreadState, IdleByAge, NEW t \in Threads, ReleaseHealthy(t)
  PROVE  IdleByAge'
  <1>1. PICK a \in Addrs : a = addr[t]
    BY DEF ReleaseHealthy, ThreadState, TypeOK
  <1> DEFINE e == [client |-> held[t], last_used_ms |-> now]
             n == Len(idle[a])
  <1>2. /\ \A b \in Addrs : idle[b] \in Seq(IdleConn) /\ DOMAIN idle[b] = 1..Len(idle[b]) /\ Len(idle[b]) \in Nat
        /\ now \in Int /\ now' = now
    BY LenProperties, MaxTimeAssumption DEF TypeOK, ReleaseHealthy
  <1>3. idle' = [idle EXCEPT ![a] = Append(idle[a], e)]
    BY <1>1 DEF ReleaseHealthy
  <1>4. idle'[a] = Append(idle[a], e) /\ \A b \in Addrs \ {a} : idle'[b] = idle[b]
    BY <1>3 DEF TypeOK
  <1>5. e \in IdleConn /\ e.last_used_ms = now
    <2>1. held[t] \in Clients
      BY DEF ReleaseHealthy, ThreadState, TypeOK
    <2> QED
      BY <2>1, MaxTimeAssumption DEF IdleConn, TypeOK
  <1>6. /\ DOMAIN idle'[a] = 1..(n + 1) /\ idle'[a][n + 1] = e
        /\ \A i \in 1..n : idle'[a][i] = idle[a][i]
    <2> HIDE DEF e
    <2>1. /\ Append(idle[a], e) \in Seq(IdleConn) /\ Len(Append(idle[a], e)) = n + 1
          /\ \A i \in 1..n : Append(idle[a], e)[i] = idle[a][i]
          /\ Append(idle[a], e)[n + 1] = e
      BY <1>2, <1>5, AppendProperties
    <2>2. DOMAIN Append(idle[a], e) = 1..(n + 1)
      BY <2>1, LenProperties
    <2> QED
      BY <1>4, <2>1, <2>2
  <1> HIDE DEF e
  <1>7. \A i \in 1..n : idle'[a][i].last_used_ms <= now
    BY <1>2, <1>6 DEF IdleByAge
  <1>8. ASSUME NEW i \in DOMAIN idle'[a], NEW j \in DOMAIN idle'[a]
        PROVE  /\ i <= j => idle'[a][i].last_used_ms <= idle'[a][j].last_used_ms
               /\ idle'[a][i].last_used_ms <= now'
    <2>1. i \in Int /\ j \in Int /\ n \in Int /\ i \in 1..(n + 1) /\ j \in 1..(n + 1)
      BY <1>2, <1>6
    <2>2. CASE i \in 1..n /\ j \in 1..n
      <3>1. i <= j => idle[a][i].last_used_ms <= idle[a][j].last_used_ms
        BY <1>2, <2>2 DEF IdleByAge, IdleOldestFirst
      <3> QED
        BY <1>2, <1>6, <1>7, <2>2, <3>1
    <2>3. CASE i \in 1..n /\ j = n + 1
      BY <1>2, <1>5, <1>6, <1>7, <2>3
    <2>4. CASE i = n + 1
      <3>1. i <= j => j = n + 1
        BY <2>1, <2>4
      <3>2. idle'[a][i].last_used_ms = now
        BY <1>5, <1>6, <2>4
      <3> QED
        BY <1>2, <2>4, <3>1, <3>2
    <2> QED
      BY <2>1, <2>2, <2>3, <2>4
  <1>9. ASSUME NEW b \in Addrs \ {a}, NEW i \in DOMAIN idle'[b], NEW j \in DOMAIN idle'[b]
        PROVE  /\ i <= j => idle'[b][i].last_used_ms <= idle'[b][j].last_used_ms
               /\ idle'[b][i].last_used_ms <= now'
    BY <1>2, <1>4, <1>9 DEF IdleByAge, IdleOldestFirst
  <1>10. QED
    BY <1>8, <1>9 DEF IdleByAge, IdleOldestFirst

\* As long as the wall clock is not set back, every queue of idle connections is
\* ordered by the times of return, so DropExpiredIdle may stop at the first connection
\* that has not expired: whatever the threads, the addresses and the configurations.
THEOREM IdleOrdered ==
  ASSUME ClockStepsBack = FALSE
  PROVE  Spec => []IdleOldestFirst
  <1> DEFINE Inv == TypeOK /\ ThreadState /\ IdleByAge
  <1>1. Init => Inv
    <2>1. Init => IdleByAge
      BY DEF Init, IdleByAge, IdleOldestFirst
    <2> QED
      BY <2>1, MaxTimeAssumption, EmptySeq DEF Init, TypeOK, ThreadState, PC
  <1>2. Inv /\ [Next]_vars => Inv'
    <2> SUFFICES ASSUME Inv, [Next]_vars PROVE IdleByAge'
      BY TypeStep
    <2>0. TypeOK' /\ now \in Int
      BY TypeStep, MaxTimeAssumption DEF TypeOK
    <2>1. ASSUME idle' = idle, now <= now' PROVE IdleByAge'
      <3>1. \A b \in Addrs : \A i \in DOMAIN idle[b] : i \in Int
        <4> TAKE b \in Addrs
        <4>1. DOMAIN idle[b] = 1..Len(idle[b]) /\ Len(idle[b]) \in Nat
          BY LenProperties DEF TypeOK
        <4> QED
          BY <4>1
      <3>2. \A b \in Addrs : \A i \in DOMAIN idle'[b] :
              i + 0 \in DOMAIN idle[b] /\ idle'[b][i] = idle[b][i + 0]
        BY <2>1, <3>1
      <3>3. \A b \in Addrs : \E d \in Nat : \A i \in DOMAIN idle'[b] :
              i + d \in DOMAIN idle[b] /\ idle'[b][i] = idle[b][i + d]
        BY <3>2
      <3> QED
        BY <2>0, <2>1, <3>3, SuffixByAge
    <2>2. ASSUME NEW t \in Threads, NEW a \in Addrs, Acquire(t, a) PROVE IdleByAge'
      BY <2>0, <2>2, LoopByAge DEF Acquire
    <2>3. ASSUME NEW t \in Threads, Resume(t) PROVE IdleByAge'
      <3>1. addr[t] \in Addrs
        BY <2>3 DEF Resume, TypeOK, ThreadState
      <3> QED
        BY <2>0, <2>3, <3>1, LoopByAge DEF Resume
    <2>4. ASSUME NEW t \in Threads,
                 CreateOk(t) \/ CreateFail(t) \/ TimeWaitExpires(t) \/ ReturnTimeOut(t)
                 \/ SpuriousWakeup(t) \/ ReleaseBroken(t)
          PROVE  IdleByAge'
      BY <2>0, <2>1, <2>4 DEF CreateOk, CreateFail, TimeWaitExpires, ReturnTimeOut, SpuriousWakeup,
                              ReleaseBroken, poolVars
    <2>5. ASSUME NEW t \in Threads, ReleaseHealthy(t) PROVE IdleByAge'
      BY <2>0, <2>5, ReleaseByAge
    <2>6. ASSUME NEW a \in Addrs, DropAddr(a) PROVE IdleByAge'
      <3>1. idle'[a] = << >> /\ now' = now /\ \A b \in Addrs \ {a} : idle'[b] = idle[b]
        BY <2>6 DEF DropAddr, TypeOK
      <3> QED
        BY <3>1 DEF IdleByAge, IdleOldestFirst
    <2>7. ASSUME NEW c \in Configs, SetConfig(c) PROVE IdleByAge'
      BY <2>0, <2>1, <2>7 DEF SetConfig, poolVars
    <2>8. CASE ClockTick
      BY <2>0, <2>1, <2>8, MaxTimeAssumption DEF ClockTick, poolVars
    <2>9. CASE UNCHANGED vars
      BY <2>0, <2>1, <2>9 DEF vars, poolVars
    <2> QED
      BY <2>2, <2>3, <2>4, <2>5, <2>6, <2>7, <2>8, <2>9 DEF Next
  <1>3. QED
    BY <1>1, <1>2, PTL DEF Spec, IdleByAge
=============================================================================
