---------------------------- MODULE StoresProofs ----------------------------
(***************************************************************************)
(* Proofs about the stores, for all values of the constants: the ring of   *)
(* the LRU cache and that the cache implements RecencyList; the chains of  *)
(* HashDB, what BitCaskDB recovers from its files, and that both implement *)
(* DBBase; the levels of the skip list.                                    *)
(***************************************************************************)
EXTENDS HashDB, BitCaskDB, LRUCache, SkipList, WellFoundedInduction, FiniteSetTheorems, TLAPS

-----------------------------------------------------------------------------
\* A set of natural numbers that is not empty has a least element.
LEMMA LeastElement ==
  ASSUME NEW S \in SUBSET Nat, S # {}
  PROVE  \E x \in S : \A y \in S : x <= y
  <1>1. PICK x \in S : \A y \in S : ~ (<<y, x>> \in OpToRel(<, Nat))
    BY WFMin, NatLessThanWellFounded
  <1>2. ASSUME NEW y \in S
        PROVE  x <= y
    <2>1. x \in Nat /\ y \in Nat
      OBVIOUS
    <2>2. y < x => <<y, x>> \in OpToRel(<, Nat)
      BY <2>1, Zenon DEF OpToRel
    <2>3. ~ (y < x)
      BY <1>1, <2>2, Zenon
    <2>4. QED
      BY <2>1, <2>3
  <1>3. QED
    BY <1>2

-----------------------------------------------------------------------------
\* LRUCache: the list as a sequence of keys

\* Node i of the ring that holds the keys of s in their order: the head is
\* before the first and after the last.
At(s, i) == IF i \in 1..Len(s) THEN s[i] ELSE LruHead

\* The pointers of l link the head and the keys of s, each key once, into a ring.
IsRing(l, s) ==
    /\ l.next \in [Nodes -> Nodes \cup {LruFreed}]
    /\ l.pre \in [Nodes -> Nodes \cup {LruFreed}]
    /\ s \in Seq(LruKeys)
    /\ \A i, j \in 1..Len(s) : s[i] = s[j] => i = j
    /\ \A i \in 0..Len(s) : l.next[At(s, i)] = At(s, i + 1) /\ l.pre[At(s, i + 1)] = At(s, i)

KeysOf(s) == {s[i] : i \in 1..Len(s)}
DropAt(s, i) == [j \in 1..(Len(s) - 1) |-> IF j < i THEN s[j] ELSE s[j + 1]]
Push(k, s) == [j \in 1..(Len(s) + 1) |-> IF j = 1 THEN k ELSE s[j - 1]]

\* Two nodes of a ring are the same only if they are in the same place.
LEMMA PlacesDiffer ==
    ASSUME NEW l, NEW s, IsRing(l, s)
    PROVE  /\ Len(s) \in Nat
           /\ \A i \in 0..(Len(s) + 1) : At(s, i) \in Nodes
           /\ \A i \in 1..Len(s) : At(s, i) = s[i] /\ s[i] \in LruKeys /\ s[i] # LruHead
           /\ At(s, 0) = LruHead /\ At(s, Len(s) + 1) = LruHead
           /\ \A i, j \in 0..Len(s) : At(s, i) = At(s, j) => i = j
           /\ \A i, j \in 1..(Len(s) + 1) : At(s, i) = At(s, j) => i = j
    <1>1. /\ Len(s) \in Nat /\ \A i \in 1..Len(s) : s[i] \in LruKeys
          /\ \A i, j \in 1..Len(s) : s[i] = s[j] => i = j
      BY DEF IsRing
    <1>2. \A i \in 1..Len(s) : s[i] # LruHead
      BY <1>1, LruAssumption
    <1>3. QED
      BY <1>1, <1>2 DEF At, Nodes

\* The places of the nodes once one is out.
LEMMA PlacesAfterDrop ==
    ASSUME NEW l, NEW s, IsRing(l, s), NEW p \in 1..Len(s)
    PROVE  /\ DropAt(s, p) \in Seq(LruKeys) /\ Len(DropAt(s, p)) = Len(s) - 1
           /\ \A i \in 0..Len(s) : At(DropAt(s, p), i) = At(s, IF i < p THEN i ELSE i + 1)
           /\ \A i, j \in 1..(Len(s) - 1) : DropAt(s, p)[i] = DropAt(s, p)[j] => i = j
           /\ KeysOf(DropAt(s, p)) = KeysOf(s) \ {s[p]}
    <1> DEFINE t == DropAt(s, p)
    <1>1. /\ Len(s) \in Nat /\ \A i \in 1..Len(s) : s[i] \in LruKeys
          /\ \A i, j \in 1..Len(s) : s[i] = s[j] => i = j
      BY DEF IsRing
    <1>2. /\ t \in Seq(LruKeys) /\ Len(t) = Len(s) - 1
          /\ \A i \in 1..(Len(s) - 1) : t[i] = IF i < p THEN s[i] ELSE s[i + 1]
      BY <1>1 DEF DropAt
    <1> HIDE DEF t
    <1>3. \A i \in 0..Len(s) : At(t, i) = At(s, IF i < p THEN i ELSE i + 1)
      BY <1>1, <1>2 DEF At
    <1>4. ASSUME NEW i \in 1..(Len(s) - 1), NEW j \in 1..(Len(s) - 1), t[i] = t[j]
          PROVE  i = j
      <2>1. PICK q \in Nat : q = Len(s)
        BY <1>1
      <2>2. PICK a : a = IF i < p THEN i ELSE i + 1
        OBVIOUS
      <2>3. PICK b : b = IF j < p THEN j ELSE j + 1
        OBVIOUS
      <2>4. i \in Nat /\ j \in Nat /\ p \in Nat /\ a \in 1..q /\ b \in 1..q
        BY <2>1, <2>2, <2>3
      <2>5. s[a] = s[b]
        BY <1>2, <1>4, <2>2, <2>3
      <2>6. a = b
        BY <1>1, <2>1, <2>4, <2>5
      <2>7. QED
        BY <2>2, <2>3, <2>4, <2>6
    <1>5. KeysOf(t) = KeysOf(s) \ {s[p]}
      <2>1. ASSUME NEW i \in 1..(Len(s) - 1)
            PROVE  t[i] \in KeysOf(s) /\ t[i] # s[p]
        BY <1>1, <1>2 DEF KeysOf
      <2>2. ASSUME NEW i \in 1..Len(s), s[i] # s[p]
            PROVE  \E j \in 1..(Len(s) - 1) : t[j] = s[i]
        <3>1. CASE i < p
          BY <1>1, <1>2, <3>1
        <3>2. CASE i > p
          <4>1. i - 1 \in 1..(Len(s) - 1) /\ t[i - 1] = s[i]
            BY <1>1, <1>2, <3>2
          <4>2. QED
            BY <4>1
        <3>3. QED
          BY <1>1, <2>2, <3>1, <3>2
      <2>3. KeysOf(t) = {t[j] : j \in 1..(Len(s) - 1)}
        BY <1>2 DEF KeysOf
      <2>4. KeysOf(t) \subseteq KeysOf(s) \ {s[p]}
        BY <2>1, <2>3
      <2>5. ASSUME NEW k \in KeysOf(s), k # s[p]
            PROVE  k \in KeysOf(t)
        BY <2>2, <2>3, <2>5 DEF KeysOf
      <2>6. QED
        BY <2>4, <2>5
    <1>6. QED
      BY <1>2, <1>3, <1>4, <1>5 DEF t

\* RemoveHandleNode takes one key out of the ring.
LEMMA RemoveKeepsRing ==
    ASSUME NEW l, NEW s, IsRing(l, s), NEW p \in 1..Len(s)
    PROVE  IsRing(RemoveHandleNode(l, s[p]), DropAt(s, p))
    <1> DEFINE n == Len(s)
               t == DropAt(s, p)
               r == RemoveHandleNode(l, s[p])
    <1>1. /\ n \in Nat
          /\ \A i \in 0..(n + 1) : At(s, i) \in Nodes
          /\ At(s, p) = s[p]
          /\ \A i, j \in 0..n : At(s, i) = At(s, j) => i = j
          /\ \A i, j \in 1..(n + 1) : At(s, i) = At(s, j) => i = j
      BY PlacesDiffer
    <1>2. /\ t \in Seq(LruKeys) /\ Len(t) = n - 1
          /\ \A i \in 0..n : At(t, i) = At(s, IF i < p THEN i ELSE i + 1)
          /\ \A i, j \in 1..(n - 1) : t[i] = t[j] => i = j
      BY PlacesAfterDrop
    <1>3. /\ l.next \in [Nodes -> Nodes \cup {LruFreed}]
          /\ l.pre \in [Nodes -> Nodes \cup {LruFreed}]
          /\ \A i \in 0..n : l.next[At(s, i)] = At(s, i + 1)
          /\ \A i \in 0..n : l.pre[At(s, i + 1)] = At(s, i)
      BY DEF IsRing
    <1>4. l.pre[s[p]] = At(s, p - 1) /\ l.next[s[p]] = At(s, p + 1)
      <2>1. p - 1 \in 0..n /\ (p - 1) + 1 = p /\ p \in 0..n
        BY <1>1
      <2>2. QED
        BY <1>1, <1>3, <2>1
    <1>5. /\ r.next = [l.next EXCEPT ![At(s, p - 1)] = At(s, p + 1)]
          /\ r.pre = [l.pre EXCEPT ![At(s, p + 1)] = At(s, p - 1)]
      BY <1>4 DEF RemoveHandleNode
    <1> HIDE DEF n, t, r
    <1>6. p \in 1..n
      BY DEF n
    <1>7. /\ \A i \in 0..n : i # p - 1 => r.next[At(s, i)] = At(s, i + 1)
          /\ r.next[At(s, p - 1)] = At(s, p + 1)
          /\ r.next \in [Nodes -> Nodes \cup {LruFreed}]
      BY <1>1, <1>3, <1>5, <1>6
    <1>8. /\ \A i \in 0..n : i # p => r.pre[At(s, i + 1)] = At(s, i)
          /\ r.pre[At(s, p + 1)] = At(s, p - 1)
          /\ r.pre \in [Nodes -> Nodes \cup {LruFreed}]
      BY <1>1, <1>3, <1>5, <1>6
    <1>9. ASSUME NEW i \in 0..(n - 1)
          PROVE  r.next[At(t, i)] = At(t, i + 1) /\ r.pre[At(t, i + 1)] = At(t, i)
      <2>1. CASE i < p - 1
        <3>1. At(t, i) = At(s, i) /\ At(t, i + 1) = At(s, i + 1)
          BY <1>1, <1>2, <1>6, <2>1
        <3>2. QED
          BY <1>1, <1>6, <1>7, <1>8, <2>1, <3>1
      <2>2. CASE i = p - 1
        <3>1. At(t, i) = At(s, p - 1) /\ At(t, i + 1) = At(s, p + 1)
          BY <1>1, <1>2, <1>6, <2>2
        <3>2. QED
          BY <1>7, <1>8, <3>1
      <2>3. CASE i >= p
        <3>1. At(t, i) = At(s, i + 1) /\ At(t, i + 1) = At(s, (i + 1) + 1)
          BY <1>1, <1>2, <1>6, <2>3
        <3>2. i + 1 \in 0..n /\ i + 1 # p - 1 /\ i + 1 # p
          BY <1>1, <1>6, <2>3
        <3>3. QED
          BY <1>7, <1>8, <3>1, <3>2
      <2>4. QED
        BY <1>1, <1>6, <2>1, <2>2, <2>3
    <1>10. IsRing(r, t)
      BY <1>2, <1>7, <1>8, <1>9 DEF IsRing
    <1>11. QED
      BY <1>10 DEF r, t

\* The pointers of a key that is not in the ring do not matter to it.
LEMMA FreeKeepsRing ==
    ASSUME NEW l, NEW s, IsRing(l, s), NEW k \in LruKeys, k \notin KeysOf(s)
    PROVE  IsRing(Free(l, k), s)
    <1> DEFINE r == Free(l, k)
    <1>1. \A i \in 0..(Len(s) + 1) : At(s, i) \in Nodes /\ At(s, i) # k
      <2>1. k # LruHead /\ \A i \in 1..Len(s) : s[i] # k
        BY LruAssumption DEF KeysOf
      <2>2. QED
        BY <2>1, PlacesDiffer DEF At
    <1>2. /\ r.next = [l.next EXCEPT ![k] = LruFreed] /\ r.pre = [l.pre EXCEPT ![k] = LruFreed]
      BY DEF Free
    <1> HIDE DEF r
    <1>3. Len(s) \in Nat
      BY DEF IsRing
    <1>4. \A i \in 0..(Len(s) + 1) : r.next[At(s, i)] = l.next[At(s, i)] /\ r.pre[At(s, i)] = l.pre[At(s, i)]
      BY <1>1, <1>2 DEF IsRing
    <1>5. /\ r.next \in [Nodes -> Nodes \cup {LruFreed}] /\ r.pre \in [Nodes -> Nodes \cup {LruFreed}]
      BY <1>2 DEF IsRing, Nodes
    <1>6. ASSUME NEW i \in 0..Len(s)
          PROVE  r.next[At(s, i)] = At(s, i + 1) /\ r.pre[At(s, i + 1)] = At(s, i)
      <2>1. i \in 0..(Len(s) + 1) /\ i + 1 \in 0..(Len(s) + 1)
        BY <1>3
      <2>2. QED
        BY <1>4, <2>1 DEF IsRing
    <1>7. IsRing(r, s)
      BY <1>5, <1>6 DEF IsRing
    <1>8. QED
      BY <1>7 DEF r

\* Unlink takes one key out of the ring and deletes its node.
LEMMA UnlinkKeepsRing ==
    ASSUME NEW l, NEW s, IsRing(l, s), NEW p \in 1..Len(s)
    PROVE  IsRing(Unlink(l, s[p]), DropAt(s, p))
    <1>1. s[p] \in LruKeys
      BY PlacesDiffer
    <1>2. s[p] \notin KeysOf(DropAt(s, p))
      BY PlacesAfterDrop
    <1>3. QED
      BY <1>1, <1>2, RemoveKeepsRing, FreeKeepsRing DEF Unlink

\* InsertHandleNode puts a key that is not in the ring after the head.
LEMMA InsertKeepsRing ==
    ASSUME NEW l, NEW s, IsRing(l, s), NEW k \in LruKeys, k \notin KeysOf(s)
    PROVE  /\ IsRing(InsertHandleNode(l, k), Push(k, s))
           /\ KeysOf(Push(k, s)) = KeysOf(s) \cup {k}
    <1> DEFINE n == Len(s)
               t == Push(k, s)
               r == InsertHandleNode(l, k)
    <1>1. /\ n \in Nat
          /\ \A i \in 0..(n + 1) : At(s, i) \in Nodes
          /\ \A i \in 1..n : s[i] \in LruKeys
          /\ At(s, 0) = LruHead /\ At(s, n + 1) = LruHead
          /\ \A i, j \in 0..n : At(s, i) = At(s, j) => i = j
          /\ \A i, j \in 1..(n + 1) : At(s, i) = At(s, j) => i = j
      BY PlacesDiffer
    <1>2. k # LruHead /\ k \in Nodes /\ \A i \in 1..n : s[i] # k
      BY LruAssumption DEF KeysOf, Nodes
    <1>3. \A i \in 0..(n + 1) : At(s, i) # k
      BY <1>1, <1>2 DEF At
    <1>4. /\ t \in Seq(LruKeys) /\ Len(t) = n + 1
          /\ \A i \in 1..(n + 1) : t[i] = IF i = 1 THEN k ELSE s[i - 1]
      BY <1>1 DEF Push
    <1>5. /\ l.next \in [Nodes -> Nodes \cup {LruFreed}]
          /\ l.pre \in [Nodes -> Nodes \cup {LruFreed}]
          /\ \A i \in 0..n : l.next[At(s, i)] = At(s, i + 1)
          /\ \A i \in 0..n : l.pre[At(s, i + 1)] = At(s, i)
          /\ \A i, j \in 1..n : s[i] = s[j] => i = j
      BY DEF IsRing
    <1>6. l.next[LruHead] = At(s, 1) /\ l.pre[At(s, 1)] = LruHead
      <2>1. 0 \in 0..n /\ 0 + 1 = 1
        BY <1>1
      <2>2. QED
        BY <1>1, <1>5, <2>1
    <1>7. /\ r.next = [l.next EXCEPT ![k] = At(s, 1), ![LruHead] = k]
          /\ r.pre = [l.pre EXCEPT ![k] = LruHead, ![At(s, 1)] = k]
      BY <1>6 DEF InsertHandleNode
    <1> HIDE DEF n, t, r
    <1>8. /\ At(t, 0) = LruHead /\ At(t, 1) = k
          /\ \A i \in 1..(n + 1) : At(t, i + 1) = At(s, i)
      BY <1>1, <1>4 DEF At, n
    <1>9. /\ r.next[k] = At(s, 1) /\ r.next[LruHead] = k
          /\ \A i \in 1..n : r.next[At(s, i)] = At(s, i + 1)
          /\ r.next \in [Nodes -> Nodes \cup {LruFreed}]
      <2>1. \A i \in 1..n : At(s, i) # LruHead
        BY <1>1
      <2>2. LruHead \in Nodes
        BY DEF Nodes
      <2>3. QED
        BY <1>1, <1>2, <1>3, <1>5, <1>7, <2>1, <2>2
    <1>10. /\ r.pre[k] = LruHead /\ r.pre[At(s, 1)] = k
           /\ \A i \in 1..n : r.pre[At(s, i + 1)] = At(s, i)
           /\ r.pre \in [Nodes -> Nodes \cup {LruFreed}]
      <2>1. \A i \in 1..n : At(s, i + 1) # At(s, 1)
        BY <1>1
      <2>2. LruHead \in Nodes /\ At(s, 1) \in Nodes /\ At(s, 1) # k
        BY <1>1, <1>3 DEF Nodes
      <2>3. QED
        BY <1>1, <1>2, <1>3, <1>5, <1>7, <2>1, <2>2
    <1>11. ASSUME NEW i \in 0..(n + 1)
           PROVE  r.next[At(t, i)] = At(t, i + 1) /\ r.pre[At(t, i + 1)] = At(t, i)
      <2>1. CASE i = 0
        BY <1>8, <1>9, <1>10, <2>1
      <2>2. CASE i = 1
        BY <1>1, <1>8, <1>9, <1>10, <2>2
      <2>3. CASE i > 1
        <3>1. PICK j \in 1..n : i = j + 1
          <4>1. i - 1 \in 1..n /\ i = (i - 1) + 1
            BY <1>1, <2>3
          <4>2. QED
            BY <4>1
        <3>2. j \in 1..(n + 1) /\ j + 1 \in 1..(n + 1)
          BY <1>1
        <3>3. At(t, i) = At(s, j) /\ At(t, i + 1) = At(s, j + 1)
          BY <1>8, <3>1, <3>2
        <3>4. QED
          BY <1>9, <1>10, <3>3
      <2>4. QED
        BY <1>1, <2>1, <2>2, <2>3
    <1>12. ASSUME NEW i \in 1..(n + 1), NEW j \in 1..(n + 1), t[i] = t[j]
           PROVE  i = j
      <2>1. /\ t[i] = IF i = 1 THEN k ELSE s[i - 1]
            /\ t[j] = IF j = 1 THEN k ELSE s[j - 1]
        BY <1>4
      <2>2. /\ i # 1 => i - 1 \in 1..n
            /\ j # 1 => j - 1 \in 1..n
        BY <1>1
      <2>3. (i = 1) <=> (j = 1)
        BY <1>2, <1>12, <2>1, <2>2
      <2>4. i # 1 => i - 1 = j - 1
        BY <1>5, <1>12, <2>1, <2>2, <2>3
      <2>5. QED
        BY <2>3, <2>4
    <1>13. IsRing(r, t)
      BY <1>4, <1>9, <1>10, <1>11, <1>12 DEF IsRing
    <1>14. KeysOf(t) = KeysOf(s) \cup {k}
      <2>1. KeysOf(s) = {s[i] : i \in 1..n} /\ KeysOf(t) = {t[i] : i \in 1..(n + 1)}
        BY <1>4 DEF KeysOf, n
      <2>2. ASSUME NEW i \in 1..n
            PROVE  s[i] \in KeysOf(t)
        <3>1. i + 1 \in 1..(n + 1) /\ t[i + 1] = s[i]
          BY <1>1, <1>4
        <3>2. QED
          BY <2>1, <3>1
      <2>3. k \in KeysOf(t)
        <3>1. 1 \in 1..(n + 1) /\ t[1] = k
          BY <1>1, <1>4
        <3>2. QED
          BY <2>1, <3>1
      <2>4. ASSUME NEW i \in 1..(n + 1)
            PROVE  t[i] \in KeysOf(s) \cup {k}
        BY <1>1, <1>4, <2>1
      <2>5. QED
        BY <2>1, <2>2, <2>3, <2>4
    <1>15. QED
      BY <1>13, <1>14 DEF r, t

-----------------------------------------------------------------------------
\* LRUCache: the list followed from the head

\* A ring of n different keys holds n keys.
LEMMA RingCount ==
    ASSUME NEW l, NEW s, IsRing(l, s)
    PROVE  Cardinality(KeysOf(s)) = Len(s)
    <1>1. Len(s) \in Nat /\ s \in [1..Len(s) -> LruKeys]
      BY DEF IsRing
    <1>2. s \in [1..Len(s) -> KeysOf(s)]
      BY <1>1 DEF KeysOf
    <1>3. s \in Bijection(1..Len(s), KeysOf(s))
      BY <1>1, <1>2 DEF Bijection, Injection, IsInjective, Surjection, KeysOf, IsRing
    <1>4. QED
      BY <1>1, <1>3, FS_CountingElements DEF ExistsBijection

\* A walk of n steps, each where the function step leads, and the walk that the
\* recursive definition of a walk computes.
IsWalk(w, n, start, step) == w[0] = start /\ \A i \in 1..n : w[i] = step[w[i - 1]]
WalkFcn(n, start, step) == CHOOSE g : g = [i \in 0..n |-> IF i = 0 THEN start ELSE step[g[i - 1]]]

\* Two functions that agree at 0 and, where they agree, at the next number agree.
Agree(f, w, n) == f[0] = w[0] /\ \A i \in 1..n : f[i - 1] = w[i - 1] => f[i] = w[i]

\* They agree on the whole of 0..n.
LEMMA AgreeEverywhere ==
    ASSUME NEW n \in Nat, NEW f, NEW w, Agree(f, w, n)
    PROVE  \A i \in 0..n : f[i] = w[i]
    <1> DEFINE wrong == {i \in 0..n : f[i] # w[i]}
    <1>1. wrong \in SUBSET Nat /\ \A i \in 0..n : i \in wrong <=> f[i] # w[i]
      OBVIOUS
    <1> HIDE DEF wrong
    <1>2. ASSUME wrong # {}
          PROVE  FALSE
      <2>1. PICK i \in wrong : \A j \in wrong : i <= j
        BY <1>1, <1>2, LeastElement
      <2>2. i \in 0..n /\ f[i] # w[i]
        BY <1>1 DEF wrong
      <2>3. i \in 1..n /\ i - 1 \in 0..n /\ ~ (i <= i - 1)
        BY <2>2 DEF Agree
      <2>4. f[i - 1] = w[i - 1]
        BY <1>1, <2>1, <2>3
      <2>5. QED
        BY <2>2, <2>3, <2>4 DEF Agree
    <1>3. QED
      BY <1>1, <1>2

\* A solution of the recursive equation is a walk.
LEMMA EquationWalks ==
    ASSUME NEW n \in Nat, NEW start, NEW step, NEW h,
           h = [i \in 0..n |-> IF i = 0 THEN start ELSE step[h[i - 1]]]
    PROVE  IsWalk(h, n, start, step)
    <1>1. ASSUME NEW i \in 0..n
          PROVE  h[i] = IF i = 0 THEN start ELSE step[h[i - 1]]
      BY Zenon
    <1>2. QED
      BY <1>1 DEF IsWalk

\* A walk that can be written down is the one the recursive definition computes.
LEMMA WalkUnfolds ==
    ASSUME NEW n \in Nat, NEW start, NEW step, NEW w, IsWalk(w, n, start, step)
    PROVE  \A i \in 0..n : WalkFcn(n, start, step)[i] = w[i]
    <1> DEFINE v == [i \in 0..n |-> w[i]]
               f == WalkFcn(n, start, step)
    <1>1. v = [i \in 0..n |-> IF i = 0 THEN start ELSE step[v[i - 1]]]
      <2>1. ASSUME NEW i \in 0..n
            PROVE  w[i] = IF i = 0 THEN start ELSE step[v[i - 1]]
        <3>1. i # 0 => i \in 1..n /\ i - 1 \in 0..n
          OBVIOUS
        <3>2. QED
          BY <3>1 DEF IsWalk
      <2>2. QED
        BY <2>1
    <1> HIDE DEF v
    <1>2. f = [i \in 0..n |-> IF i = 0 THEN start ELSE step[f[i - 1]]]
      BY <1>1, Zenon DEF WalkFcn
    <1> HIDE DEF f
    <1>3. IsWalk(f, n, start, step)
      BY <1>2, EquationWalks, Zenon
    <1>4. Agree(f, w, n)
      BY <1>3 DEF IsWalk, Agree
    <1>5. QED
      BY <1>4, AgreeEverywhere DEF f

\* Step i of a walk along a ring is at node i.
LEMMA WalkIsRing ==
    ASSUME NEW s, IsRing(List, s), lruMap = KeysOf(s)
    PROVE  /\ WalkNext = s
           /\ WalkPre = [i \in 1..Len(s) |-> s[Len(s) + 1 - i]]
    <1> DEFINE n == Cardinality(lruMap)
               f == WalkFcn(n, LruHead, lruNext)
               b == WalkFcn(n, LruHead, lruPre)
    <1>1. n \in Nat /\ n = Len(s)
      BY RingCount, PlacesDiffer
    <1>2. WalkNext = [i \in 1..n |-> f[i]]
      BY Zenon DEF WalkNext, WalkFcn
    <1>3. WalkPre = [i \in 1..n |-> b[i]]
      BY Zenon DEF WalkPre, WalkFcn
    <1>4. /\ s \in Seq(LruKeys)
          /\ \A i \in 0..n : lruNext[At(s, i)] = At(s, i + 1) /\ lruPre[At(s, i + 1)] = At(s, i)
      BY <1>1 DEF IsRing, List
    <1>5. /\ \A i \in 1..n : At(s, i) = s[i]
          /\ At(s, 0) = LruHead /\ At(s, n + 1) = LruHead
      BY <1>1, PlacesDiffer
    <1>6. \A i \in 0..n : f[i] = At(s, i)
      <2> DEFINE w == [i \in 0..n |-> At(s, i)]
      <2>1. w[0] = LruHead
        BY <1>1, <1>5
      <2>2. ASSUME NEW i \in 1..n
            PROVE  w[i] = lruNext[w[i - 1]]
        <3>1. i \in 0..n /\ i - 1 \in 0..n /\ (i - 1) + 1 = i
          BY <1>1
        <3>2. QED
          BY <1>4, <3>1
      <2>3. \A i \in 0..n : w[i] = At(s, i)
        OBVIOUS
      <2> HIDE DEF w, n
      <2>4. IsWalk(w, n, LruHead, lruNext)
        BY <2>1, <2>2 DEF IsWalk
      <2>5. \A i \in 0..n : f[i] = w[i]
        BY <1>1, <2>4, WalkUnfolds
      <2>6. QED
        BY <2>3, <2>5
    <1>7. \A i \in 0..n : b[i] = At(s, n + 1 - i)
      <2> DEFINE w == [i \in 0..n |-> At(s, n + 1 - i)]
      <2>1. w[0] = LruHead
        BY <1>1, <1>5
      <2>2. ASSUME NEW i \in 1..n
            PROVE  w[i] = lruPre[w[i - 1]]
        <3>1. i \in 0..n /\ i - 1 \in 0..n /\ n + 1 - i \in 0..n /\ (n + 1 - i) + 1 = n + 1 - (i - 1)
          BY <1>1
        <3>2. w[i] = At(s, n + 1 - i) /\ w[i - 1] = At(s, n + 1 - (i - 1))
          BY <3>1
        <3>3. QED
          BY <1>4, <3>1, <3>2
      <2>3. \A i \in 0..n : w[i] = At(s, n + 1 - i)
        OBVIOUS
      <2> HIDE DEF w, n
      <2>4. IsWalk(w, n, LruHead, lruPre)
        BY <2>1, <2>2 DEF IsWalk
      <2>5. \A i \in 0..n : b[i] = w[i]
        BY <1>1, <2>4, WalkUnfolds
      <2>6. QED
        BY <2>3, <2>5
    <1> HIDE DEF f, b, n
    <1>8. WalkNext = s
      <2>1. s = [i \in 1..n |-> s[i]]
        BY <1>1, <1>4
      <2>2. \A i \in 1..n : f[i] = s[i]
        BY <1>1, <1>5, <1>6
      <2>3. QED
        BY <1>2, <2>1, <2>2
    <1>9. WalkPre = [i \in 1..n |-> s[n + 1 - i]]
      <2>1. ASSUME NEW i \in 1..n
            PROVE  b[i] = s[n + 1 - i]
        <3>1. i \in 0..n /\ n + 1 - i \in 1..n
          BY <1>1
        <3>2. QED
          BY <1>5, <1>7, <3>1
      <2>2. QED
        BY <1>3, <2>1
    <1>10. QED
      BY <1>1, <1>8, <1>9

-----------------------------------------------------------------------------
\* LRUCache: the list cut at its end

\* The ring of s with only its first m keys left, the others deleted.
First(s, m) == [i \in 1..m |-> s[i]]
Gone(s, m) == {s[i] : i \in (m + 1)..Len(s)}
CutAt(l, s, m) ==
    [next |-> [x \in Nodes |-> IF x \in Gone(s, m) THEN LruFreed
                               ELSE IF x = At(s, m) THEN LruHead ELSE l.next[x]],
     pre |-> [x \in Nodes |-> IF x \in Gone(s, m) THEN LruFreed
                              ELSE IF x = LruHead THEN At(s, m) ELSE l.pre[x]]]

\* Which nodes of the ring are gone.
LEMMA GonePlaces ==
    ASSUME NEW l, NEW s, IsRing(l, s), NEW m \in 0..Len(s)
    PROVE  /\ LruHead \notin Gone(s, m)
           /\ \A i \in 1..Len(s) : s[i] \in Gone(s, m) <=> i > m
           /\ \A i \in 0..m : At(s, i) \notin Gone(s, m)
           /\ m > 0 => Gone(s, m - 1) = Gone(s, m) \cup {s[m]}
    <1>1. /\ Len(s) \in Nat
          /\ \A i \in 1..Len(s) : At(s, i) = s[i] /\ s[i] # LruHead
          /\ At(s, 0) = LruHead
      BY PlacesDiffer
    <1>1a. \A i, j \in 1..Len(s) : s[i] = s[j] => i = j
      BY DEF IsRing
    <1>2. \A x : x \in Gone(s, m) <=> \E i \in 1..Len(s) : i > m /\ x = s[i]
      BY <1>1 DEF Gone
    <1>3. LruHead \notin Gone(s, m)
      BY <1>1, <1>2
    <1>4. \A i \in 1..Len(s) : s[i] \in Gone(s, m) <=> i > m
      BY <1>1a, <1>2
    <1>5. ASSUME NEW i \in 0..m
          PROVE  At(s, i) \notin Gone(s, m)
      <2>1. CASE i = 0
        BY <1>1, <1>3, <2>1
      <2>2. CASE i # 0
        <3>1. i \in 1..Len(s) /\ ~ (i > m)
          BY <1>1, <2>2
        <3>2. QED
          BY <1>1, <1>4, <3>1
      <2>3. QED
        BY <2>1, <2>2
    <1>6. ASSUME m > 0
          PROVE  Gone(s, m - 1) = Gone(s, m) \cup {s[m]}
      <2>1. (m - 1) + 1 = m /\ m \in 1..Len(s)
        BY <1>1, <1>6
      <2>2. Gone(s, m - 1) = {s[i] : i \in m..Len(s)}
        BY <2>1 DEF Gone
      <2>3. m..Len(s) = ((m + 1)..Len(s)) \cup {m}
        BY <1>1, <2>1
      <2>4. QED
        BY <2>2, <2>3 DEF Gone
    <1>7. QED
      BY <1>3, <1>4, <1>5, <1>6

\* What is left is a ring of the first m keys.
LEMMA CutIsRing ==
    ASSUME NEW l, NEW s, IsRing(l, s), NEW m \in 0..Len(s)
    PROVE  /\ IsRing(CutAt(l, s, m), First(s, m)) /\ Len(First(s, m)) = m
           /\ \A i \in 0..m : At(First(s, m), i) = At(s, i)
    <1> DEFINE c == CutAt(l, s, m)
               t == First(s, m)
    <1>1. /\ Len(s) \in Nat
          /\ \A i \in 0..(Len(s) + 1) : At(s, i) \in Nodes
          /\ \A i \in 1..Len(s) : At(s, i) = s[i] /\ s[i] \in LruKeys /\ s[i] # LruHead
          /\ At(s, 0) = LruHead
          /\ \A i, j \in 0..Len(s) : At(s, i) = At(s, j) => i = j
      BY PlacesDiffer
    <1>2. /\ t \in Seq(LruKeys) /\ Len(t) = m
          /\ \A i \in 1..m : t[i] = s[i]
      BY <1>1 DEF First
    <1> HIDE DEF t
    <1>3. /\ \A i \in 0..m : At(t, i) = At(s, i)
          /\ At(t, m + 1) = LruHead
      BY <1>1, <1>2 DEF At
    <1>4. \A i \in 0..m : At(s, i) \notin Gone(s, m)
      BY GonePlaces
    <1>5. /\ \A i \in 0..Len(s) : l.next[At(s, i)] = At(s, i + 1) /\ l.pre[At(s, i + 1)] = At(s, i)
          /\ \A i, j \in 1..Len(s) : s[i] = s[j] => i = j
          /\ l.next \in [Nodes -> Nodes \cup {LruFreed}]
          /\ l.pre \in [Nodes -> Nodes \cup {LruFreed}]
      BY DEF IsRing
    <1>6. LruHead \in Nodes /\ m \in Nat
      BY <1>1 DEF Nodes
    <1>7. c.next = [x \in Nodes |-> IF x \in Gone(s, m) THEN LruFreed
                                    ELSE IF x = At(s, m) THEN LruHead ELSE l.next[x]]
      BY DEF CutAt
    <1>8. c.pre = [x \in Nodes |-> IF x \in Gone(s, m) THEN LruFreed
                                   ELSE IF x = LruHead THEN At(s, m) ELSE l.pre[x]]
      BY DEF CutAt
    <1> HIDE DEF c
    <1>9. ASSUME NEW i \in 0..m
          PROVE  c.next[At(t, i)] = At(t, i + 1)
      <2>1. i \in 0..Len(s) /\ m \in 0..Len(s) /\ At(s, i) \in Nodes
        BY <1>1
      <2>2. c.next[At(t, i)] = IF At(s, i) = At(s, m) THEN LruHead ELSE At(s, i + 1)
        BY <1>3, <1>4, <1>5, <1>7, <2>1
      <2>3. CASE i = m
        BY <1>3, <2>2, <2>3
      <2>4. CASE i # m
        <3>1. i + 1 \in 0..m
          BY <1>6, <2>4
        <3>2. At(s, i) # At(s, m)
          BY <1>1, <2>1, <2>4
        <3>3. QED
          BY <1>3, <2>2, <3>1, <3>2
      <2>5. QED
        BY <2>3, <2>4
    <1>10. ASSUME NEW i \in 0..m
           PROVE  c.pre[At(t, i + 1)] = At(t, i)
      <2>1. CASE i = m
        <3>1. LruHead \notin Gone(s, m)
          BY GonePlaces
        <3>2. c.pre[LruHead] = At(s, m)
          BY <1>6, <1>8, <3>1
        <3>3. QED
          BY <1>3, <2>1, <3>2
      <2>2. CASE i # m
        <3>1. i + 1 \in 0..m /\ i + 1 \in 1..Len(s) /\ i \in 0..Len(s) /\ i + 1 \in 0..(Len(s) + 1)
          BY <1>1, <1>6, <2>2
        <3>2. At(t, i + 1) = At(s, i + 1) /\ At(s, i + 1) # LruHead /\ At(s, i + 1) \in Nodes
          BY <1>1, <1>3, <3>1
        <3>3. c.pre[At(s, i + 1)] = l.pre[At(s, i + 1)]
          BY <1>4, <1>8, <3>1, <3>2
        <3>4. QED
          BY <1>3, <1>5, <3>1, <3>2, <3>3
      <2>3. QED
        BY <2>1, <2>2
    <1>11. /\ c.next \in [Nodes -> Nodes \cup {LruFreed}]
           /\ c.pre \in [Nodes -> Nodes \cup {LruFreed}]
      <2>1. At(s, m) \in Nodes
        BY <1>1
      <2>2. QED
        BY <1>5, <1>6, <1>7, <1>8, <2>1
    <1>12. \A i, j \in 1..m : t[i] = t[j] => i = j
      BY <1>1, <1>2, <1>5
    <1>13. IsRing(c, t)
      BY <1>2, <1>9, <1>10, <1>11, <1>12 DEF IsRing
    <1>14. QED
      BY <1>2, <1>3, <1>13 DEF c, t

\* Nothing is gone: the list itself.
LEMMA CutNothing ==
    ASSUME NEW next, NEW pre, NEW s, IsRing([next |-> next, pre |-> pre], s)
    PROVE  CutAt([next |-> next, pre |-> pre], s, Len(s)) = [next |-> next, pre |-> pre]
    <1> DEFINE l == [next |-> next, pre |-> pre]
    <1>1. Len(s) \in Nat /\ Gone(s, Len(s)) = {}
      BY DEF IsRing, Gone
    <1>2. /\ next \in [Nodes -> Nodes \cup {LruFreed}]
          /\ pre \in [Nodes -> Nodes \cup {LruFreed}]
          /\ next[At(s, Len(s))] = At(s, Len(s) + 1)
          /\ pre[At(s, Len(s) + 1)] = At(s, Len(s))
      BY <1>1 DEF IsRing
    <1>3. At(s, Len(s) + 1) = LruHead
      BY PlacesDiffer
    <1>4. next = [x \in Nodes |-> IF x = At(s, Len(s)) THEN LruHead ELSE next[x]]
      BY <1>2, <1>3
    <1>5. pre = [x \in Nodes |-> IF x = LruHead THEN At(s, Len(s)) ELSE pre[x]]
      BY <1>2, <1>3
    <1>6. QED
      BY <1>1, <1>4, <1>5 DEF CutAt

\* Unlinking the last key cuts one more.
LEMMA CutOneMore ==
    ASSUME NEW l, NEW s, IsRing(l, s), NEW m \in 1..Len(s)
    PROVE  /\ CutAt(l, s, m).pre[LruHead] = s[m]
           /\ Unlink(CutAt(l, s, m), s[m]) = CutAt(l, s, m - 1)
           /\ KeysOf(First(s, m)) \ {s[m]} = KeysOf(First(s, m - 1))
    <1> DEFINE c == CutAt(l, s, m)
               d == CutAt(l, s, m - 1)
    <1>1. /\ Len(s) \in Nat /\ m \in 0..Len(s) /\ m - 1 \in 0..Len(s)
          /\ At(s, m) = s[m] /\ s[m] # LruHead /\ s[m] \in Nodes
          /\ At(s, m - 1) \in Nodes /\ At(s, m - 1) # s[m]
      <2>1. Len(s) \in Nat /\ m \in 0..Len(s) /\ m - 1 \in 0..Len(s) /\ m - 1 # m
                /\ m \in 0..(Len(s) + 1) /\ m - 1 \in 0..(Len(s) + 1)
        BY PlacesDiffer
      <2>2. At(s, m) = s[m] /\ At(s, m) # LruHead
        BY PlacesDiffer
      <2>3. At(s, m) \in Nodes /\ At(s, m - 1) \in Nodes
        BY <2>1, PlacesDiffer
      <2>4. At(s, m - 1) # At(s, m)
        BY <2>1, PlacesDiffer
      <2>5. QED
        BY <2>1, <2>2, <2>3, <2>4
    <1>2. IsRing(c, First(s, m)) /\ Len(First(s, m)) = m
          /\ \A i \in 0..m : At(First(s, m), i) = At(s, i)
      BY <1>1, CutIsRing
    <1>3. /\ c.next[s[m]] = LruHead /\ c.pre[s[m]] = At(s, m - 1) /\ c.pre[LruHead] = s[m]
      <2>1. At(First(s, m), m + 1) = LruHead
        BY <1>2, PlacesDiffer
      <2>2. m - 1 \in 0..m /\ m \in 0..m /\ (m - 1) + 1 = m
        BY <1>1
      <2>3. /\ c.next[At(First(s, m), m)] = At(First(s, m), m + 1)
            /\ c.pre[At(First(s, m), m + 1)] = At(First(s, m), m)
            /\ c.pre[At(First(s, m), m)] = At(First(s, m), m - 1)
        BY <1>2, <2>2 DEF IsRing
      <2>4. QED
        BY <1>1, <1>2, <2>1, <2>2, <2>3
    <1>4. /\ Gone(s, m - 1) = Gone(s, m) \cup {s[m]}
          /\ At(s, m - 1) \notin Gone(s, m - 1) /\ LruHead \notin Gone(s, m - 1)
      <2>1. m > 0 /\ m - 1 \in 0..(m - 1)
        BY <1>1
      <2>2. QED
        BY <1>1, <2>1, GonePlaces
    <1>5. /\ c.next = [x \in Nodes |-> IF x \in Gone(s, m) THEN LruFreed
                                       ELSE IF x = s[m] THEN LruHead ELSE l.next[x]]
          /\ c.pre = [x \in Nodes |-> IF x \in Gone(s, m) THEN LruFreed
                                      ELSE IF x = LruHead THEN s[m] ELSE l.pre[x]]
      BY <1>1 DEF CutAt
    <1>6. d = [next |-> [x \in Nodes |-> IF x \in Gone(s, m - 1) THEN LruFreed
                                         ELSE IF x = At(s, m - 1) THEN LruHead ELSE l.next[x]],
               pre |-> [x \in Nodes |-> IF x \in Gone(s, m - 1) THEN LruFreed
                                        ELSE IF x = LruHead THEN At(s, m - 1) ELSE l.pre[x]]]
      BY DEF CutAt
    <1> HIDE DEF c, d
    <1>7. Unlink(c, s[m]) =
              [next |-> [[c.next EXCEPT ![At(s, m - 1)] = LruHead] EXCEPT ![s[m]] = LruFreed],
               pre |-> [[c.pre EXCEPT ![LruHead] = At(s, m - 1)] EXCEPT ![s[m]] = LruFreed]]
      BY <1>3 DEF Unlink, Free, RemoveHandleNode
    <1>8. [[c.next EXCEPT ![At(s, m - 1)] = LruHead] EXCEPT ![s[m]] = LruFreed]
              = [x \in Nodes |-> IF x \in Gone(s, m - 1) THEN LruFreed
                                 ELSE IF x = At(s, m - 1) THEN LruHead ELSE l.next[x]]
      BY <1>1, <1>4, <1>5
    <1>9. [[c.pre EXCEPT ![LruHead] = At(s, m - 1)] EXCEPT ![s[m]] = LruFreed]
              = [x \in Nodes |-> IF x \in Gone(s, m - 1) THEN LruFreed
                                 ELSE IF x = LruHead THEN At(s, m - 1) ELSE l.pre[x]]
      BY <1>1, <1>4, <1>5
    <1>10. Unlink(c, s[m]) = d
      BY <1>6, <1>7, <1>8, <1>9
    <1>11. KeysOf(First(s, m)) \ {s[m]} = KeysOf(First(s, m - 1))
      <2>1. /\ KeysOf(First(s, m)) = {s[i] : i \in 1..m}
            /\ KeysOf(First(s, m - 1)) = {s[i] : i \in 1..(m - 1)}
        <3>1. Len(First(s, m - 1)) = m - 1
          BY <1>1, CutIsRing
        <3>2. QED
          BY <1>2, <3>1 DEF KeysOf, First
      <2>2. 1..m = (1..(m - 1)) \cup {m} /\ \A i \in 1..(m - 1) : s[i] # s[m]
        BY <1>1 DEF IsRing
      <2>3. QED
        BY <2>1, <2>2
    <1>12. QED
      BY <1>3, <1>10, <1>11 DEF c, d

\* One round of RemoveExpiredNodes, and the rounds of its loop.
TrimRound(before) ==
    LET last == before.list.pre[LruHead]
    IN  IF lruMax = 0 \/ Cardinality(before.map) <= lruMax THEN before
        ELSE [list |-> Unlink(before.list, last), map |-> before.map \ {last}]
TrimRounds(l, map) ==
    CHOOSE g : g = [n \in 0..Cardinality(map) |->
                       IF n = 0 THEN [list |-> l, map |-> map] ELSE TrimRound(g[n - 1])]

\* How many keys are left after j rounds, and what the cache is then.
Left(s, j) == IF lruMax = 0 \/ Len(s) <= lruMax THEN Len(s)
              ELSE IF Len(s) - j >= lruMax THEN Len(s) - j ELSE lruMax
AfterRounds(l, s, j) == [list |-> CutAt(l, s, Left(s, j)), map |-> KeysOf(First(s, Left(s, j)))]

\* How many keys the limit lets stay.
Allowed(s) == IF lruMax = 0 \/ Len(s) <= lruMax THEN Len(s) ELSE lruMax

\* A round does nothing to a cache within the limit and cuts one key off another.
LEMMA RoundCuts ==
    ASSUME lruMax \in Nat, NEW l, NEW s, IsRing(l, s), NEW j \in 1..Len(s)
    PROVE  TrimRound(AfterRounds(l, s, j - 1)) = AfterRounds(l, s, j)
    <1> DEFINE m == Left(s, j - 1)
               a == AfterRounds(l, s, j - 1)
    <1>1. Len(s) \in Nat
      BY PlacesDiffer
    <1>2. m \in 0..Len(s)
      BY <1>1 DEF Left
    <1>3. IsRing(CutAt(l, s, m), First(s, m)) /\ Len(First(s, m)) = m
      BY <1>2, CutIsRing
    <1>4. Cardinality(KeysOf(First(s, m))) = m
      BY <1>3, RingCount
    <1>5. a.list = CutAt(l, s, m) /\ a.map = KeysOf(First(s, m)) /\ Cardinality(a.map) = m
      BY <1>4 DEF AfterRounds
    <1>6. CASE lruMax = 0 \/ m <= lruMax
      <2>1. Left(s, j) = m
        BY <1>1, <1>6 DEF Left
      <2>2. TrimRound(a) = a
        BY <1>5, <1>6 DEF TrimRound
      <2>3. QED
        BY <2>1, <2>2 DEF AfterRounds
    <1>7. CASE ~ (lruMax = 0 \/ m <= lruMax)
      <2>1. m \in 1..Len(s) /\ Left(s, j) = m - 1
        BY <1>1, <1>2, <1>7 DEF Left
      <2>2. /\ CutAt(l, s, m).pre[LruHead] = s[m]
            /\ Unlink(CutAt(l, s, m), s[m]) = CutAt(l, s, m - 1)
            /\ KeysOf(First(s, m)) \ {s[m]} = KeysOf(First(s, m - 1))
        BY <2>1, CutOneMore
      <2>3. TrimRound(a) = [list |-> CutAt(l, s, m - 1), map |-> KeysOf(First(s, m - 1))]
        BY <1>5, <1>7, <2>2 DEF TrimRound
      <2>4. QED
        BY <2>1, <2>3 DEF AfterRounds
    <1>8. QED
      BY <1>6, <1>7

\* A solution of the loop's equation takes its rounds.
IsRounds(h, n, start) == h[0] = start /\ \A i \in 1..n : h[i] = TrimRound(h[i - 1])

\* The function that the recursion defines is such a solution.
LEMMA EquationRounds ==
    ASSUME NEW n \in Nat, NEW start, NEW h,
           h = [i \in 0..n |-> IF i = 0 THEN start ELSE TrimRound(h[i - 1])]
    PROVE  IsRounds(h, n, start)
    <1>1. ASSUME NEW i \in 0..n
          PROVE  h[i] = IF i = 0 THEN start ELSE TrimRound(h[i - 1])
      BY Zenon
    <1>2. QED
      BY <1>1 DEF IsRounds

\* RemoveExpiredNodes leaves the first keys of the ring, as many as are allowed.
LEMMA TrimmedIsCut ==
    ASSUME lruMax \in Nat, NEW next, NEW pre, NEW s, IsRing([next |-> next, pre |-> pre], s)
    PROVE  Trimmed([next |-> next, pre |-> pre], KeysOf(s)) =
              [list |-> CutAt([next |-> next, pre |-> pre], s, Allowed(s)),
               map |-> KeysOf(First(s, Allowed(s)))]
    <1> DEFINE l == [next |-> next, pre |-> pre]
               n == Cardinality(KeysOf(s))
               start == [list |-> l, map |-> KeysOf(s)]
               f == TrimRounds(l, KeysOf(s))
               w == [j \in 0..n |-> AfterRounds(l, s, j)]
    <1>1. n \in Nat /\ n = Len(s)
      BY RingCount, PlacesDiffer
    <1>2. Trimmed(l, KeysOf(s)) = f[n]
      BY Zenon DEF Trimmed, TrimRounds, TrimRound
    <1>3. AfterRounds(l, s, 0) = start
      <2>1. Left(s, 0) = Len(s)
        BY <1>1 DEF Left
      <2>2. CutAt(l, s, Len(s)) = l
        BY CutNothing
      <2>3. KeysOf(First(s, Len(s))) = KeysOf(s)
        <3>1. Len(First(s, Len(s))) = Len(s) /\ First(s, Len(s)) = s
          BY <1>1 DEF First, IsRing
        <3>2. QED
          BY <3>1
      <2>4. QED
        BY <2>1, <2>2, <2>3 DEF AfterRounds
    <1>4. \A j \in 1..n : AfterRounds(l, s, j) = TrimRound(AfterRounds(l, s, j - 1))
      BY <1>1, RoundCuts
    <1> HIDE DEF l, start
    <1>5. w = [i \in 0..n |-> IF i = 0 THEN start ELSE TrimRound(w[i - 1])]
      <2>1. ASSUME NEW i \in 0..n
            PROVE  AfterRounds(l, s, i) = IF i = 0 THEN start ELSE TrimRound(w[i - 1])
        <3>1. i # 0 => i \in 1..n /\ i - 1 \in 0..n
          BY <1>1
        <3>2. i # 0 => w[i - 1] = AfterRounds(l, s, i - 1)
          BY <3>1
        <3>3. QED
          BY <1>3, <1>4, <3>1, <3>2
      <2>2. QED
        BY <2>1
    <1>6. w[n] = AfterRounds(l, s, n)
      BY <1>1
    <1> HIDE DEF w
    <1>7. f = [i \in 0..n |-> IF i = 0 THEN start ELSE TrimRound(f[i - 1])]
      BY <1>5, Zenon DEF TrimRounds, start
    <1> HIDE DEF f, n
    <1>8. IsRounds(f, n, start)
      BY <1>1, <1>7, EquationRounds, Zenon
    <1>9. IsRounds(w, n, start)
      BY <1>1, <1>5, EquationRounds, Zenon
    <1>10. Agree(f, w, n)
      BY <1>8, <1>9, Zenon DEF Agree, IsRounds
    <1>11. f[n] = AfterRounds(l, s, n)
      BY <1>1, <1>6, <1>10, AgreeEverywhere
    <1>12. Left(s, n) = Allowed(s)
      BY <1>1 DEF Left, Allowed
    <1>13. QED
      BY <1>2, <1>11, <1>12 DEF AfterRounds, l

-----------------------------------------------------------------------------
\* LRUCache: what each operation does to the ring

\* The ring of the current state, and of the next one.
Holds(s) == IsRing(List, s) /\ lruMap = KeysOf(s)
Leaves(s) == IsRing(List', s) /\ lruMap' = KeysOf(s)

\* The keys that are left once the limit has been applied.
Cut(s) == First(s, Allowed(s))

\* An operation that assigns a ring leaves it in the next state.
LEMMA SetListLeaves ==
    ASSUME NEW l, NEW s, IsRing(l, s), SetList(l), lruMap' = KeysOf(s)
    PROVE  Leaves(s)
    BY DEF Leaves, SetList, IsRing, List

\* The place of a key of the map.
LEMMA KeyHasPlace ==
    ASSUME NEW s, NEW k \in KeysOf(s)
    PROVE  \E p \in 1..Len(s) : s[p] = k
    BY DEF KeysOf

\* A key that is used again moves to the front.
LEMMA MoveToFront ==
    ASSUME NEW l, NEW s, IsRing(l, s), NEW p \in 1..Len(s)
    PROVE  /\ IsRing(InsertHandleNode(RemoveHandleNode(l, s[p]), s[p]), Push(s[p], DropAt(s, p)))
           /\ KeysOf(Push(s[p], DropAt(s, p))) = KeysOf(s)
    <1>1. s[p] \in LruKeys /\ s[p] \in KeysOf(s)
      BY PlacesDiffer DEF KeysOf
    <1>2. KeysOf(DropAt(s, p)) = KeysOf(s) \ {s[p]}
      BY PlacesAfterDrop
    <1>3. IsRing(RemoveHandleNode(l, s[p]), DropAt(s, p))
      BY RemoveKeepsRing
    <1>4. /\ IsRing(InsertHandleNode(RemoveHandleNode(l, s[p]), s[p]), Push(s[p], DropAt(s, p)))
          /\ KeysOf(Push(s[p], DropAt(s, p))) = KeysOf(DropAt(s, p)) \cup {s[p]}
      BY <1>1, <1>2, <1>3, InsertKeepsRing
    <1>5. QED
      BY <1>1, <1>2, <1>4

\* What is left within the limit is a ring.
LEMMA TrimmedRing ==
    ASSUME lruMax \in Nat, NEW next, NEW pre, NEW s, IsRing([next |-> next, pre |-> pre], s)
    PROVE  /\ IsRing(Trimmed([next |-> next, pre |-> pre], KeysOf(s)).list, Cut(s))
           /\ Trimmed([next |-> next, pre |-> pre], KeysOf(s)).map = KeysOf(Cut(s))
    <1>1. Allowed(s) \in 0..Len(s)
      BY PlacesDiffer DEF Allowed
    <1>2. IsRing(CutAt([next |-> next, pre |-> pre], s, Allowed(s)), Cut(s))
      BY <1>1, CutIsRing DEF Cut
    <1> DEFINE r == Trimmed([next |-> next, pre |-> pre], KeysOf(s))
               c == CutAt([next |-> next, pre |-> pre], s, Allowed(s))
    <1>3. r = [list |-> c, map |-> KeysOf(Cut(s))]
      BY TrimmedIsCut DEF Cut
    <1> HIDE DEF r, c
    <1>4. r.list = c /\ r.map = KeysOf(Cut(s))
      BY <1>3
    <1>5. IsRing(r.list, Cut(s)) /\ r.map = KeysOf(Cut(s))
      BY <1>2, <1>4 DEF c
    <1>6. QED
      BY <1>5 DEF r

\* Put: an old key moves to the front, a new one is put there and the list is cut.
LEMMA PutEffect ==
    ASSUME lruMax \in Nat, NEW s, Holds(s), NEW k \in LruKeys, LruPut(k)
    PROVE  IF k \in lruMap THEN \E p \in 1..Len(s) : s[p] = k /\ Leaves(Push(k, DropAt(s, p)))
                           ELSE Leaves(Cut(Push(k, s)))
    <1>1. IsRing(List, s) /\ lruMap = KeysOf(s)
      BY DEF Holds
    <1>2. CASE k \in lruMap
      <2>1. PICK p \in 1..Len(s) : s[p] = k
        BY <1>1, <1>2, KeyHasPlace
      <2>2. SetList(InsertHandleNode(RemoveHandleNode(List, k), k)) /\ lruMap' = lruMap
        BY <1>2 DEF LruPut
      <2>3. /\ IsRing(InsertHandleNode(RemoveHandleNode(List, k), k), Push(k, DropAt(s, p)))
            /\ KeysOf(Push(k, DropAt(s, p))) = KeysOf(s)
        BY <1>1, <2>1, MoveToFront
      <2>4. Leaves(Push(k, DropAt(s, p)))
        BY <1>1, <2>2, <2>3, SetListLeaves
      <2>5. QED
        BY <1>2, <2>1, <2>4
    <1>3. CASE k \notin lruMap
      <2> DEFINE l == InsertHandleNode(List, k)
                 r == Trimmed(l, lruMap \cup {k})
      <2>1. SetList(r.list) /\ lruMap' = r.map
        BY <1>3 DEF LruPut
      <2>2. IsRing(l, Push(k, s)) /\ KeysOf(Push(k, s)) = lruMap \cup {k}
        BY <1>1, <1>3, InsertKeepsRing
      <2>3. PICK next, pre : l = [next |-> next, pre |-> pre]
        BY DEF InsertHandleNode
      <2> HIDE DEF l
      <2>4. IsRing(r.list, Cut(Push(k, s))) /\ r.map = KeysOf(Cut(Push(k, s)))
        BY <2>2, <2>3, TrimmedRing
      <2> HIDE DEF r
      <2>5. Leaves(Cut(Push(k, s)))
        BY <2>1, <2>4, SetListLeaves
      <2>6. QED
        BY <1>3, <2>5
    <1>4. QED
      BY <1>2, <1>3

\* Get cuts the list first; then a key that is there moves to the front or expires.
LEMMA GetEffect ==
    ASSUME lruMax \in Nat, NEW s, Holds(s), NEW k \in LruKeys, LruGet(k)
    PROVE  LET c == Cut(s)
           IN  IF k \in KeysOf(c)
               THEN \E p \in 1..Len(c) : /\ c[p] = k
                                         /\ Leaves(DropAt(c, p)) \/ Leaves(Push(k, DropAt(c, p)))
               ELSE Leaves(c)
    <1> DEFINE c == Cut(s)
               r == Trimmed(List, lruMap)
    <1>1. IsRing(List, s) /\ lruMap = KeysOf(s)
      BY DEF Holds
    <1>2. IsRing(r.list, c) /\ r.map = KeysOf(c)
      BY <1>1, TrimmedRing DEF List
    <1>3. \/ k \notin r.map /\ SetList(r.list) /\ lruMap' = r.map
          \/ k \in r.map /\ SetList(Unlink(r.list, k)) /\ lruMap' = r.map \ {k}
          \/ k \in r.map /\ SetList(InsertHandleNode(RemoveHandleNode(r.list, k), k)) /\ lruMap' = r.map
      BY DEF LruGet
    <1> HIDE DEF c, r
    <1>4. CASE k \notin r.map
      BY <1>2, <1>3, <1>4, SetListLeaves DEF c
    <1>5. CASE k \in r.map
      <2>1. PICK p \in 1..Len(c) : c[p] = k
        BY <1>2, <1>5, KeyHasPlace
      <2>2. CASE SetList(Unlink(r.list, k)) /\ lruMap' = r.map \ {k}
        <3>1. IsRing(Unlink(r.list, k), DropAt(c, p))
          BY <1>2, <2>1, UnlinkKeepsRing
        <3>2. KeysOf(DropAt(c, p)) = r.map \ {k}
          BY <1>2, <2>1, PlacesAfterDrop, SMTT(30)
        <3>3. Leaves(DropAt(c, p))
          BY <2>2, <3>1, <3>2, SetListLeaves
        <3>4. QED
          BY <1>2, <1>5, <2>1, <3>3 DEF c
      <2>3. CASE SetList(InsertHandleNode(RemoveHandleNode(r.list, k), k)) /\ lruMap' = r.map
        <3>1. /\ IsRing(InsertHandleNode(RemoveHandleNode(r.list, k), k), Push(k, DropAt(c, p)))
              /\ KeysOf(Push(k, DropAt(c, p))) = KeysOf(c)
          BY <1>2, <2>1, MoveToFront
        <3>2. Leaves(Push(k, DropAt(c, p)))
          BY <1>2, <2>3, <3>1, SetListLeaves
        <3>3. QED
          BY <1>2, <1>5, <2>1, <3>2 DEF c
      <2>4. QED
        BY <1>3, <1>5, <2>2, <2>3
    <1>6. QED
      BY <1>4, <1>5

\* Del takes the key out.
LEMMA DelEffect ==
    ASSUME NEW s, Holds(s), NEW k \in LruKeys, LruDel(k)
    PROVE  \E p \in 1..Len(s) : s[p] = k /\ Leaves(DropAt(s, p))
    <1>1. IsRing(List, s) /\ lruMap = KeysOf(s)
      BY DEF Holds
    <1>2. k \in lruMap /\ SetList(Unlink(List, k)) /\ lruMap' = lruMap \ {k}
      BY DEF LruDel
    <1>3. PICK p \in 1..Len(s) : s[p] = k
      BY <1>1, <1>2, KeyHasPlace
    <1>4. IsRing(Unlink(List, k), DropAt(s, p))
      BY <1>1, <1>3, UnlinkKeepsRing
    <1>5. KeysOf(DropAt(s, p)) = lruMap \ {k}
      BY <1>1, <1>3, PlacesAfterDrop
    <1>6. QED
      BY <1>2, <1>3, <1>4, <1>5, SetListLeaves

-----------------------------------------------------------------------------
\* LRUCache: the ring stays whole

\* The inductive invariant: the pointers hold the keys of the map in some order.
LruInv == /\ lruTime \in [LruKeys -> 0..LruMaxTime]
          /\ lruMax \in LruLimits /\ lruClock \in 0..LruMaxTime
          /\ \E s : Holds(s)

\* A new cache holds the empty ring.
LEMMA EmptyRing ==
    ASSUME LruInit
    PROVE  Holds(<<>>)
    <1>1. /\ lruNext \in [Nodes -> Nodes \cup {LruFreed}] /\ lruPre \in [Nodes -> Nodes \cup {LruFreed}]
          /\ lruNext[LruHead] = LruHead /\ lruPre[LruHead] = LruHead
      BY DEF LruInit, Nodes
    <1>2. Len(<<>>) = 0 /\ \A i \in Nat : At(<<>>, i) = LruHead
      BY DEF At
    <1>3. KeysOf(<<>>) = {} /\ lruMap = {}
      BY DEF KeysOf, LruInit
    <1>4. QED
      BY <1>1, <1>2, <1>3 DEF Holds, IsRing, List

\* What a ring is to a reader who follows the pointers.
LEMMA RingIsRead ==
    ASSUME LruInv
    PROVE  ListMatchesMap
    <1>1. PICK s : IsRing(List, s) /\ lruMap = KeysOf(s)
      BY DEF LruInv, Holds
    <1> DEFINE n == Cardinality(lruMap)
    <1>2. n = Len(s) /\ n \in Nat
      BY <1>1, RingCount, PlacesDiffer
    <1>3. /\ \A i \in 1..n : s[i] \in LruKeys /\ At(s, i) = s[i]
          /\ At(s, 0) = LruHead /\ At(s, n + 1) = LruHead
      BY <1>1, <1>2, PlacesDiffer
    <1>4. WalkNext = s /\ WalkPre = [i \in 1..n |-> s[n + 1 - i]]
      BY <1>1, <1>2, WalkIsRing
    <1>5. /\ lruNext \in [Nodes -> Nodes \cup {LruFreed}] /\ lruPre \in [Nodes -> Nodes \cup {LruFreed}]
          /\ \A i \in 0..n : lruNext[At(s, i)] = At(s, i + 1) /\ lruPre[At(s, i + 1)] = At(s, i)
      BY <1>1, <1>2 DEF IsRing, List
    <1> HIDE DEF n
    <1>6. LruTypeOK
      <2>1. lruMap \subseteq LruKeys
        BY <1>1, <1>2, <1>3 DEF KeysOf
      <2>2. QED
        BY <1>5, <2>1 DEF LruTypeOK, LruInv
    <1>7. {WalkNext[i] : i \in 1..n} = lruMap
      BY <1>1, <1>2, <1>4 DEF KeysOf
    <1>8. \A i \in 1..n : WalkPre[i] = WalkNext[n + 1 - i]
      BY <1>4
    <1>9. /\ lruNext[At(s, n)] = LruHead /\ lruPre[At(s, 1)] = LruHead
      <2>1. n \in 0..n /\ 0 \in 0..n /\ 0 + 1 = 1
        BY <1>2
      <2>2. QED
        BY <1>3, <1>5, <2>1
    <1>10. (IF n = 0 THEN lruNext[LruHead] ELSE lruNext[WalkNext[n]]) = LruHead
      <2>1. n # 0 => n \in 1..n
        BY <1>2
      <2>2. QED
        BY <1>3, <1>4, <1>9, <2>1
    <1>11. (IF n = 0 THEN lruPre[LruHead] ELSE lruPre[WalkPre[n]]) = LruHead
      <2>1. CASE n = 0
        BY <1>2, <1>3, <1>9, <2>1
      <2>2. CASE n # 0
        <3>1. n \in 1..n /\ n + 1 - n = 1 /\ 1 \in 1..n
          BY <1>2, <2>2
        <3>2. QED
          BY <1>3, <1>4, <1>9, <2>2, <3>1
      <2>3. QED
        BY <2>1, <2>2
    <1>12. QED
      BY <1>6, <1>7, <1>8, <1>10, <1>11 DEF ListMatchesMap, n

\* Every operation leaves the ring of some keys.
LEMMA LruStep ==
    ASSUME LruInv, [LruNextStep]_lruVars
    PROVE  LruInv'
    <1>1. PICK s : Holds(s)
      BY DEF LruInv
    <1>2. lruMax \in Nat /\ 0 \in 0..LruMaxTime
      BY LruAssumption DEF LruInv
    <1>3. ASSUME NEW k \in LruKeys, LruPut(k) \/ LruGet(k) \/ LruDel(k)
          PROVE  LruInv'
      <2>1. /\ lruTime' \in [LruKeys -> 0..LruMaxTime]
            /\ lruMax' \in LruLimits /\ lruClock' \in 0..LruMaxTime
        BY <1>3 DEF LruPut, LruGet, LruDel, LruInv
      <2>2. \E t : Leaves(t)
        <3>1. CASE LruPut(k)
          BY <1>1, <1>2, <3>1, PutEffect
        <3>2. CASE LruGet(k)
          BY <1>1, <1>2, <3>2, GetEffect
        <3>3. CASE LruDel(k)
          BY <1>1, <3>3, DelEffect
        <3>4. QED
          BY <1>3, <3>1, <3>2, <3>3
      <2>3. QED
        BY <2>1, <2>2 DEF LruInv, Leaves, Holds
    <1>4. CASE UNCHANGED <<lruMap, lruNext, lruPre, lruTime>> /\ lruMax' \in LruLimits
               /\ lruClock' \in 0..LruMaxTime
      <2>1. Leaves(s)
        BY <1>1, <1>4 DEF Holds, Leaves, List
      <2>2. QED
        BY <1>4, <2>1 DEF LruInv, Leaves, Holds
    <1>5. QED
      BY <1>3, <1>4 DEF LruNextStep, LruSetLimit, LruClockMoves, LruInv, lruVars

\* Whatever sequence of calls, limits and clock readings: the pointers of the LRU
\* cache form one ring, readable both ways, that holds exactly the keys of the
\* map, and no pointer of it leads to a deleted node (LRUCache::Put, Get, Del,
\* RemoveHandleNode, InsertHandleNode, RemoveExpiredNodes).
THEOREM RingStaysWhole == LruSpec => []ListMatchesMap
    <1>1. LruInit => LruInv
      <2> SUFFICES ASSUME LruInit PROVE LruInv
        OBVIOUS
      <2>1. Holds(<<>>)
        BY EmptyRing
      <2>2. QED
        BY <2>1, LruAssumption DEF LruInv, LruInit
    <1>2. LruInv /\ [LruNextStep]_lruVars => LruInv'
      BY LruStep
    <1>3. LruInv => ListMatchesMap
      BY RingIsRead
    <1>4. QED
      BY <1>1, <1>2, <1>3, PTL DEF LruSpec

-----------------------------------------------------------------------------
\* LRUCache implements RecencyList

\* The operators of the abstract list are those of the ring.
LEMMA PushIsFront ==
    ASSUME NEW s \in Seq(LruKeys), NEW k \in LruKeys
    PROVE  <<k>> \o s = Push(k, s)
    <1>1. Len(s) \in Nat /\ <<k>> \in Seq(LruKeys) /\ Len(<<k>>) = 1
      OBVIOUS
    <1>2. /\ <<k>> \o s \in Seq(LruKeys) /\ Len(<<k>> \o s) = Len(s) + 1
          /\ \A i \in 1..(Len(s) + 1) : (<<k>> \o s)[i] = IF i = 1 THEN k ELSE s[i - 1]
      BY <1>1
    <1>3. /\ Push(k, s) \in Seq(LruKeys) /\ Len(Push(k, s)) = Len(s) + 1
          /\ \A i \in 1..(Len(s) + 1) : Push(k, s)[i] = IF i = 1 THEN k ELSE s[i - 1]
      BY <1>1 DEF Push
    <1>4. PICK a, b, n : a = <<k>> \o s /\ b = Push(k, s) /\ n = Len(s) + 1
      OBVIOUS
    <1>5. /\ a \in Seq(LruKeys) /\ b \in Seq(LruKeys) /\ Len(a) = n /\ Len(b) = n
          /\ \A i \in 1..n : a[i] = b[i]
      BY <1>2, <1>3, <1>4
    <1>6. a = b
      BY <1>5
    <1>7. QED
      BY <1>4, <1>6

\* RlIn of the recency list is membership in the keys of the ring.
LEMMA InIsKey ==
    ASSUME NEW s \in Seq(LruKeys), NEW k
    PROVE  LruList!RlIn(s, k) <=> k \in KeysOf(s)
    BY DEF LruList!RlIn, KeysOf

\* RlWithout is the ring without the place of the key.
LEMMA WithoutIsDrop ==
    ASSUME NEW l, NEW s, IsRing(l, s), NEW p \in 1..Len(s)
    PROVE  LruList!RlWithout(s, s[p]) = DropAt(s, p)
    <1>1. s \in Seq(LruKeys) /\ Len(s) \in Nat /\ DOMAIN s = 1..Len(s)
          /\ \A i, j \in 1..Len(s) : s[i] = s[j] => i = j
      BY DEF IsRing
    <1>2. (CHOOSE i \in DOMAIN s : s[i] = s[p]) = p
      BY <1>1
    <1>3. LruList!RlIn(s, s[p])
      BY <1>1 DEF LruList!RlIn
    <1>4. LruList!RlWithout(s, s[p]) = [j \in 1..(Len(s) - 1) |-> s[IF j < p THEN j ELSE j + 1]]
      BY <1>2, <1>3 DEF LruList!RlWithout
    <1>5. QED
      BY <1>1, <1>4 DEF DropAt

\* RlTrim is the ring cut at the limit.
LEMMA TrimIsCut ==
    ASSUME lruMax \in Nat, NEW s \in Seq(LruKeys)
    PROVE  LruList!RlTrim(s) = Cut(s)
    <1>1. Len(s) \in Nat /\ s = [i \in 1..Len(s) |-> s[i]]
      OBVIOUS
    <1>2. CASE lruMax # 0 /\ Len(s) > lruMax
      <2>1. Allowed(s) = lruMax
        BY <1>1, <1>2 DEF Allowed
      <2>2. SubSeq(s, 1, lruMax) = [i \in 1..lruMax |-> s[i]]
        BY <1>1, <1>2
      <2>3. QED
        BY <1>2, <2>1, <2>2 DEF LruList!RlTrim, Cut, First
    <1>3. CASE ~ (lruMax # 0 /\ Len(s) > lruMax)
      <2>1. Allowed(s) = Len(s)
        BY <1>1, <1>3 DEF Allowed
      <2>2. QED
        BY <1>1, <1>3, <2>1 DEF LruList!RlTrim, Cut, First
    <1>4. QED
      BY <1>2, <1>3

\* The cut list is a ring of other pointers.
LEMMA CutRing ==
    ASSUME lruMax \in Nat, NEW l, NEW s, IsRing(l, s)
    PROVE  \E c : IsRing(c, Cut(s))
    <1>1. Allowed(s) \in 0..Len(s)
      BY PlacesDiffer DEF Allowed
    <1>2. QED
      BY <1>1, CutIsRing DEF Cut

\* In every state the list that is read is the ring.
OrderIs == \A s : Holds(s) => WalkNext = s

\* The walk of the list reads the ring, in every state.
LEMMA OrderRead == OrderIs
    BY WalkIsRing DEF OrderIs, Holds

\* Every step of the cache is a step of the recency list, or changes nothing in it.
LEMMA RefineStep ==
    ASSUME LruInv, [LruNextStep]_lruVars, OrderIs, OrderIs'
    PROVE  [LruList!RlNext]_WalkNext
    <1>1. PICK s : Holds(s)
      BY DEF LruInv
    <1>2. IsRing(List, s) /\ lruMap = KeysOf(s) /\ s \in Seq(LruKeys) /\ WalkNext = s
      BY <1>1 DEF Holds, IsRing, OrderIs
    <1>3. lruMax \in Nat
      BY LruAssumption DEF LruInv
    <1>4. ASSUME NEW t, Leaves(t)
          PROVE  WalkNext' = t
      BY <1>4 DEF Leaves, OrderIs, Holds
    <1>5. LruList!RlTrim(s) = Cut(s)
      BY <1>2, <1>3, TrimIsCut
    <1>6. PICK c : IsRing(c, Cut(s))
      BY <1>2, <1>3, CutRing
    <1>7. Cut(s) \in Seq(LruKeys)
      BY <1>6 DEF IsRing
    <1>8. ASSUME NEW k \in LruKeys, LruPut(k)
          PROVE  LruList!RlNext
      <2>1. CASE k \in lruMap
        <3>1. PICK p \in 1..Len(s) : s[p] = k /\ Leaves(Push(k, DropAt(s, p)))
          BY <1>1, <1>3, <1>8, <2>1, PutEffect
        <3>2. DropAt(s, p) \in Seq(LruKeys) /\ LruList!RlWithout(s, k) = DropAt(s, p)
          BY <1>2, <3>1, PlacesAfterDrop, WithoutIsDrop
        <3>3. WalkNext' = <<k>> \o LruList!RlWithout(WalkNext, k)
          BY <1>2, <1>4, <3>1, <3>2, PushIsFront
        <3>4. LruList!RlIn(WalkNext, k)
          BY <1>2, <2>1, InIsKey
        <3>5. QED
          BY <3>3, <3>4 DEF LruList!RlNext, LruList!RlOverwrite
      <2>2. CASE k \notin lruMap
        <3>1. Leaves(Cut(Push(k, s)))
          BY <1>1, <1>3, <1>8, <2>2, PutEffect
        <3>2. Push(k, s) = <<k>> \o s /\ <<k>> \o s \in Seq(LruKeys)
          BY <1>2, PushIsFront
        <3>3. WalkNext' = LruList!RlTrim(<<k>> \o WalkNext)
          BY <1>2, <1>3, <1>4, <3>1, <3>2, TrimIsCut
        <3>4. ~ LruList!RlIn(WalkNext, k)
          BY <1>2, <2>2, InIsKey
        <3>5. QED
          BY <3>3, <3>4 DEF LruList!RlNext, LruList!RlInsert
      <2>3. QED
        BY <2>1, <2>2
    <1>9. ASSUME NEW k \in LruKeys, LruGet(k)
          PROVE  LruList!RlNext
      <2>1. IF k \in KeysOf(Cut(s))
            THEN \E p \in 1..Len(Cut(s)) :
                    /\ Cut(s)[p] = k
                    /\ Leaves(DropAt(Cut(s), p)) \/ Leaves(Push(k, DropAt(Cut(s), p)))
            ELSE Leaves(Cut(s))
        BY <1>1, <1>3, <1>9, GetEffect
      <2>2. LruList!RlTrim(WalkNext) = Cut(s)
        BY <1>2, <1>5
      <2>3. LruList!RlIn(Cut(s), k) <=> k \in KeysOf(Cut(s))
        BY <1>7, InIsKey
      <2>4. CASE k \notin KeysOf(Cut(s))
        <3>1. WalkNext' = Cut(s)
          BY <1>4, <2>1, <2>4
        <3>2. QED
          BY <2>2, <2>3, <2>4, <3>1 DEF LruList!RlNext, LruList!RlLookup
      <2>5. CASE k \in KeysOf(Cut(s))
        <3>1. PICK p \in 1..Len(Cut(s)) :
                    /\ Cut(s)[p] = k
                    /\ Leaves(DropAt(Cut(s), p)) \/ Leaves(Push(k, DropAt(Cut(s), p)))
          BY <2>1, <2>5
        <3>2. DropAt(Cut(s), p) \in Seq(LruKeys) /\ LruList!RlWithout(Cut(s), k) = DropAt(Cut(s), p)
          BY <1>6, <3>1, PlacesAfterDrop, WithoutIsDrop
        <3>3. CASE Leaves(DropAt(Cut(s), p))
          <4>1. WalkNext' = LruList!RlWithout(LruList!RlTrim(WalkNext), k)
            BY <1>4, <2>2, <3>2, <3>3
          <4>2. QED
            BY <4>1 DEF LruList!RlNext, LruList!RlRemove
        <3>4. CASE Leaves(Push(k, DropAt(Cut(s), p)))
          <4>1. WalkNext' = <<k>> \o LruList!RlWithout(Cut(s), k)
            BY <1>4, <3>2, <3>4, PushIsFront
          <4>2. QED
            BY <2>2, <2>3, <2>5, <4>1 DEF LruList!RlNext, LruList!RlLookup
        <3>5. QED
          BY <3>1, <3>3, <3>4
      <2>6. QED
        BY <2>4, <2>5
    <1>10. ASSUME NEW k \in LruKeys, LruDel(k)
           PROVE  LruList!RlNext
      <2>1. PICK p \in 1..Len(s) : s[p] = k /\ Leaves(DropAt(s, p))
        BY <1>1, <1>10, DelEffect
      <2>2. WalkNext' = LruList!RlWithout(WalkNext, k)
        BY <1>2, <1>4, <2>1, WithoutIsDrop
      <2>3. QED
        BY <2>2 DEF LruList!RlNext, LruList!RlRemove
    <1>11. CASE UNCHANGED <<lruMap, lruNext, lruPre>>
      <2>1. Leaves(s)
        BY <1>1, <1>11 DEF Holds, Leaves, List
      <2>2. QED
        BY <1>2, <1>4, <2>1
    <1>12. QED
      BY <1>8, <1>9, <1>10, <1>11 DEF LruNextStep, LruSetLimit, LruClockMoves, lruVars

\* The LRU cache is a recency list: read from its head, the pointers always give
\* the keys in the order of their last use, and what an insertion or a lookup
\* evicts are the least recently used (LRUCache::Put, Get, Del).
THEOREM CacheIsRecencyList == LruSpec => LRUCacheImplementsRecencyList
    <1>1. LruInit => LruInv
      <2> SUFFICES ASSUME LruInit PROVE LruInv
        OBVIOUS
      <2>1. Holds(<<>>)
        BY EmptyRing
      <2>2. QED
        BY <2>1, LruAssumption DEF LruInv, LruInit
    <1>2. LruInv /\ [LruNextStep]_lruVars => LruInv'
      BY LruStep
    <1>3. LruInit => LruList!RlInit
      BY EmptyRing, OrderRead DEF OrderIs, LruList!RlInit
    <1>4. LruInv /\ [LruNextStep]_lruVars /\ OrderIs /\ OrderIs' => [LruList!RlNext]_WalkNext
      BY RefineStep
    <1>5. QED
      BY <1>1, <1>2, <1>3, <1>4, OrderRead, PTL DEF LruSpec, LRUCacheImplementsRecencyList, LruList!RlSpec

-----------------------------------------------------------------------------
\* HashDB: a chain as the set of its positions

\* The greatest element of a set of positions.
LEMMA GreatestElement ==
    ASSUME NEW n \in Nat, NEW S \in SUBSET (1..n), S # {}
    PROVE  \E x \in S : \A y \in S : y <= x
    <1> DEFINE T == {n - x : x \in S}
    <1>1. T \in SUBSET Nat /\ T # {}
      <2>1. \A x \in S : x \in 1..n /\ n - x \in Nat
        OBVIOUS
      <2>2. QED
        BY <2>1
    <1>2. PICK t \in T : \A u \in T : t <= u
      BY <1>1, LeastElement
    <1>3. PICK x \in S : t = n - x
      OBVIOUS
    <1>4. ASSUME NEW y \in S
          PROVE  y <= x
      <2>1. n - x <= n - y
        BY <1>2, <1>3
      <2>2. x \in 1..n /\ y \in 1..n
        OBVIOUS
      <2>3. QED
        BY <2>1, <2>2
    <1>5. QED
      BY <1>4

\* The walk of ChainAt, for any directory entry and any buckets.
HdWalk(n, start, bs) ==
    CHOOSE g : g = [i \in 0..n |-> IF i = 0 THEN start ELSE IF g[i - 1] = 0 THEN 0 ELSE bs[g[i - 1]].next]
Visits(n, start, bs) == {HdWalk(n, start, bs)[i] : i \in 0..n} \ {0}

IsHdWalk(g, n, start, bs) ==
    /\ g[0] = start
    /\ \A i \in 1..n : g[i] = IF g[i - 1] = 0 THEN 0 ELSE bs[g[i - 1]].next

\* There is such a walk of every length.
LEMMA HdWalkExists ==
    ASSUME NEW start, NEW bs, NEW n \in Nat
    PROVE  \E g : IsHdWalk(g, n, start, bs)
    <1> DEFINE short == {m \in Nat : ~ \E g : IsHdWalk(g, m, start, bs)}
    <1>1. short \in SUBSET Nat /\ \A m \in Nat : m \in short <=> ~ \E g : IsHdWalk(g, m, start, bs)
      OBVIOUS
    <1> HIDE DEF short
    <1>2. ASSUME short # {}
          PROVE  FALSE
      <2>1. PICK m \in short : \A j \in short : m <= j
        BY <1>1, <1>2, LeastElement
      <2>2. m \in Nat /\ ~ \E g : IsHdWalk(g, m, start, bs)
        BY <1>1, <2>1
      <2>3. CASE m = 0
        <3> DEFINE g == [i \in 0..0 |-> start]
        <3>1. IsHdWalk(g, m, start, bs)
          BY <2>3 DEF IsHdWalk
        <3>2. QED
          BY <2>2, <3>1
      <2>4. CASE m # 0
        <3>1. m - 1 \in Nat /\ ~ (m <= m - 1)
          BY <2>2, <2>4
        <3>2. m - 1 \notin short
          BY <2>1, <3>1
        <3>3. PICK g : IsHdWalk(g, m - 1, start, bs)
          BY <1>1, <3>1, <3>2
        <3> DEFINE h == [i \in 0..m |-> IF i = m THEN IF g[m - 1] = 0 THEN 0 ELSE bs[g[m - 1]].next
                                        ELSE g[i]]
        <3>4. h[0] = start
          BY <2>2, <2>4, <3>3 DEF IsHdWalk
        <3>5. ASSUME NEW i \in 1..m
              PROVE  h[i] = IF h[i - 1] = 0 THEN 0 ELSE bs[h[i - 1]].next
          <4>1. i - 1 \in 0..m /\ i - 1 # m /\ i \in 0..m /\ (i # m => i \in 1..(m - 1))
            BY <2>2
          <4>2. h[i - 1] = g[i - 1]
            BY <4>1
          <4>3. CASE i = m
            BY <4>1, <4>2, <4>3
          <4>4. CASE i # m
            <5>1. h[i] = g[i] /\ g[i] = IF g[i - 1] = 0 THEN 0 ELSE bs[g[i - 1]].next
              BY <3>3, <4>1, <4>4 DEF IsHdWalk
            <5>2. QED
              BY <4>2, <5>1
          <4>5. QED
            BY <4>3, <4>4
        <3> HIDE DEF h
        <3>6. IsHdWalk(h, m, start, bs)
          BY <3>4, <3>5 DEF IsHdWalk
        <3>7. QED
          BY <2>2, <3>6
      <2>5. QED
        BY <2>3, <2>4
    <1>3. QED
      BY <1>1, <1>2

\* The recursive definition computes it.
LEMMA HdWalkUnfolds ==
    ASSUME NEW start, NEW bs, NEW n \in Nat
    PROVE  IsHdWalk(HdWalk(n, start, bs), n, start, bs)
    <1>1. PICK w : IsHdWalk(w, n, start, bs)
      BY HdWalkExists
    <1> DEFINE v == [i \in 0..n |-> w[i]]
               f == HdWalk(n, start, bs)
    <1>2. v = [i \in 0..n |-> IF i = 0 THEN start ELSE IF v[i - 1] = 0 THEN 0 ELSE bs[v[i - 1]].next]
      <2>1. ASSUME NEW i \in 0..n
            PROVE  w[i] = IF i = 0 THEN start ELSE IF v[i - 1] = 0 THEN 0 ELSE bs[v[i - 1]].next
        <3>1. i # 0 => i \in 1..n /\ i - 1 \in 0..n
          OBVIOUS
        <3>2. QED
          BY <1>1, <3>1 DEF IsHdWalk
      <2>2. QED
        BY <2>1
    <1> HIDE DEF v
    <1>3. f = [i \in 0..n |-> IF i = 0 THEN start ELSE IF f[i - 1] = 0 THEN 0 ELSE bs[f[i - 1]].next]
      BY <1>2, Zenon DEF HdWalk
    <1> HIDE DEF f
    <1>4. ASSUME NEW i \in 0..n
          PROVE  f[i] = IF i = 0 THEN start ELSE IF f[i - 1] = 0 THEN 0 ELSE bs[f[i - 1]].next
      BY <1>3, Zenon
    <1>5. IsHdWalk(f, n, start, bs)
      BY <1>4 DEF IsHdWalk
    <1>6. QED
      BY <1>5 DEF f

\* q is the position after p in the chain C, or 0 when p is the last: chains
\* are sorted, because a bucket is linked when it is the last of the file.
After(C, p, q) == \/ q \in C /\ p < q /\ \A c \in C : p < c => q <= c
                  \/ q = 0 /\ \A c \in C : ~ (p < c)

\* The chain that begins at start holds the positions C of the n buckets.
ChainOf(start, bs, n, C) == /\ C \in SUBSET (1..n)
                            /\ After(C, 0, start)
                            /\ \A p \in C : After(C, p, bs[p].next)

\* The walk visits exactly the chain and ends.
LEMMA WalkVisitsChain ==
    ASSUME NEW start, NEW bs, NEW n \in Nat, NEW C, ChainOf(start, bs, n, C)
    PROVE  Visits(n, start, bs) = C /\ HdWalk(n, start, bs)[n] = 0
    <1>0. C \in SUBSET (1..n) /\ After(C, 0, start) /\ \A p \in C : After(C, p, bs[p].next)
      BY DEF ChainOf
    <1>a. \A c \in C : c \in 1..n
      BY <1>0
    <1> DEFINE g == HdWalk(n, start, bs)
    <1>1. IsHdWalk(g, n, start, bs)
      BY HdWalkUnfolds
    <1> HIDE DEF g
    <1>2. g[0] = start /\ \A i \in 1..n : g[i] = IF g[i - 1] = 0 THEN 0 ELSE bs[g[i - 1]].next
      BY <1>1 DEF IsHdWalk
    <1> DEFINE In(i) == g[i] = 0 \/ (g[i] \in C /\ i < g[i])
               off == {i \in 0..n : ~ In(i)}
    <1>3. ASSUME NEW i \in 0..n
          PROVE  In(i)
      <2> SUFFICES ASSUME ~ In(i)
                   PROVE  FALSE
        OBVIOUS
      <2>1. off \in SUBSET Nat /\ off # {}
        OBVIOUS
      <2>2. PICK j \in off : \A x \in off : j <= x
        BY <2>1, LeastElement
      <2>3. j \in 0..n /\ ~ In(j)
        BY <2>2
      <2>4. CASE j = 0
        BY <1>0, <1>2, <2>3, <2>4 DEF After
      <2>5. CASE j # 0
        <3>1. j \in 1..n /\ j - 1 \in 0..n /\ ~ (j <= j - 1)
          BY <2>3, <2>5
        <3>2. In(j - 1)
          BY <2>2, <3>1
        <3>3. g[j - 1] \in C /\ j - 1 < g[j - 1] /\ g[j] = bs[g[j - 1]].next
          <4>1. g[j] # 0
            BY <2>3
          <4>2. g[j - 1] # 0 /\ g[j] = bs[g[j - 1]].next
            BY <1>2, <3>1, <4>1
          <4>3. QED
            BY <3>2, <4>2
        <3>4. g[j] \in C /\ g[j - 1] < g[j]
          BY <1>0, <2>3, <3>3 DEF After
        <3>5. g[j] \in 1..n /\ g[j - 1] \in 1..n
          BY <1>0, <3>3, <3>4
        <3>6. j < g[j]
          BY <2>3, <3>3, <3>4, <3>5
        <3>7. QED
          BY <2>3, <3>4, <3>6
      <2>6. QED
        BY <2>4, <2>5
    <1>4. g[n] = 0
      <2>1. In(n)
        BY <1>3
      <2>2. ASSUME g[n] \in C, n < g[n]
            PROVE  FALSE
        <3>1. g[n] \in 1..n
          BY <1>a, <2>2
        <3>2. QED
          BY <2>2, <3>1
      <2>3. QED
        BY <2>1, <2>2
    <1>5. ASSUME NEW c \in C
          PROVE  \E i \in 0..n : g[i] = c
      <2> DEFINE past == {i \in 0..n : g[i] = 0 \/ c <= g[i]}
      <2>1. past \in SUBSET Nat /\ n \in past
        BY <1>4
      <2>2. PICK i \in past : \A x \in past : i <= x
        BY <2>1, LeastElement
      <2>3. i \in 0..n /\ (g[i] = 0 \/ c <= g[i]) /\ c \in 1..n
        BY <1>0, <2>2
      <2>4. CASE i = 0
        <3>1. After(C, 0, g[0])
          BY <1>0, <1>2
        <3>2. g[0] \in C /\ g[0] <= c
          BY <2>3, <3>1 DEF After
        <3>3. g[0] = c
          <4>1. g[0] \in 1..n
            BY <1>a, <3>2
          <4>2. g[0] = 0 \/ c <= g[0]
            BY <2>3, <2>4
          <4>3. QED
            BY <2>3, <3>2, <4>1, <4>2
        <3>4. QED
          BY <2>3, <2>4, <3>3
      <2>5. CASE i # 0
        <3>1. i \in 1..n /\ i - 1 \in 0..n /\ ~ (i <= i - 1)
          BY <2>3, <2>5
        <3>2. i - 1 \notin past
          BY <2>2, <3>1
        <3>3. g[i - 1] # 0 /\ ~ (c <= g[i - 1])
          BY <3>1, <3>2
        <3>4. In(i - 1)
          BY <1>3, <3>1
        <3>5. g[i - 1] \in C /\ g[i] = bs[g[i - 1]].next
          BY <1>2, <3>1, <3>3, <3>4
        <3>6. g[i - 1] \in 1..n /\ g[i - 1] < c
          <4>1. g[i - 1] \in 1..n
            BY <1>a, <3>5
          <4>2. QED
            BY <2>3, <3>3, <4>1
        <3>7. After(C, g[i - 1], g[i])
          BY <1>0, <3>5
        <3>8. g[i] \in C /\ g[i] <= c
          BY <3>6, <3>7 DEF After
        <3>9. g[i] = c
          <4>1. g[i] \in 1..n
            BY <1>a, <3>8
          <4>2. QED
            BY <2>3, <3>8, <4>1
        <3>10. QED
          BY <2>3, <3>9
      <2>6. QED
        BY <2>4, <2>5
    <1>6. 0 \notin C
      BY <1>0
    <1>7. {g[i] : i \in 0..n} \ {0} = C
      <2>1. ASSUME NEW x
            PROVE  x \in {g[i] : i \in 0..n} \ {0} <=> x \in C
        BY <1>3, <1>5, <1>6
      <2>2. QED
        BY <2>1
    <1>8. QED
      BY <1>4, <1>7 DEF g, Visits

\* A chain depends on the links of its own buckets only.
LEMMA ChainKeeps ==
    ASSUME NEW start, NEW bs, NEW bs2, NEW n \in Nat, NEW m \in Nat, n <= m, NEW C,
           ChainOf(start, bs, n, C), \A p \in C : bs2[p].next = bs[p].next
    PROVE  ChainOf(start, bs2, m, C)
    <1>1. 1..n \subseteq 1..m
      OBVIOUS
    <1>2. QED
      BY <1>1 DEF ChainOf

\* Every position of the chain, and its end, has one link that leads to it.
LinksIn(start, bs, C) ==
    /\ \A p, q \in C : bs[p].next = bs[q].next => p = q
    /\ \A p \in C \cup {0} : start = p <=> ~ \E q \in C : bs[q].next = p

\* A chain has such links.
LEMMA ChainLinks ==
    ASSUME NEW start, NEW bs, NEW n \in Nat, NEW C, ChainOf(start, bs, n, C)
    PROVE  LinksIn(start, bs, C)
    <1>1. C \in SUBSET (1..n) /\ After(C, 0, start) /\ \A p \in C : After(C, p, bs[p].next)
      BY DEF ChainOf
    <1>2. \A c \in C : c \in 1..n
      BY <1>1
    <1>3. ASSUME NEW p \in C, NEW q \in C, bs[p].next = bs[q].next, p < q
          PROVE  FALSE
      <2>1. p \in 1..n /\ q \in 1..n
        BY <1>2
      <2>2. bs[p].next \in C /\ bs[p].next <= q
        BY <1>1, <1>3 DEF After
      <2>3. q < bs[p].next
        <3>1. After(C, q, bs[p].next)
          BY <1>1, <1>3
        <3>2. bs[p].next # 0
          BY <1>2, <2>2
        <3>3. QED
          BY <3>1, <3>2 DEF After
      <2>4. bs[p].next \in 1..n
        BY <1>2, <2>2
      <2>5. QED
        BY <2>1, <2>2, <2>3, <2>4
    <1>4. ASSUME NEW p \in C, NEW q \in C, bs[p].next = bs[q].next
          PROVE  p = q
      <2>1. p \in 1..n /\ q \in 1..n /\ ~ (p < q) /\ ~ (q < p)
        BY <1>2, <1>3, <1>4
      <2>2. QED
        BY <2>1
    <1>5. ASSUME NEW q \in C, bs[q].next = start
          PROVE  FALSE
      <2>1. After(C, q, start) /\ q \in 1..n
        BY <1>1, <1>2, <1>5
      <2>2. start \in C /\ start <= q
        <3>1. 0 < q
          BY <2>1
        <3>2. QED
          BY <1>1, <3>1 DEF After
      <2>3. start \in 1..n
        BY <1>2, <2>2
      <2>4. q < start
        BY <2>1, <2>3 DEF After
      <2>5. QED
        BY <2>1, <2>2, <2>3, <2>4
    <1>6. ASSUME C # {}
          PROVE  \E q \in C : bs[q].next = 0
      <2>1. PICK q \in C : \A c \in C : c <= q
        BY <1>1, <1>6, GreatestElement
      <2>2. ASSUME NEW c \in C
            PROVE  ~ (q < c)
        BY <1>2, <2>1
      <2>3. QED
        BY <1>1, <2>2 DEF After
    <1>7. ASSUME NEW p \in C, start # p
          PROVE  \E q \in C : bs[q].next = p
      <2> DEFINE S == {c \in C : c < p}
      <2>1. start \in C /\ start < p
        <3>1. p \in 1..n /\ 0 < p
          BY <1>2
        <3>2. start \in C /\ start <= p
          BY <1>1, <3>1 DEF After
        <3>3. start \in 1..n
          BY <1>2, <3>2
        <3>4. QED
          BY <1>7, <3>1, <3>2, <3>3
      <2>2. S \in SUBSET (1..n) /\ S # {}
        BY <1>1, <2>1
      <2>3. PICK q \in S : \A c \in S : c <= q
        BY <2>2, GreatestElement
      <2>4. q \in C /\ q < p /\ q \in 1..n /\ p \in 1..n
        BY <1>2, <2>3
      <2>5. After(C, q, bs[q].next)
        BY <1>1, <2>4
      <2>6. bs[q].next \in C /\ q < bs[q].next /\ bs[q].next <= p
        BY <2>4, <2>5 DEF After
      <2>7. bs[q].next \in 1..n
        BY <1>2, <2>6
      <2>8. ~ (bs[q].next < p)
        <3>1. ASSUME bs[q].next < p
              PROVE  FALSE
          <4>1. bs[q].next <= q
            BY <2>3, <2>6, <3>1
          <4>2. QED
            BY <2>4, <2>6, <2>7, <4>1
        <3>2. QED
          BY <3>1
      <2>9. QED
        BY <2>4, <2>6, <2>7, <2>8
    <1>8. ASSUME NEW p \in C \cup {0}
          PROVE  start = p <=> ~ \E q \in C : bs[q].next = p
      <2>1. CASE start = p
        BY <1>5, <2>1
      <2>2. CASE start # p /\ p \in C
        BY <1>7, <2>2
      <2>3. CASE start # p /\ p \notin C
        <3>1. p = 0 /\ start \in C
          BY <1>1, <2>3 DEF After
        <3>2. QED
          BY <1>6, <2>3, <3>1
      <2>4. QED
        BY <2>1, <2>2, <2>3
    <1>9. QED
      BY <1>4, <1>8 DEF LinksIn

\* Every link from S to p leads to r now, the others are as they were.
Moved(link, p, r) == IF link = p THEN r ELSE link
LinksMoved(bs, bs2, S, p, r) == \A q \in S : bs2[q].next = Moved(bs[q].next, p, r)

\* Linking a new bucket behind the last one.
LEMMA ChainGrows ==
    ASSUME NEW start, NEW bs, NEW n \in Nat, NEW C, ChainOf(start, bs, n, C),
           NEW start2, start2 = Moved(start, 0, n + 1),
           NEW bs2, bs2[n + 1].next = 0, LinksMoved(bs, bs2, C, 0, n + 1)
    PROVE  ChainOf(start2, bs2, n + 1, C \cup {n + 1})
    <1>1. C \in SUBSET (1..n) /\ After(C, 0, start) /\ \A p \in C : After(C, p, bs[p].next)
      BY DEF ChainOf
    <1>2. \A c \in C : c \in 1..n
      BY <1>1
    <1> DEFINE D == C \cup {n + 1}
    <1>3. ASSUME NEW p \in 0..n, NEW q, After(C, p, q)
          PROVE  After(D, p, IF q = 0 THEN n + 1 ELSE q)
      <2>1. CASE q = 0
        <3>1. \A c \in C : ~ (p < c)
          BY <1>2, <1>3, <2>1 DEF After
        <3>2. p < n + 1 /\ n + 1 <= n + 1
          OBVIOUS
        <3>3. QED
          BY <2>1, <3>1, <3>2 DEF After
      <2>2. CASE q # 0
        <3>1. q \in C /\ p < q /\ \A c \in C : p < c => q <= c
          BY <1>3, <2>2 DEF After
        <3>2. q \in 1..n
          BY <1>2, <3>1
        <3>3. q <= n + 1
          BY <3>2
        <3>4. QED
          BY <2>2, <3>1, <3>3 DEF After
      <2>3. QED
        BY <2>1, <2>2
    <1>4. D \in SUBSET (1..(n + 1))
      BY <1>1
    <1>5. After(D, 0, start2)
      BY <1>1, <1>3 DEF Moved
    <1>6. ASSUME NEW p \in C
          PROVE  After(D, p, bs2[p].next)
      <2>1. p \in 0..n
        BY <1>2
      <2>2. QED
        BY <1>1, <1>3, <2>1 DEF LinksMoved, Moved
    <1>7. After(D, n + 1, bs2[n + 1].next)
      <2>1. ASSUME NEW c \in D
            PROVE  ~ (n + 1 < c)
        BY <1>2
      <2>2. QED
        BY <2>1 DEF After
    <1>8. QED
      BY <1>4, <1>5, <1>6, <1>7 DEF ChainOf

\* Unlinking a bucket.
LEMMA ChainDrops ==
    ASSUME NEW start, NEW bs, NEW n \in Nat, NEW C, ChainOf(start, bs, n, C), NEW p \in C,
           NEW start2, start2 = Moved(start, p, bs[p].next),
           NEW bs2, LinksMoved(bs, bs2, C \ {p}, p, bs[p].next)
    PROVE  ChainOf(start2, bs2, n, C \ {p})
    <1>1. C \in SUBSET (1..n) /\ After(C, 0, start) /\ \A q \in C : After(C, q, bs[q].next)
      BY DEF ChainOf
    <1>2. \A c \in C : c \in 1..n
      BY <1>1
    <1> DEFINE D == C \ {p}
               r == bs[p].next
    <1>3. After(C, p, r) /\ p \in 1..n
      BY <1>1, <1>2
    <1> HIDE DEF r
    <1>4. ASSUME NEW x \in 0..n, NEW q, After(C, x, q)
          PROVE  After(D, x, IF q = p THEN r ELSE q)
      <2>1. CASE q = p
        <3>1. x < p /\ \A c \in C : x < c => p <= c
          BY <1>3, <1>4, <2>1 DEF After
        <3>2. ASSUME NEW c \in D, x < c
              PROVE  p < c
          <4>1. c \in 1..n /\ p <= c /\ c # p
            BY <1>2, <3>1, <3>2
          <4>2. QED
            BY <1>3, <4>1
        <3>3. CASE r = 0
          <4>1. \A c \in C : ~ (p < c)
            BY <1>2, <1>3, <3>3 DEF After
          <4>2. QED
            BY <2>1, <3>2, <3>3, <4>1 DEF After
        <3>4. CASE r # 0
          <4>1. r \in C /\ p < r /\ \A c \in C : p < c => r <= c
            BY <1>3, <3>4 DEF After
          <4>2. r \in 1..n
            BY <1>2, <4>1
          <4>3. x < r /\ r # p
            BY <1>3, <3>1, <4>1, <4>2
          <4>4. r \in D /\ \A c \in D : x < c => r <= c
            BY <3>2, <4>1, <4>3
          <4>5. QED
            BY <2>1, <4>3, <4>4 DEF After
        <3>5. QED
          BY <3>3, <3>4
      <2>2. CASE q # p
        BY <1>4, <2>2 DEF After
      <2>3. QED
        BY <2>1, <2>2
    <1>5. D \in SUBSET (1..n)
      BY <1>1
    <1>6. After(D, 0, start2)
      BY <1>1, <1>4 DEF r, Moved
    <1>7. ASSUME NEW q \in D
          PROVE  After(D, q, bs2[q].next)
      <2>1. q \in 0..n /\ q \in C
        BY <1>2
      <2>2. QED
        BY <1>1, <1>4, <2>1 DEF r, LinksMoved, Moved
    <1>8. QED
      BY <1>5, <1>6, <1>7 DEF ChainOf

-----------------------------------------------------------------------------
\* HashDB: the index and the records

\* The chains C of a directory over n buckets: each holds keys of its slot, no
\* key twice.
Index(dir, bs, n, C) ==
    /\ C \in [HdSlots -> SUBSET (1..n)]
    /\ \A s \in HdSlots : ChainOf(dir[s], bs, n, C[s])
    /\ \A s \in HdSlots : \A p \in C[s] : HdSlot[bs[p].key] = s /\ bs[p].ver >= 1
    /\ \A s \in HdSlots : \A p, q \in C[s] : bs[p].key = bs[q].key => p = q

\* The record of bucket p is there.
Fits(bs, data, p) == bs[p].data <= Len(data) /\ data[bs[p].data].key = bs[p].key

\* What a chain's buckets point to: the record with their key and version, or
\* none for good.
Records(bs, data, lost, C) ==
    /\ \A s \in HdSlots : \A p \in C[s] :
          lost[bs[p].key] = NotLost => Fits(bs, data, p) /\ data[bs[p].data].ver = bs[p].ver
    /\ \A k \in HdKeys : lost[k] # NotLost =>
          \E p \in C[HdSlot[k]] : bs[p].key = k /\ ~ Fits(bs, data, p)

FoundIn(bs, S, k) == LET hits == {p \in S : bs[p].key = k}
                     IN  IF hits = {} THEN 0 ELSE CHOOSE p \in hits : TRUE

\* The bucket of a key.
LEMMA FoundIs ==
    ASSUME NEW bs, NEW S, 0 \notin S, \A p, q \in S : bs[p].key = bs[q].key => p = q, NEW k
    PROVE  /\ FoundIn(bs, S, k) = 0 => \A p \in S : bs[p].key # k
           /\ FoundIn(bs, S, k) # 0 => FoundIn(bs, S, k) \in S /\ bs[FoundIn(bs, S, k)].key = k
           /\ \A p \in S : bs[p].key = k => FoundIn(bs, S, k) = p
    <1> DEFINE hits == {p \in S : bs[p].key = k}
    <1>1. hits # {} => (CHOOSE p \in hits : TRUE) \in hits
      OBVIOUS
    <1>2. FoundIn(bs, S, k) = IF hits = {} THEN 0 ELSE CHOOSE p \in hits : TRUE
      BY DEF FoundIn
    <1>3. FoundIn(bs, S, k) \in hits \/ (hits = {} /\ FoundIn(bs, S, k) = 0)
      BY <1>1, <1>2
    <1>4. QED
      BY <1>3

\* The walks of the model read the chains.
LEMMA IndexRead ==
    ASSUME NEW C, NEW n \in Nat, n = Len(hdBuckets), Index(hdDir, hdBuckets, n, C)
    PROVE  /\ \A s \in HdSlots : InChain(s) = C[s] /\ ChainAt(s)[n] = 0
           /\ \A k \in HdKeys : FoundAt(k) = FoundIn(hdBuckets, C[HdSlot[k]], k)
    <1>1. ASSUME NEW s \in HdSlots
          PROVE  InChain(s) = C[s] /\ ChainAt(s)[n] = 0
      <2>1. ChainAt(s) = HdWalk(n, hdDir[s], hdBuckets)
        BY DEF ChainAt, NextOf, HdWalk
      <2>2. InChain(s) = Visits(n, hdDir[s], hdBuckets)
        BY <2>1 DEF InChain, Visits
      <2>3. ChainOf(hdDir[s], hdBuckets, n, C[s])
        BY DEF Index
      <2>4. QED
        BY <2>1, <2>2, <2>3, WalkVisitsChain
    <1>2. ASSUME NEW k \in HdKeys
          PROVE  FoundAt(k) = FoundIn(hdBuckets, C[HdSlot[k]], k)
      <2>1. InChain(HdSlot[k]) = C[HdSlot[k]]
        BY <1>1, HdAssumption
      <2>2. QED
        BY <2>1 DEF FoundAt, FoundIn
    <1>3. QED
      BY <1>1, <1>2

\* The same after a step.
LEMMA IndexReadNext ==
    ASSUME NEW C, NEW n \in Nat, n = Len(hdBuckets'), Index(hdDir', hdBuckets', n, C)
    PROVE  /\ \A s \in HdSlots : InChain(s)' = C[s]
           /\ \A k \in HdKeys : FoundAt(k)' = FoundIn(hdBuckets', C[HdSlot[k]], k)
    <1>1. ASSUME NEW s \in HdSlots
          PROVE  InChain(s)' = C[s]
      <2>1. ChainAt(s)' = HdWalk(n, hdDir'[s], hdBuckets')
        BY DEF ChainAt, NextOf, HdWalk
      <2>2. InChain(s)' = Visits(n, hdDir'[s], hdBuckets')
        BY <2>1 DEF InChain, Visits
      <2>3. ChainOf(hdDir'[s], hdBuckets', n, C[s])
        BY DEF Index
      <2>4. QED
        BY <2>2, <2>3, WalkVisitsChain
    <1>2. ASSUME NEW k \in HdKeys
          PROVE  FoundAt(k)' = FoundIn(hdBuckets', C[HdSlot[k]], k)
      <2>1. InChain(HdSlot[k])' = C[HdSlot[k]]
        BY <1>1, HdAssumption
      <2>2. QED
        BY <2>1 DEF FoundAt, FoundIn
    <1>3. QED
      BY <1>1, <1>2

\* The bucket before a position of the chain, or 0 for the directory entry.
LEMMA BeforeIs ==
    ASSUME NEW C, NEW n \in Nat, n = Len(hdBuckets), Index(hdDir, hdBuckets, n, C),
           NEW s \in HdSlots, NEW p \in C[s] \cup {0}
    PROVE  \/ Before(s, p) = 0 /\ hdDir[s] = p
           \/ Before(s, p) \in C[s] /\ hdBuckets[Before(s, p)].next = p /\ hdDir[s] # p
    <1> DEFINE pre == {q \in C[s] : hdBuckets[q].next = p}
    <1>1. InChain(s) = C[s]
      BY IndexRead
    <1>2. Before(s, p) = IF pre = {} THEN 0 ELSE CHOOSE q \in pre : TRUE
      BY <1>1 DEF Before
    <1>3. ChainOf(hdDir[s], hdBuckets, n, C[s])
      BY DEF Index
    <1>4. hdDir[s] = p <=> ~ \E q \in C[s] : hdBuckets[q].next = p
      <2>1. LinksIn(hdDir[s], hdBuckets, C[s])
        BY <1>3, ChainLinks
      <2>2. QED
        BY <2>1 DEF LinksIn
    <1>5. pre # {} => (CHOOSE q \in pre : TRUE) \in pre
      OBVIOUS
    <1>6. QED
      BY <1>2, <1>4, <1>5

\* The chains of two slots have no bucket in common.
LEMMA ChainsApart ==
    ASSUME NEW dir, NEW bs, NEW n \in Nat, NEW C, Index(dir, bs, n, C),
           NEW s \in HdSlots, NEW t \in HdSlots, NEW p \in C[s], p \in C[t]
    PROVE  s = t
    BY DEF Index

\* A step that changes no link and no key leaves the chains as they are: a Put
\* on a key that exists, or one that ends with its bucket not yet linked.
LEMMA IndexKeeps ==
    ASSUME NEW dir, NEW bs, NEW n \in Nat, NEW C, Index(dir, bs, n, C), NEW m \in Nat, n <= m,
           NEW bs2, \A p \in 1..n : /\ bs2[p].key = bs[p].key /\ bs2[p].next = bs[p].next
                                    /\ bs[p].ver >= 1 => bs2[p].ver >= 1
    PROVE  Index(dir, bs2, m, C)
    <1>1. C \in [HdSlots -> SUBSET (1..n)] /\ 1..n \subseteq 1..m
      BY DEF Index
    <1>2. C \in [HdSlots -> SUBSET (1..m)]
      BY <1>1
    <1>3. \A s \in HdSlots : \A p \in C[s] : p \in 1..n
      BY <1>1
    <1>4. ASSUME NEW s \in HdSlots
          PROVE  ChainOf(dir[s], bs2, m, C[s])
      <2>1. ChainOf(dir[s], bs, n, C[s])
        BY DEF Index
      <2>2. \A p \in C[s] : bs2[p].next = bs[p].next
        BY <1>3
      <2>3. QED
        BY <2>1, <2>2, ChainKeeps
    <1>5. \A s \in HdSlots : \A p \in C[s] : bs2[p].key = bs[p].key /\ (bs[p].ver >= 1 => bs2[p].ver >= 1)
      BY <1>3
    <1>6. QED
      BY <1>2, <1>4, <1>5 DEF Index

\* The link that leads to position p of the chain of slot s is that of bucket
\* b, or of the directory when b is 0.
LinkTo(dir, bs, C, s, p, b) ==
    \/ b = 0 /\ dir[s] = p
    \/ b \in C[s] /\ bs[b].next = p /\ dir[s] # p
\* That link is made to point to r.
Relinked(dir, bs, n, s, b, r, dir2, bs2) ==
    /\ \A t \in HdSlots : dir2[t] = IF t = s /\ b = 0 THEN r ELSE dir[t]
    /\ \A i \in 1..n : /\ bs2[i].next = IF i = b THEN r ELSE bs[i].next
                       /\ bs2[i].key = bs[i].key /\ bs2[i].ver = bs[i].ver

\* It changes one chain only.
OneMoved(dir, bs, C, s, p, r, dir2, bs2) ==
    /\ dir2[s] = Moved(dir[s], p, r)
    /\ LinksMoved(bs, bs2, C[s], p, r)
    /\ \A t \in HdSlots \ {s} : dir2[t] = dir[t] /\ \A q \in C[t] : bs2[q].next = bs[q].next
    /\ \A t \in HdSlots : \A q \in C[t] : bs2[q].key = bs[q].key /\ bs2[q].ver = bs[q].ver

\* A changed link of one chain is no link of another.
LEMMA RelinkedLinks ==
    ASSUME NEW dir, NEW bs, NEW n \in Nat, NEW C, Index(dir, bs, n, C),
           NEW s \in HdSlots, NEW p \in C[s] \cup {0}, NEW b, LinkTo(dir, bs, C, s, p, b),
           NEW r, NEW dir2, NEW bs2, Relinked(dir, bs, n, s, b, r, dir2, bs2)
    PROVE  OneMoved(dir, bs, C, s, p, r, dir2, bs2)
    <1>1. \A t \in HdSlots : \A q \in C[t] : q \in 1..n
      BY DEF Index
    <1>2. LinksIn(dir[s], bs, C[s])
      <2>1. ChainOf(dir[s], bs, n, C[s])
        BY DEF Index
      <2>2. QED
        BY <2>1, ChainLinks
    <1>3. 0 \notin C[s] /\ (b # 0 => b \in C[s])
      BY <1>1 DEF LinkTo
    <1>4. dir2[s] = IF dir[s] = p THEN r ELSE dir[s]
      BY <1>3 DEF LinkTo, Relinked
    <1>5. ASSUME NEW q \in C[s]
          PROVE  q = b <=> bs[q].next = p
      BY <1>2, <1>3 DEF LinkTo, LinksIn
    <1>6. \A q \in C[s] : bs2[q].next = IF bs[q].next = p THEN r ELSE bs[q].next
      BY <1>1, <1>5 DEF Relinked
    <1>7. ASSUME NEW t \in HdSlots \ {s}, NEW q \in C[t]
          PROVE  bs2[q].next = bs[q].next
      <2>1. q # b
        <3>1. SUFFICES ASSUME q = b
                       PROVE  FALSE
          OBVIOUS
        <3>2. q \in 1..n
          BY <1>1
        <3>3. q \in C[s]
          BY <1>3, <3>1, <3>2
        <3>4. QED
          BY <3>3, ChainsApart
      <2>2. QED
        BY <1>1, <2>1 DEF Relinked
    <1>8. \A t \in HdSlots \ {s} : dir2[t] = dir[t]
      BY DEF Relinked
    <1>9. QED
      BY <1>1, <1>4, <1>6, <1>7, <1>8 DEF Relinked, OneMoved, Moved, LinksMoved

\* Del: the bucket leaves the chain of its slot.
LEMMA IndexDrops ==
    ASSUME NEW dir, NEW bs, NEW n \in Nat, NEW C, Index(dir, bs, n, C),
           NEW s \in HdSlots, NEW p \in C[s], NEW b, LinkTo(dir, bs, C, s, p, b),
           NEW dir2, NEW bs2, Relinked(dir, bs, n, s, b, bs[p].next, dir2, bs2)
    PROVE  Index(dir2, bs2, n, [C EXCEPT ![s] = @ \ {p}])
    <1> DEFINE D == [C EXCEPT ![s] = @ \ {p}]
    <1>0. OneMoved(dir, bs, C, s, p, bs[p].next, dir2, bs2)
      BY RelinkedLinks
    <1>1. /\ dir2[s] = Moved(dir[s], p, bs[p].next) /\ LinksMoved(bs, bs2, C[s], p, bs[p].next)
          /\ \A t \in HdSlots \ {s} : dir2[t] = dir[t] /\ \A q \in C[t] : bs2[q].next = bs[q].next
          /\ \A t \in HdSlots : \A q \in C[t] : bs2[q].key = bs[q].key /\ bs2[q].ver = bs[q].ver
      BY <1>0 DEF OneMoved
    <1>2. C \in [HdSlots -> SUBSET (1..n)]
      BY DEF Index
    <1>3. D \in [HdSlots -> SUBSET (1..n)] /\ D[s] = C[s] \ {p} /\ \A t \in HdSlots \ {s} : D[t] = C[t]
      BY <1>2
    <1> HIDE DEF D
    <1>4. ASSUME NEW t \in HdSlots
          PROVE  ChainOf(dir2[t], bs2, n, D[t])
      <2>1. ChainOf(dir[t], bs, n, C[t])
        BY DEF Index
      <2>2. CASE t = s
        <3>0. LinksMoved(bs, bs2, C[s] \ {p}, p, bs[p].next)
          BY <1>1 DEF LinksMoved
        <3>1. ChainOf(dir2[s], bs2, n, C[s] \ {p})
          BY <1>1, <2>1, <2>2, <3>0, ChainDrops
        <3>2. QED
          BY <1>3, <2>2, <3>1
      <2>3. CASE t # s
        <3>1. dir2[t] = dir[t] /\ D[t] = C[t] /\ \A q \in C[t] : bs2[q].next = bs[q].next
          BY <1>1, <1>3, <2>3
        <3>2. ChainOf(dir[t], bs2, n, C[t])
          BY <2>1, <3>1, ChainKeeps
        <3>3. QED
          BY <3>1, <3>2
      <2>4. QED
        BY <2>2, <2>3
    <1>5. \A t \in HdSlots : \A q \in D[t] : q \in C[t]
      BY <1>3
    <1>6. \A t \in HdSlots : \A q \in D[t] : bs2[q].key = bs[q].key /\ bs2[q].ver = bs[q].ver
      BY <1>1, <1>5
    <1>7. Index(dir2, bs2, n, D)
      BY <1>3, <1>4, <1>5, <1>6 DEF Index
    <1>8. QED
      BY <1>7 DEF D

\* Put on a new key: the new bucket joins the chain of its slot.
LEMMA IndexGrows ==
    ASSUME NEW dir, NEW bs, NEW n \in Nat, NEW C, Index(dir, bs, n, C),
           NEW k \in HdKeys, NEW s \in HdSlots, s = HdSlot[k], \A q \in C[s] : bs[q].key # k,
           NEW b, LinkTo(dir, bs, C, s, 0, b),
           NEW dir2, NEW bs2, Relinked(dir, bs, n, s, b, n + 1, dir2, bs2),
           bs2[n + 1].next = 0, bs2[n + 1].key = k, bs2[n + 1].ver = 1
    PROVE  Index(dir2, bs2, n + 1, [C EXCEPT ![s] = @ \cup {n + 1}])
    <1> DEFINE D == [C EXCEPT ![s] = @ \cup {n + 1}]
    <1>0. OneMoved(dir, bs, C, s, 0, n + 1, dir2, bs2)
      BY RelinkedLinks
    <1>1. /\ dir2[s] = Moved(dir[s], 0, n + 1) /\ LinksMoved(bs, bs2, C[s], 0, n + 1)
          /\ \A t \in HdSlots \ {s} : dir2[t] = dir[t] /\ \A q \in C[t] : bs2[q].next = bs[q].next
          /\ \A t \in HdSlots : \A q \in C[t] : bs2[q].key = bs[q].key /\ bs2[q].ver = bs[q].ver
      BY <1>0 DEF OneMoved
    <1>2. C \in [HdSlots -> SUBSET (1..n)]
      BY DEF Index
    <1>3. D[s] = C[s] \cup {n + 1} /\ \A t \in HdSlots \ {s} : D[t] = C[t]
      BY <1>2
    <1>4. D \in [HdSlots -> SUBSET (1..(n + 1))]
      <2>1. 1..n \subseteq 1..(n + 1) /\ n + 1 \in 1..(n + 1)
        OBVIOUS
      <2>2. C \in [HdSlots -> SUBSET (1..(n + 1))]
        BY <1>2, <2>1
      <2>3. QED
        BY <2>1, <2>2
    <1> HIDE DEF D
    <1>5. ASSUME NEW t \in HdSlots
          PROVE  ChainOf(dir2[t], bs2, n + 1, D[t])
      <2>1. ChainOf(dir[t], bs, n, C[t])
        BY DEF Index
      <2>2. CASE t = s
        <3>1. ChainOf(dir2[s], bs2, n + 1, C[s] \cup {n + 1})
          BY <1>1, <2>1, <2>2, ChainGrows
        <3>2. QED
          BY <1>3, <2>2, <3>1
      <2>3. CASE t # s
        <3>1. dir2[t] = dir[t] /\ D[t] = C[t] /\ \A q \in C[t] : bs2[q].next = bs[q].next
          BY <1>1, <1>3, <2>3
        <3>2. n + 1 \in Nat /\ n <= n + 1
          OBVIOUS
        <3>3. ChainOf(dir[t], bs2, n + 1, C[t])
          BY <2>1, <3>1, <3>2, ChainKeeps
        <3>4. QED
          BY <3>1, <3>3
      <2>4. QED
        BY <2>2, <2>3
    <1>6. \A t \in HdSlots : \A q \in D[t] : q \in C[t] \/ (t = s /\ q = n + 1)
      BY <1>3
    <1>7. ASSUME NEW t \in HdSlots, NEW q \in D[t]
          PROVE  HdSlot[bs2[q].key] = t /\ bs2[q].ver >= 1
      <2>1. CASE q \in C[t]
        BY <1>1, <2>1 DEF Index
      <2>2. CASE t = s /\ q = n + 1
        BY <2>2
      <2>3. QED
        BY <1>6, <2>1, <2>2
    <1>8. ASSUME NEW t \in HdSlots, NEW p \in D[t], NEW q \in D[t], bs2[p].key = bs2[q].key
          PROVE  p = q
      <2>1. CASE p \in C[t] /\ q \in C[t]
        BY <1>1, <1>8, <2>1 DEF Index
      <2>2. CASE t = s /\ p = n + 1
        BY <1>1, <1>6, <1>8, <2>2
      <2>3. CASE t = s /\ q = n + 1
        BY <1>1, <1>6, <1>8, <2>3
      <2>4. QED
        BY <1>6, <2>1, <2>2, <2>3
    <1>9. Index(dir2, bs2, n + 1, D)
      BY <1>4, <1>5, <1>7, <1>8 DEF Index
    <1>10. QED
      BY <1>9 DEF D

-----------------------------------------------------------------------------
\* HashDB: what a step does to the records

SameEntry(bs, bs2, q) == bs2[q].key = bs[q].key /\ bs2[q].data = bs[q].data /\ bs2[q].ver = bs[q].ver

\* The buckets of the chains D stay as they were, and those that leave the
\* chains C have their record.
Shrinks(bs, data, bs2, C, D) ==
    \A t \in HdSlots : /\ D[t] \subseteq C[t]
                       /\ \A q \in D[t] : SameEntry(bs, bs2, q)
                       /\ \A q \in C[t] \ D[t] : Fits(bs, data, q)

\* Del, and a Put that dies before it links its bucket.
LEMMA RecordsShrink ==
    ASSUME NEW bs, NEW data, NEW lost, NEW C, Records(bs, data, lost, C),
           NEW bs2, NEW D, Shrinks(bs, data, bs2, C, D)
    PROVE  Records(bs2, data, lost, D)
    <1>1. ASSUME NEW s \in HdSlots, NEW q \in D[s], lost[bs2[q].key] = NotLost
          PROVE  Fits(bs2, data, q) /\ data[bs2[q].data].ver = bs2[q].ver
      <2>1. SameEntry(bs, bs2, q) /\ q \in C[s]
        BY DEF Shrinks
      <2>2. Fits(bs, data, q) /\ data[bs[q].data].ver = bs[q].ver
        BY <1>1, <2>1 DEF Records, SameEntry
      <2>3. QED
        BY <2>1, <2>2 DEF Fits, SameEntry
    <1>2. ASSUME NEW k \in HdKeys, lost[k] # NotLost
          PROVE  \E q \in D[HdSlot[k]] : bs2[q].key = k /\ ~ Fits(bs2, data, q)
      <2>1. PICK q \in C[HdSlot[k]] : bs[q].key = k /\ ~ Fits(bs, data, q)
        BY <1>2 DEF Records
      <2>2. HdSlot[k] \in HdSlots
        BY HdAssumption
      <2>3. q \in D[HdSlot[k]] /\ SameEntry(bs, bs2, q)
        BY <2>1, <2>2 DEF Shrinks
      <2>4. QED
        BY <2>1, <2>3 DEF Fits, SameEntry
    <1>3. QED
      BY <1>1, <1>2 DEF Records

\* Bucket p of the chains D is the one of key k and points behind the data;
\* the others are those of C, unchanged.
Points(bs, data, bs2, C, D, k, p) ==
    /\ bs2[p].key = k /\ bs2[p].data = Len(data) + 1 /\ p \in D[HdSlot[k]]
    /\ \A t \in HdSlots : \A q \in D[t] : q # p => q \in C[t] /\ SameEntry(bs, bs2, q)
    /\ \A t \in HdSlots : \A q \in C[t] : (bs[q].key = k <=> q = p) /\ q \in D[t]

\* The record is written, or it is lost with the process.
PutWritten(data, lost, k, ver, data2, lost2) ==
    \/ /\ lost2 = lost
       /\ \E rec \in HdRecord : rec.key = k /\ rec.ver = ver /\ data2 = Append(data, rec)
    \/ /\ data2 = data
       /\ \E old : old # NotLost /\ lost2 = [lost EXCEPT ![k] = old]

\* Put, wherever it dies after it links its bucket.
LEMMA RecordsPut ==
    ASSUME NEW bs, NEW data \in Seq(HdRecord), NEW lost, NEW C, Records(bs, data, lost, C),
           \A t \in HdSlots : \A q \in C[t] : bs[q].key \in HdKeys /\ bs[q].data \in Nat \ {0},
           DOMAIN lost = HdKeys, NEW k \in HdKeys, lost[k] = NotLost,
           NEW bs2, NEW D, NEW p, Points(bs, data, bs2, C, D, k, p),
           NEW data2, NEW lost2, PutWritten(data, lost, k, bs2[p].ver, data2, lost2)
    PROVE  Records(bs2, data2, lost2, D)
    <1> DEFINE len == Len(data)
    <1>0. len \in Nat /\ HdSlot[k] \in HdSlots
      BY HdAssumption
    <1>1. Len(data2) \in {len, len + 1} /\ \A d \in 1..len : data2[d] = data[d]
      <2>1. CASE data2 = data
        BY <2>1
      <2>2. CASE \E rec \in HdRecord : data2 = Append(data, rec)
        BY <2>2
      <2>3. QED
        BY <2>1, <2>2 DEF PutWritten
    <1>2. \A d \in {len + 1} : d <= Len(data2) => data2[d].key = k
      <2>1. CASE data2 = data
        BY <1>0, <2>1
      <2>2. CASE \E rec \in HdRecord : rec.key = k /\ data2 = Append(data, rec)
        BY <2>2
      <2>3. QED
        BY <2>1, <2>2 DEF PutWritten
    <1>3. \A j \in HdKeys : j # k => lost2[j] = lost[j]
      BY DEF PutWritten
    <1>4. lost2[k] = NotLost =>
             Len(data2) = len + 1 /\ data2[len + 1].key = k /\ data2[len + 1].ver = bs2[p].ver
      <2>1. CASE lost2 = lost /\ \E rec \in HdRecord : /\ rec.key = k /\ rec.ver = bs2[p].ver
                                                      /\ data2 = Append(data, rec)
        BY <2>1
      <2>2. CASE \E old : old # NotLost /\ lost2 = [lost EXCEPT ![k] = old]
        BY <2>2
      <2>3. QED
        BY <2>1, <2>2 DEF PutWritten
    <1>5. lost2[k] # NotLost => Len(data2) = len
      BY DEF PutWritten
    <1> HIDE DEF len
    <1>6. bs2[p].key = k /\ bs2[p].data = len + 1 /\ p \in D[HdSlot[k]]
      BY DEF Points, len
    <1>7. ASSUME NEW s \in HdSlots, NEW q \in D[s], lost2[bs2[q].key] = NotLost
          PROVE  Fits(bs2, data2, q) /\ data2[bs2[q].data].ver = bs2[q].ver
      <2>1. CASE q = p
        BY <1>0, <1>4, <1>6, <1>7, <2>1 DEF Fits
      <2>2. CASE q # p
        <3>1. q \in C[s] /\ SameEntry(bs, bs2, q)
          BY <2>2 DEF Points
        <3>2. bs[q].key # k
          BY <2>2, <3>1 DEF Points
        <3>3. lost[bs[q].key] = NotLost
          BY <1>3, <1>7, <3>1, <3>2 DEF SameEntry
        <3>4. Fits(bs, data, q) /\ data[bs[q].data].ver = bs[q].ver
          BY <3>1, <3>3 DEF Records
        <3>5. bs[q].data \in 1..len
          <4>1. bs[q].data \in Nat \ {0} /\ bs[q].data <= len
            BY <3>1, <3>4 DEF Fits, len
          <4>2. QED
            BY <1>0, <4>1
        <3>6. data2[bs[q].data] = data[bs[q].data] /\ bs[q].data <= Len(data2)
          BY <1>0, <1>1, <3>5
        <3>7. QED
          BY <3>1, <3>4, <3>6 DEF Fits, SameEntry
      <2>3. QED
        BY <2>1, <2>2
    <1>8. ASSUME NEW j \in HdKeys, lost2[j] # NotLost
          PROVE  \E q \in D[HdSlot[j]] : bs2[q].key = j /\ ~ Fits(bs2, data2, q)
      <2>1. CASE j = k
        <3>1. ~ Fits(bs2, data2, p)
          BY <1>0, <1>5, <1>6, <1>8, <2>1 DEF Fits
        <3>2. QED
          BY <1>6, <2>1, <3>1
      <2>2. CASE j # k
        <3>1. lost[j] # NotLost /\ HdSlot[j] \in HdSlots
          BY <1>3, <1>8, <2>2, HdAssumption
        <3>2. PICK q \in C[HdSlot[j]] : bs[q].key = j /\ ~ Fits(bs, data, q)
          BY <3>1 DEF Records
        <3>3. q \in D[HdSlot[j]] /\ SameEntry(bs, bs2, q)
          BY <2>2, <3>1, <3>2 DEF Points
        <3>4. PICK d \in Nat \ {0} : d = bs[q].data
          BY <3>1, <3>2
        <3>5. ~ (d <= len) \/ data[d].key # j
          BY <3>2, <3>4 DEF Fits, len
        <3>6. ~ (d <= Len(data2)) \/ data2[d].key # j
          <4>1. CASE d <= len
            <5>1. d \in 1..len
              BY <1>0, <4>1
            <5>2. QED
              BY <1>1, <3>5, <4>1, <5>1
          <4>2. CASE d = len + 1
            BY <1>2, <2>2, <4>2
          <4>3. CASE ~ (d <= len) /\ d # len + 1
            BY <1>0, <1>1, <4>3
          <4>4. QED
            BY <4>1, <4>2, <4>3
        <3>7. QED
          BY <3>2, <3>3, <3>4, <3>6 DEF Fits, SameEntry
      <2>3. QED
        BY <2>1, <2>2
    <1>9. QED
      BY <1>7, <1>8 DEF Records

-----------------------------------------------------------------------------
\* HashDB: the number of buckets in the chains

HdLinked(C) == UNION {C[s] : s \in HdSlots}

\* The buckets in the chains can be counted.
LEMMA LinkedFinite ==
    ASSUME NEW n \in Nat, NEW C \in [HdSlots -> SUBSET (1..n)]
    PROVE  IsFiniteSet(HdLinked(C)) /\ Cardinality(HdLinked(C)) \in 0..n
    <1>1. HdLinked(C) \subseteq 1..n
      BY DEF HdLinked
    <1>2. IsFiniteSet(1..n) /\ Cardinality(1..n) = n
      BY FS_Interval
    <1>3. IsFiniteSet(HdLinked(C)) /\ Cardinality(HdLinked(C)) <= n
      BY <1>1, <1>2, FS_Subset
    <1>4. Cardinality(HdLinked(C)) \in Nat
      BY <1>3, FS_CardinalityType
    <1>5. QED
      BY <1>3, <1>4

\* A bucket at the end of the file is one more.
LEMMA LinkedGrows ==
    ASSUME NEW n \in Nat, NEW C \in [HdSlots -> SUBSET (1..n)], NEW s \in HdSlots
    PROVE  Cardinality(HdLinked([C EXCEPT ![s] = @ \cup {n + 1}])) = Cardinality(HdLinked(C)) + 1
    <1> DEFINE D == [C EXCEPT ![s] = @ \cup {n + 1}]
    <1>1. D[s] = C[s] \cup {n + 1} /\ \A t \in HdSlots \ {s} : D[t] = C[t]
      OBVIOUS
    <1> HIDE DEF D
    <1>2. HdLinked(D) = HdLinked(C) \cup {n + 1}
      <2>1. ASSUME NEW x
            PROVE  (\E t \in HdSlots : x \in D[t]) <=> (\E t \in HdSlots : x \in C[t]) \/ x = n + 1
        BY <1>1
      <2>2. QED
        BY <2>1 DEF HdLinked
    <1>3. n + 1 \notin HdLinked(C)
      BY DEF HdLinked
    <1>4. IsFiniteSet(HdLinked(C))
      BY LinkedFinite
    <1>5. Cardinality(HdLinked(D)) = Cardinality(HdLinked(C)) + 1
      BY <1>2, <1>3, <1>4, FS_AddElement
    <1>6. QED
      BY <1>5 DEF D

\* A bucket that is unlinked is one less.
LEMMA LinkedDrops ==
    ASSUME NEW dir, NEW bs, NEW n \in Nat, NEW C, Index(dir, bs, n, C), NEW s \in HdSlots, NEW p \in C[s]
    PROVE  Cardinality(HdLinked([C EXCEPT ![s] = @ \ {p}])) = Cardinality(HdLinked(C)) - 1
    <1> DEFINE D == [C EXCEPT ![s] = @ \ {p}]
    <1>0. C \in [HdSlots -> SUBSET (1..n)]
      BY DEF Index
    <1>1. D[s] = C[s] \ {p} /\ \A t \in HdSlots \ {s} : D[t] = C[t]
      BY <1>0
    <1>2. \A t \in HdSlots \ {s} : p \notin C[t]
      BY ChainsApart
    <1> HIDE DEF D
    <1>3. HdLinked(D) = HdLinked(C) \ {p}
      <2>1. ASSUME NEW x
            PROVE  (\E t \in HdSlots : x \in D[t]) <=> (\E t \in HdSlots : x \in C[t]) /\ x # p
        BY <1>1, <1>2
      <2>2. QED
        BY <2>1 DEF HdLinked
    <1>4. p \in HdLinked(C)
      BY DEF HdLinked
    <1>5. IsFiniteSet(HdLinked(C))
      BY <1>0, LinkedFinite
    <1>6. Cardinality(HdLinked(D)) = Cardinality(HdLinked(C)) - 1
      BY <1>3, <1>4, <1>5, FS_RemoveElement
    <1>7. QED
      BY <1>6 DEF D

-----------------------------------------------------------------------------
\* HashDB: the inductive invariant

\* Unless a call was cut, used_cnt in the file is the number of buckets in the
\* chains, and the one in memory is the same.
Counted(C) == ~hdCut => hdInfo = Cardinality(HdLinked(C)) /\ (hdUp => hdUsed = hdInfo)

HdShape(C) == /\ Index(hdDir, hdBuckets, Len(hdBuckets), C)
              /\ Records(hdBuckets, hdData, hdLost, C)
              /\ Counted(C)

HdCell == [val : HdValues \cup {HdNoValue}, ver : Nat \cup {-1}]
HdTypes == HdTypeOK /\ hdLost \in [HdKeys -> HdCell]

HdInv == HdTypes /\ \E C : HdShape(C)

\* Two buckets of the chains with the same key are the same, and FoundAt finds it.
LEMMA FoundInChain ==
    ASSUME HdTypes, NEW C, HdShape(C), NEW k \in HdKeys
    PROVE  /\ HdSlot[k] \in HdSlots /\ Len(hdBuckets) \in Nat
           /\ C \in [HdSlots -> SUBSET (1..Len(hdBuckets))]
           /\ FoundAt(k) = 0 => \A p \in C[HdSlot[k]] : hdBuckets[p].key # k
           /\ FoundAt(k) # 0 => /\ FoundAt(k) \in C[HdSlot[k]] /\ FoundAt(k) \in 1..Len(hdBuckets)
                                /\ hdBuckets[FoundAt(k)].key = k
           /\ \A t \in HdSlots : \A p \in C[t] : hdBuckets[p].key = k => FoundAt(k) = p
    <1> DEFINE n == Len(hdBuckets)
               s == HdSlot[k]
    <1>1. n \in Nat /\ s \in HdSlots
      BY HdAssumption DEF HdTypes, HdTypeOK
    <1> HIDE DEF n, s
    <1>2. Index(hdDir, hdBuckets, n, C)
      BY DEF HdShape, n
    <1>3. /\ FoundAt(k) = FoundIn(hdBuckets, C[s], k)
      <2>1. n = Len(hdBuckets)
        BY DEF n
      <2>2. QED
        BY <1>1, <1>2, <2>1, IndexRead DEF s
    <1>4. /\ C \in [HdSlots -> SUBSET (1..n)]
          /\ \A p, q \in C[s] : hdBuckets[p].key = hdBuckets[q].key => p = q
          /\ \A t \in HdSlots : \A p \in C[t] : HdSlot[hdBuckets[p].key] = t
      BY <1>1, <1>2 DEF Index
    <1>5. 0 \notin C[s]
      BY <1>1, <1>4
    <1>6. /\ FoundAt(k) = 0 => \A p \in C[s] : hdBuckets[p].key # k
          /\ FoundAt(k) # 0 => FoundAt(k) \in C[s] /\ hdBuckets[FoundAt(k)].key = k
          /\ \A p \in C[s] : hdBuckets[p].key = k => FoundAt(k) = p
      <2>1. \A p, q \in C[s] : hdBuckets[p].key = hdBuckets[q].key => p = q
        BY <1>4
      <2> DEFINE f == FoundIn(hdBuckets, C[s], k)
      <2>2. /\ f = 0 => \A p \in C[s] : hdBuckets[p].key # k
            /\ f # 0 => f \in C[s] /\ hdBuckets[f].key = k
            /\ \A p \in C[s] : hdBuckets[p].key = k => f = p
        BY <1>5, <2>1, FoundIs, Zenon
      <2> HIDE DEF f
      <2>3. FoundAt(k) = f
        BY <1>3 DEF f
      <2>4. QED
        BY <2>2, <2>3
    <1>7. FoundAt(k) # 0 => FoundAt(k) \in 1..n
      BY <1>1, <1>4, <1>6
    <1>8. \A t \in HdSlots : \A p \in C[t] : hdBuckets[p].key = k => FoundAt(k) = p
      BY <1>4, <1>6 DEF s
    <1>9. QED
      BY <1>1, <1>4, <1>6, <1>7, <1>8 DEF n, s

\* A key that a Put accepts is not lost.
LEMMA NotYetLost ==
    ASSUME HdTypes, NEW C, HdShape(C), NEW k \in HdKeys, FoundAt(k) = 0 \/ Readable(FoundAt(k))
    PROVE  hdLost[k] = NotLost
    <1>1. SUFFICES ASSUME hdLost[k] # NotLost
                   PROVE  FALSE
      OBVIOUS
    <1>2. PICK p \in C[HdSlot[k]] : hdBuckets[p].key = k /\ ~ Fits(hdBuckets, hdData, p)
      BY <1>1 DEF HdShape, Records
    <1>3. HdSlot[k] \in HdSlots /\ FoundAt(k) = p /\ p \in 1..Len(hdBuckets)
      BY <1>2, FoundInChain
    <1>4. FoundAt(k) # 0
      BY <1>3, FoundInChain
    <1>5. QED
      BY <1>2, <1>3, <1>4 DEF Readable, Fits

\* What Get returns is a cell.
LEMMA LookupCell ==
    ASSUME HdTypes, NEW C, HdShape(C), NEW k \in HdKeys, FoundAt(k) = 0 \/ Readable(FoundAt(k))
    PROVE  Lookup(k) \in HdCell /\ Lookup(k) # NotLost
    <1>1. CASE FoundAt(k) = 0
      BY <1>1 DEF Lookup, HdCell, NotLost
    <1>2. CASE FoundAt(k) # 0
      <2>1. FoundAt(k) \in 1..Len(hdBuckets) /\ Readable(FoundAt(k))
        BY <1>2, FoundInChain
      <2>2. hdBuckets[FoundAt(k)] \in HdBucket
        BY <2>1 DEF HdTypes, HdTypeOK
      <2>3. hdBuckets[FoundAt(k)].data \in 1..Len(hdData)
        BY <2>1, <2>2 DEF HdTypes, HdTypeOK, HdBucket, Readable
      <2>4. hdData[hdBuckets[FoundAt(k)].data] \in HdRecord
        BY <2>3 DEF HdTypes, HdTypeOK
      <2>5. QED
        BY <1>2, <2>4 DEF Lookup, HdRecord, HdCell, NotLost
    <1>3. QED
      BY <1>1, <1>2

\* A sequence with one element replaced.
LEMMA SeqUpdated ==
    ASSUME NEW S, NEW seq \in Seq(S), NEW p \in 1..Len(seq), NEW x \in S, NEW seq2,
           seq2 = [seq EXCEPT ![p] = x]
    PROVE  /\ seq2 \in Seq(S) /\ Len(seq2) = Len(seq)
           /\ \A i \in 1..Len(seq) : seq2[i] = IF i = p THEN x ELSE seq[i]
    OBVIOUS

\* The counters at the end of a call.
LEMMA CountersStep ==
    ASSUME HdTypes, hdUp, NEW used \in Int, NEW cut \in BOOLEAN, Counters(used, cut),
           NEW D, ~hdCut /\ ~cut => used = Cardinality(HdLinked(D)), Cardinality(HdLinked(D)) \in 0..HdMaxBuckets
    PROVE  /\ hdUp' \in BOOLEAN /\ hdCut' \in BOOLEAN
           /\ hdInfo' \in 0..(HdWrap - 1) /\ hdUsed' \in 0..(HdWrap - 1)
           /\ Counted(D)'
    <1>1. HdWrap \in Nat /\ HdMaxBuckets \in Nat /\ HdWrap > HdMaxBuckets
      BY HdAssumption
    <1>2. hdCut \in BOOLEAN /\ hdInfo \in 0..(HdWrap - 1)
      BY DEF HdTypes, HdTypeOK
    <1>3. CASE cut
      <2>1. hdUp' = FALSE /\ hdCut' = TRUE /\ hdUsed' = 0 /\ hdInfo' = hdInfo
        BY <1>3 DEF Counters
      <2>2. hdUsed' \in 0..(HdWrap - 1) /\ hdInfo' \in 0..(HdWrap - 1)
        BY <1>1, <1>2, <2>1
      <2>3. hdUp' \in BOOLEAN /\ hdCut' \in BOOLEAN /\ Counted(D)'
        BY <2>1, Zenon DEF Counted
      <2>4. QED
        BY <2>2, <2>3
    <1>4. CASE ~cut
      <2>1. hdUsed' = used % HdWrap /\ hdInfo' = hdUsed' /\ hdCut' = hdCut /\ hdUp' = hdUp
        BY <1>4 DEF Counters
      <2>2. used % HdWrap \in 0..(HdWrap - 1)
        BY <1>1
      <2>3. ASSUME ~hdCut
            PROVE  hdUsed' = Cardinality(HdLinked(D))
        <3>1. used \in 0..HdMaxBuckets /\ used = Cardinality(HdLinked(D))
          BY <1>4, <2>3
        <3>2. used % HdWrap = used
          BY <1>1, <3>1
        <3>3. QED
          BY <2>1, <3>1, <3>2
      <2>4. Counted(D)'
        BY <2>1, <2>3 DEF Counted
      <2>5. QED
        BY <1>2, <2>1, <2>2, <2>4
    <1>5. QED
      BY <1>3, <1>4

\* The type of a step, from the parts it changes.
LEMMA TypesFromParts ==
    ASSUME hdUp' \in BOOLEAN, hdCut' \in BOOLEAN,
           hdInfo' \in 0..(HdWrap - 1), hdUsed' \in 0..(HdWrap - 1),
           hdDir' \in [HdSlots -> 0..HdMaxBuckets],
           hdBuckets' \in Seq(HdBucket), Len(hdBuckets') <= HdMaxBuckets,
           hdData' \in Seq(HdRecord), Len(hdData') <= HdMaxData,
           hdLost' \in [HdKeys -> HdCell]
    PROVE  HdTypes'
    BY DEF HdTypes, HdTypeOK, HdCell

\* The record of a Put and what it leaves when the process dies before it.
LEMMA WrittenTypes ==
    ASSUME HdTypes, NEW k \in HdKeys, NEW v \in HdValues, NEW ver \in Nat, NEW old \in HdCell,
           old # NotLost, NEW died \in BOOLEAN, Len(hdData) < HdMaxData,
           hdData' = IF died THEN hdData ELSE Append(hdData, [key |-> k, val |-> v, ver |-> ver]),
           hdLost' = IF died THEN [hdLost EXCEPT ![k] = old] ELSE hdLost
    PROVE  /\ PutWritten(hdData, hdLost, k, ver, hdData', hdLost')
           /\ hdData' \in Seq(HdRecord) /\ Len(hdData') <= HdMaxData
           /\ hdLost' \in [HdKeys -> HdCell]
    <1> DEFINE rec == [key |-> k, val |-> v, ver |-> ver]
    <1>1. rec \in HdRecord /\ rec.key = k /\ rec.ver = ver
      BY DEF HdRecord
    <1>2. /\ hdData \in Seq(HdRecord) /\ Len(hdData) <= HdMaxData /\ hdLost \in [HdKeys -> HdCell]
          /\ HdMaxData \in Nat
      BY HdAssumption DEF HdTypes, HdTypeOK
    <1> HIDE DEF rec
    <1>3. CASE died
      BY <1>2, <1>3 DEF PutWritten
    <1>4. CASE ~died
      <2>1. hdData' = Append(hdData, rec) /\ hdLost' = hdLost
        BY <1>4 DEF rec
      <2>2. hdData' \in Seq(HdRecord) /\ Len(hdData') = Len(hdData) + 1
        BY <1>1, <1>2, <2>1
      <2>3. PutWritten(hdData, hdLost, k, ver, hdData', hdLost')
        BY <1>1, <2>1 DEF PutWritten
      <2>4. QED
        BY <1>2, <2>1, <2>2, <2>3
    <1>5. QED
      BY <1>3, <1>4

\* What the types say of a bucket of the chains.
LEMMA ChainBuckets ==
    ASSUME HdTypes, NEW C, HdShape(C)
    PROVE  /\ \A i \in 1..Len(hdBuckets) : hdBuckets[i] \in HdBucket
           /\ \A t \in HdSlots : \A q \in C[t] : hdBuckets[q].key \in HdKeys /\ hdBuckets[q].data \in Nat \ {0}
    <1>1. \A i \in 1..Len(hdBuckets) : hdBuckets[i] \in HdBucket
      BY DEF HdTypes, HdTypeOK
    <1>2. C \in [HdSlots -> SUBSET (1..Len(hdBuckets))]
      BY DEF HdShape, Index
    <1>3. ASSUME NEW t \in HdSlots, NEW q \in C[t]
          PROVE  hdBuckets[q].key \in HdKeys /\ hdBuckets[q].data \in Nat \ {0}
      <2>1. hdBuckets[q] \in HdBucket
        BY <1>1, <1>2
      <2>2. QED
        BY <2>1, HdAssumption DEF HdBucket
    <1>4. QED
      BY <1>1, <1>3

\* The number of buckets in the chains and used_cnt.
LEMMA CountNow ==
    ASSUME HdTypes, NEW C, HdShape(C), hdUp
    PROVE  /\ hdUsed \in Int /\ HdMaxBuckets \in Nat
           /\ ~hdCut => hdUsed = Cardinality(HdLinked(C))
           /\ Cardinality(HdLinked(C)) \in 0..Len(hdBuckets)
           /\ Len(hdBuckets) \in 0..HdMaxBuckets
    <1>1. Len(hdBuckets) \in Nat /\ C \in [HdSlots -> SUBSET (1..Len(hdBuckets))]
      BY DEF HdShape, Index, HdTypes, HdTypeOK
    <1>2. Cardinality(HdLinked(C)) \in 0..Len(hdBuckets)
      BY <1>1, LinkedFinite
    <1>3. QED
      BY <1>1, <1>2, HdAssumption DEF HdShape, Counted, HdTypes, HdTypeOK

\* Put on a key that exists keeps the invariant, with the same chains.
LEMMA PutExistingStep ==
    ASSUME HdTypes, NEW C, HdShape(C), hdUp, NEW k \in HdKeys, NEW v \in HdValues, NEW version,
           NEW progress, PutExisting(k, v, version, progress)
    PROVE  /\ HdTypes' /\ HdShape(C)'
           /\ Points(hdBuckets, hdData, hdBuckets', C, C, k, FoundAt(k))
    <1> DEFINE n == Len(hdBuckets)
               p == FoundAt(k)
               s == HdSlot[k]
               ver == hdBuckets[p].ver + 1
               died == progress = "pointer"
    <1>1. p # 0 /\ Readable(p) /\ Len(hdData) < HdMaxData
      BY DEF PutExisting
    <1>2. hdBuckets' = [hdBuckets EXCEPT ![p].ver = ver, ![p].data = Len(hdData) + 1]
      BY DEF PutExisting
    <1>3. /\ hdData' = IF died THEN hdData ELSE Append(hdData, [key |-> k, val |-> v, ver |-> ver])
          /\ hdLost' = IF died THEN [hdLost EXCEPT ![k] = Lookup(k)] ELSE hdLost
          /\ hdDir' = hdDir /\ Counters(hdUsed, progress # "done")
      BY DEF PutExisting
    <1>4. /\ s \in HdSlots /\ n \in Nat /\ C \in [HdSlots -> SUBSET (1..n)]
          /\ p \in C[s] /\ p \in 1..n /\ hdBuckets[p].key = k
          /\ \A t \in HdSlots : \A q \in C[t] : hdBuckets[q].key = k => p = q
      BY <1>1, FoundInChain
    <1>5. hdLost[k] = NotLost /\ Lookup(k) \in HdCell /\ Lookup(k) # NotLost
      BY <1>1, NotYetLost, LookupCell
    <1>6. hdBuckets \in Seq(HdBucket) /\ hdBuckets[p] \in HdBucket /\ hdData \in Seq(HdRecord)
      BY <1>4 DEF HdTypes, HdTypeOK
    <1>7. ver \in Nat /\ Len(hdData) + 1 \in 1..HdMaxData
      <2>1. hdBuckets[p].ver \in Nat
        BY <1>6 DEF HdBucket
      <2>2. ver \in Nat
        BY <2>1
      <2>3. Len(hdData) \in Nat /\ Len(hdData) < HdMaxData /\ HdMaxData \in Nat
        BY <1>1, <1>6, HdAssumption
      <2>4. QED
        BY <2>2, <2>3
    <1> HIDE DEF n, p, s, ver, died
    <1> DEFINE new == [hdBuckets[p] EXCEPT !.ver = ver, !.data = Len(hdData) + 1]
    <1>8. hdBuckets' = [hdBuckets EXCEPT ![p] = new]
      BY <1>2, <1>4, <1>6
    <1>9. /\ new.key = k /\ new.next = hdBuckets[p].next /\ new.ver = ver /\ new.data = Len(hdData) + 1
          /\ new \in HdBucket
      BY <1>4, <1>6, <1>7 DEF HdBucket
    <1> HIDE DEF new
    <1>10. /\ hdBuckets' \in Seq(HdBucket) /\ Len(hdBuckets') = n
           /\ \A i \in 1..n : hdBuckets'[i] = IF i = p THEN new ELSE hdBuckets[i]
      BY <1>4, <1>6, <1>8, <1>9, SeqUpdated DEF n
    <1>11. Index(hdDir', hdBuckets', n, C)
      <2>1. Index(hdDir, hdBuckets, n, C)
        BY DEF HdShape, n
      <2>2. \A q \in 1..n : /\ hdBuckets'[q].key = hdBuckets[q].key
                            /\ hdBuckets'[q].next = hdBuckets[q].next
                            /\ hdBuckets[q].ver >= 1 => hdBuckets'[q].ver >= 1
        <3>1. ver >= 1
          BY <1>6, <1>7 DEF ver, HdBucket
        <3>2. QED
          BY <1>4, <1>9, <1>10, <3>1
      <2>3. Index(hdDir, hdBuckets', n, C)
        BY <1>4, <2>1, <2>2, IndexKeeps
      <2>4. QED
        BY <1>3, <2>3
    <1>12. /\ PutWritten(hdData, hdLost, k, ver, hdData', hdLost')
           /\ hdData' \in Seq(HdRecord) /\ Len(hdData') <= HdMaxData
           /\ hdLost' \in [HdKeys -> HdCell]
      <2>1. died \in BOOLEAN
        BY DEF died
      <2>2. QED
        BY <1>1, <1>3, <1>5, <1>7, <2>1, WrittenTypes
    <1>12a. Points(hdBuckets, hdData, hdBuckets', C, C, k, p)
      <2>1. \A t \in HdSlots : \A q \in C[t] : q \in 1..n
        BY <1>4
      <2>2. \A t \in HdSlots : \A q \in C[t] : q # p => SameEntry(hdBuckets, hdBuckets', q)
        BY <1>10, <2>1 DEF SameEntry
      <2>3. hdBuckets'[p].key = k /\ hdBuckets'[p].data = Len(hdData) + 1
        BY <1>4, <1>9, <1>10
      <2>4. QED
        BY <1>4, <2>2, <2>3 DEF Points, s
    <1>13. Records(hdBuckets', hdData', hdLost', C)
      <2>2. \A t \in HdSlots : \A q \in C[t] : hdBuckets[q].key \in HdKeys /\ hdBuckets[q].data \in Nat \ {0}
        BY ChainBuckets
      <2>3. PutWritten(hdData, hdLost, k, hdBuckets'[p].ver, hdData', hdLost')
        BY <1>4, <1>9, <1>10, <1>12
      <2>4. Records(hdBuckets, hdData, hdLost, C) /\ DOMAIN hdLost = HdKeys
        BY DEF HdShape, HdTypes
      <2>5. QED
        BY <1>5, <1>6, <1>12a, <2>2, <2>3, <2>4, RecordsPut
    <1>14. /\ hdUp' \in BOOLEAN /\ hdCut' \in BOOLEAN
           /\ hdInfo' \in 0..(HdWrap - 1) /\ hdUsed' \in 0..(HdWrap - 1)
           /\ Counted(C)'
      <2>1. hdUsed \in Int /\ (~hdCut => hdUsed = Cardinality(HdLinked(C))) /\ Cardinality(HdLinked(C)) \in 0..HdMaxBuckets
        BY CountNow
      <2>2. (progress # "done") \in BOOLEAN
        OBVIOUS
      <2>3. QED
        BY <1>3, <2>1, <2>2, CountersStep
    <1>15. hdDir' \in [HdSlots -> 0..HdMaxBuckets] /\ Len(hdBuckets') <= HdMaxBuckets
      BY <1>3, <1>10 DEF HdTypes, HdTypeOK, n
    <1>16. HdTypes'
      BY <1>10, <1>12, <1>14, <1>15, TypesFromParts
    <1>17. HdShape(C)'
      BY <1>10, <1>11, <1>13, <1>14 DEF HdShape
    <1>18. QED
      BY <1>12a, <1>16, <1>17 DEF p

\* The chains after a Put on a new key.
PutChains(C, k, n, progress) ==
    IF progress = "bucket" THEN C ELSE [C EXCEPT ![HdSlot[k]] = @ \cup {n + 1}]

\* A sequence with one element added and others replaced.
LEMMA SeqExtended ==
    ASSUME NEW S, NEW n \in Nat, NEW seq2, DOMAIN seq2 = 1..(n + 1), seq2 = [i \in 1..(n + 1) |-> seq2[i]],
           \A i \in 1..(n + 1) : seq2[i] \in S
    PROVE  seq2 \in Seq(S) /\ Len(seq2) = n + 1
    <1>1. n + 1 \in Nat
      OBVIOUS
    <1>2. seq2 \in [1..(n + 1) -> S]
      OBVIOUS
    <1>3. seq2 \in Seq(S)
      BY <1>1, <1>2
    <1>4. QED
      BY <1>1, <1>3

\* Put on a new key keeps the invariant, wherever it dies.
LEMMA PutNewStep ==
    ASSUME HdTypes, NEW C, HdShape(C), hdUp, NEW k \in HdKeys, NEW v \in HdValues, NEW version,
           NEW progress, PutNew(k, v, version, progress), NEW n \in Nat, n = Len(hdBuckets)
    PROVE  /\ HdTypes' /\ HdShape(PutChains(C, k, n, progress))'
           /\ progress = "bucket" => Shrinks(hdBuckets, hdData, hdBuckets', C, C)
           /\ progress # "bucket" =>
                Points(hdBuckets, hdData, hdBuckets', C, PutChains(C, k, n, progress), k, n + 1)
    <1> DEFINE s == HdSlot[k]
               last == Before(s, 0)
               linked == progress # "bucket"
               died == progress = "pointer"
               new == [key |-> k, ver |-> 1, next |-> 0, data |-> Len(hdData) + 1]
    <1>1. FoundAt(k) = 0 /\ Len(hdData) < HdMaxData /\ n + 1 <= HdMaxBuckets
      BY DEF PutNew
    <1>2. hdBuckets' = [i \in 1..(n + 1) |->
              IF i = n + 1 THEN new
              ELSE IF i = last /\ linked THEN [hdBuckets[i] EXCEPT !.next = n + 1]
              ELSE hdBuckets[i]]
      BY DEF PutNew
    <1>3. hdDir' = IF last = 0 /\ linked THEN [hdDir EXCEPT ![s] = n + 1] ELSE hdDir
      BY DEF PutNew
    <1>4. /\ hdData' = IF progress \in {"bucket", "pointer"} THEN hdData
                       ELSE Append(hdData, [key |-> k, val |-> v, ver |-> 1])
          /\ hdLost' = IF died THEN [hdLost EXCEPT ![k] = Lookup(k)] ELSE hdLost
          /\ Counters(hdUsed + 1, progress # "done")
      BY DEF PutNew
    <1>5. /\ s \in HdSlots /\ n \in Nat /\ C \in [HdSlots -> SUBSET (1..n)]
          /\ \A q \in C[s] : hdBuckets[q].key # k
          /\ \A t \in HdSlots : \A q \in C[t] : hdBuckets[q].key = k => FALSE
      <2>1. \A t \in HdSlots : \A q \in C[t] : hdBuckets[q].key = k => FoundAt(k) = q
        BY FoundInChain
      <2>2. s \in HdSlots /\ n \in Nat /\ C \in [HdSlots -> SUBSET (1..n)]
        BY FoundInChain
      <2>3. \A t \in HdSlots : \A q \in C[t] : q # 0
        BY <2>2
      <2>4. QED
        BY <1>1, <2>1, <2>2, <2>3
    <1>6. hdLost[k] = NotLost /\ Lookup(k) \in HdCell /\ Lookup(k) # NotLost
      BY <1>1, NotYetLost, LookupCell
    <1>7. /\ hdBuckets \in Seq(HdBucket) /\ hdData \in Seq(HdRecord)
          /\ hdDir \in [HdSlots -> 0..HdMaxBuckets] /\ hdLost \in [HdKeys -> HdCell]
          /\ Len(hdData) <= HdMaxData
          /\ \A i \in 1..n : hdBuckets[i] \in HdBucket
      BY ChainBuckets DEF HdTypes, HdTypeOK
    <1>8. n + 1 \in 0..HdMaxBuckets /\ Len(hdData) + 1 \in 1..HdMaxData /\ HdMaxBuckets \in Nat
      BY <1>1, <1>5, <1>7, HdAssumption
    <1>9. LinkTo(hdDir, hdBuckets, C, s, 0, last)
      <2>1. Index(hdDir, hdBuckets, n, C) /\ n = Len(hdBuckets) /\ 0 \in C[s] \cup {0}
        BY DEF HdShape
      <2>2. QED
        BY <1>5, <2>1, BeforeIs DEF LinkTo
    <1>10. linked \in BOOLEAN /\ died \in BOOLEAN
      OBVIOUS
    <1> HIDE DEF s, last
    <1>11. new \in HdBucket /\ new.key = k /\ new.ver = 1 /\ new.next = 0 /\ new.data = Len(hdData) + 1
      BY <1>8 DEF HdBucket
    <1> HIDE DEF new, linked, died
    <1>12. ASSUME NEW i \in 1..n
           PROVE  /\ hdBuckets'[i] \in HdBucket
                  /\ hdBuckets'[i].next = IF i = last /\ linked THEN n + 1 ELSE hdBuckets[i].next
                  /\ SameEntry(hdBuckets, hdBuckets', i)
      <2>1. hdBuckets[i] \in HdBucket /\ i \in 1..(n + 1) /\ i # n + 1
        BY <1>5, <1>7
      <2>2. hdBuckets'[i] = IF i = last /\ linked THEN [hdBuckets[i] EXCEPT !.next = n + 1] ELSE hdBuckets[i]
        BY <1>2, <2>1
      <2>3. QED
        BY <1>8, <2>1, <2>2 DEF HdBucket, SameEntry
    <1>13. hdBuckets'[n + 1] = new
      BY <1>2, <1>5
    <1>14. hdBuckets' \in Seq(HdBucket) /\ Len(hdBuckets') = n + 1
      <2>1. ASSUME NEW i \in 1..(n + 1)
            PROVE  hdBuckets'[i] \in HdBucket
        <3>1. i = n + 1 \/ i \in 1..n
          BY <1>5
        <3>2. QED
          BY <1>11, <1>12, <1>13, <3>1
      <2>2. DOMAIN hdBuckets' = 1..(n + 1) /\ hdBuckets' = [i \in 1..(n + 1) |-> hdBuckets'[i]]
        BY <1>2
      <2>3. QED
        BY <1>5, <2>1, <2>2, SeqExtended
    <1>15. hdDir' \in [HdSlots -> 0..HdMaxBuckets]
      BY <1>3, <1>5, <1>7, <1>8
    <1>16. Index(hdDir, hdBuckets, n, C)
      BY DEF HdShape
    <1>17. CASE linked
      <2> DEFINE D == [C EXCEPT ![s] = @ \cup {n + 1}]
      <2>1. PutChains(C, k, n, progress) = D
        BY <1>17 DEF PutChains, linked, s
      <2>2. D[s] = C[s] \cup {n + 1} /\ \A t \in HdSlots \ {s} : D[t] = C[t]
        BY <1>5
      <2>3. Relinked(hdDir, hdBuckets, n, s, last, n + 1, hdDir', hdBuckets')
        <3>1. \A t \in HdSlots : hdDir'[t] = IF t = s /\ last = 0 THEN n + 1 ELSE hdDir[t]
          BY <1>3, <1>5, <1>7, <1>17
        <3>2. QED
          BY <1>12, <1>17, <3>1 DEF Relinked, SameEntry
      <2>4. Index(hdDir', hdBuckets', n + 1, D)
        <3>1. hdBuckets'[n + 1].next = 0 /\ hdBuckets'[n + 1].key = k /\ hdBuckets'[n + 1].ver = 1
          BY <1>11, <1>13
        <3>2. s = HdSlot[k]
          BY DEF s
        <3>3. QED
          BY <1>5, <1>9, <1>16, <2>3, <3>1, <3>2, IndexGrows
      <2>5. /\ Cardinality(HdLinked(D)) = Cardinality(HdLinked(C)) + 1
            /\ Cardinality(HdLinked(D)) \in 0..HdMaxBuckets
            /\ hdUsed + 1 \in Int /\ (~hdCut => hdUsed + 1 = Cardinality(HdLinked(D)))
        <3>1. Cardinality(HdLinked(D)) = Cardinality(HdLinked(C)) + 1
          BY <1>5, LinkedGrows
        <3>2. hdUsed \in Int /\ (~hdCut => hdUsed = Cardinality(HdLinked(C))) /\ Cardinality(HdLinked(C)) \in 0..n
          BY CountNow
        <3>3. QED
          BY <1>5, <1>8, <3>1, <3>2
      <2> HIDE DEF D
      <2>6. /\ PutWritten(hdData, hdLost, k, 1, hdData', hdLost')
            /\ hdData' \in Seq(HdRecord) /\ Len(hdData') <= HdMaxData
            /\ hdLost' \in [HdKeys -> HdCell]
        <3>1. hdData' = IF died THEN hdData ELSE Append(hdData, [key |-> k, val |-> v, ver |-> 1])
          BY <1>4, <1>17 DEF died, linked
        <3>2. QED
          BY <1>1, <1>4, <1>6, <1>10, <3>1, WrittenTypes
      <2>6a. Points(hdBuckets, hdData, hdBuckets', C, D, k, n + 1)
        <3>1. \A t \in HdSlots : \A q \in C[t] : q \in 1..n /\ q # n + 1
          BY <1>5
        <3>2. \A t \in HdSlots : \A q \in D[t] : q # n + 1 => q \in C[t]
          BY <2>2
        <3>3. \A t \in HdSlots : \A q \in C[t] : q \in D[t] /\ SameEntry(hdBuckets, hdBuckets', q)
          BY <1>12, <2>2, <3>1
        <3>4. hdBuckets'[n + 1].key = k /\ hdBuckets'[n + 1].data = Len(hdData) + 1 /\ n + 1 \in D[HdSlot[k]]
          BY <1>11, <1>13, <2>2 DEF s
        <3>5. QED
          BY <1>5, <3>1, <3>2, <3>3, <3>4 DEF Points
      <2>7. Records(hdBuckets', hdData', hdLost', D)
        <3>6. \A t \in HdSlots : \A q \in C[t] : hdBuckets[q].key \in HdKeys /\ hdBuckets[q].data \in Nat \ {0}
          BY ChainBuckets
        <3>7. PutWritten(hdData, hdLost, k, hdBuckets'[n + 1].ver, hdData', hdLost')
          BY <1>11, <1>13, <2>6
        <3>8. Records(hdBuckets, hdData, hdLost, C) /\ DOMAIN hdLost = HdKeys
          BY <1>7 DEF HdShape
        <3>9. QED
          BY <1>6, <1>7, <2>6a, <3>6, <3>7, <3>8, RecordsPut
      <2>8. /\ hdUp' \in BOOLEAN /\ hdCut' \in BOOLEAN
            /\ hdInfo' \in 0..(HdWrap - 1) /\ hdUsed' \in 0..(HdWrap - 1)
            /\ Counted(D)'
        BY <1>4, <2>5, CountersStep
      <2>9. HdTypes'
        BY <1>8, <1>14, <1>15, <2>6, <2>8, TypesFromParts
      <2>10. HdShape(D)'
        BY <1>14, <2>4, <2>7, <2>8 DEF HdShape
      <2>11. QED
        BY <1>17, <2>1, <2>6a, <2>9, <2>10 DEF linked
    <1>18. CASE ~linked
      <2>1. progress = "bucket" /\ PutChains(C, k, n, progress) = C
        BY <1>18 DEF PutChains, linked
      <2>2. hdData' = hdData /\ hdLost' = hdLost /\ hdDir' = hdDir
        BY <1>3, <1>4, <1>18, <2>1 DEF died
      <2>3. Index(hdDir', hdBuckets', n + 1, C)
        <3>1. n + 1 \in Nat /\ n <= n + 1
          BY <1>5
        <3>2. \A q \in 1..n : /\ hdBuckets'[q].key = hdBuckets[q].key
                              /\ hdBuckets'[q].next = hdBuckets[q].next
                              /\ hdBuckets[q].ver >= 1 => hdBuckets'[q].ver >= 1
          BY <1>12, <1>18 DEF SameEntry
        <3>3. QED
          BY <1>5, <1>16, <2>2, <3>1, <3>2, IndexKeeps
      <2>3a. Shrinks(hdBuckets, hdData, hdBuckets', C, C)
        BY <1>5, <1>12 DEF Shrinks
      <2>4. Records(hdBuckets', hdData', hdLost', C)
        BY <2>2, <2>3a, RecordsShrink DEF HdShape
      <2>5. /\ hdUp' \in BOOLEAN /\ hdCut' \in BOOLEAN
            /\ hdInfo' \in 0..(HdWrap - 1) /\ hdUsed' \in 0..(HdWrap - 1)
            /\ Counted(C)'
        <3>1. hdUsed + 1 \in Int /\ Cardinality(HdLinked(C)) \in 0..HdMaxBuckets
          BY CountNow
        <3>2. Counters(hdUsed + 1, TRUE)
          BY <1>4, <2>1
        <3>3. QED
          BY <3>1, <3>2, CountersStep
      <2>6. HdTypes'
        BY <1>7, <1>8, <1>14, <1>15, <2>2, <2>5, TypesFromParts
      <2>7. HdShape(C)'
        BY <1>14, <2>3, <2>4, <2>5 DEF HdShape
      <2>8. QED
        BY <2>1, <2>3a, <2>6, <2>7
    <1>19. QED
      BY <1>17, <1>18

\* Del keeps the invariant, whether or not it dies before the counters.
LEMMA HdDelStep ==
    ASSUME HdTypes, NEW C, HdShape(C), NEW k \in HdKeys, NEW version, HdDel(k, version),
           NEW p, p = FoundAt(k)
    PROVE  /\ HdTypes' /\ HdShape([C EXCEPT ![HdSlot[k]] = @ \ {p}])'
           /\ Shrinks(hdBuckets, hdData, hdBuckets', C, [C EXCEPT ![HdSlot[k]] = @ \ {p}])
    <1> DEFINE s == HdSlot[k]
               b == Before(s, p)
               r == hdBuckets[p].next
               D == [C EXCEPT ![s] = @ \ {p}]
    <1>1. hdUp /\ p # 0 /\ Readable(p) /\ LinkFrom(k, b, r) /\ hdData' = hdData /\ hdLost' = hdLost
      BY DEF HdDel
    <1>2. PICK cut \in BOOLEAN : Counters(hdUsed - 1, cut)
      BY DEF HdDel
    <1>3. PICK n \in Nat : n = Len(hdBuckets)
      BY DEF HdTypes, HdTypeOK
    <1>4. /\ s \in HdSlots /\ C \in [HdSlots -> SUBSET (1..n)]
          /\ p \in C[s] /\ p \in 1..n
      BY <1>1, <1>3, FoundInChain
    <1>5. /\ hdBuckets \in Seq(HdBucket) /\ hdDir \in [HdSlots -> 0..HdMaxBuckets]
          /\ \A i \in 1..n : hdBuckets[i] \in HdBucket
          /\ n <= HdMaxBuckets
      BY <1>3, ChainBuckets DEF HdTypes, HdTypeOK
    <1>6. r \in 0..HdMaxBuckets
      BY <1>4, <1>5 DEF HdBucket
    <1>7. Index(hdDir, hdBuckets, n, C)
      BY <1>3 DEF HdShape
    <1>8. LinkTo(hdDir, hdBuckets, C, s, p, b)
      <2>1. p \in C[s] \cup {0}
        BY <1>4
      <2>2. QED
        BY <1>3, <1>4, <1>7, <2>1, BeforeIs DEF LinkTo
    <1>9. D[s] = C[s] \ {p} /\ \A t \in HdSlots \ {s} : D[t] = C[t]
      BY <1>4
    <1>10. /\ Cardinality(HdLinked(D)) = Cardinality(HdLinked(C)) - 1
           /\ Cardinality(HdLinked(D)) \in 0..HdMaxBuckets
           /\ hdUsed - 1 \in Int /\ (~hdCut => hdUsed - 1 = Cardinality(HdLinked(D)))
      <2>1. Cardinality(HdLinked(D)) = Cardinality(HdLinked(C)) - 1
        BY <1>4, <1>7, LinkedDrops
      <2>2. hdUsed \in Int /\ (~hdCut => hdUsed = Cardinality(HdLinked(C))) /\ Cardinality(HdLinked(C)) \in 0..n
        BY <1>1, <1>3, CountNow
      <2>3. Cardinality(HdLinked(D)) \in 0..n
        <3>1. D \in [HdSlots -> SUBSET (1..n)]
          BY <1>4
        <3>2. QED
          BY <3>1, LinkedFinite
      <2>4. HdMaxBuckets \in Nat
        BY HdAssumption
      <2>5. QED
        BY <1>5, <2>1, <2>2, <2>3, <2>4
    <1> HIDE DEF s, b, r
    <1>11. /\ hdBuckets' \in Seq(HdBucket) /\ Len(hdBuckets') = n
           /\ hdDir' \in [HdSlots -> 0..HdMaxBuckets]
           /\ \A t \in HdSlots : hdDir'[t] = IF t = s /\ b = 0 THEN r ELSE hdDir[t]
           /\ \A i \in 1..n : /\ hdBuckets'[i].next = IF i = b THEN r ELSE hdBuckets[i].next
                              /\ SameEntry(hdBuckets, hdBuckets', i)
      <2>1. CASE b = 0
        <3>1. hdDir' = [hdDir EXCEPT ![s] = r] /\ hdBuckets' = hdBuckets
          BY <1>1, <2>1 DEF LinkFrom, s
        <3>2. \A i \in 1..n : i # b
          BY <2>1
        <3>3. QED
          BY <1>3, <1>4, <1>5, <1>6, <2>1, <3>1, <3>2 DEF SameEntry
      <2>2. CASE b # 0
        <3> DEFINE new == [hdBuckets[b] EXCEPT !.next = r]
        <3>1. hdBuckets' = [hdBuckets EXCEPT ![b] = new] /\ hdDir' = hdDir
          BY <1>1, <2>2 DEF LinkFrom
        <3>2. b \in 1..n
          BY <1>4, <1>8, <2>2 DEF LinkTo
        <3>3. hdBuckets[b] \in HdBucket
          BY <1>5, <3>2
        <3>4. /\ new \in HdBucket /\ new.next = r /\ new.key = hdBuckets[b].key
              /\ new.ver = hdBuckets[b].ver /\ new.data = hdBuckets[b].data
          BY <1>6, <3>3 DEF HdBucket
        <3> HIDE DEF new
        <3>5. /\ hdBuckets' \in Seq(HdBucket) /\ Len(hdBuckets') = n
              /\ \A i \in 1..n : hdBuckets'[i] = IF i = b THEN new ELSE hdBuckets[i]
          BY <1>3, <1>5, <3>1, <3>2, <3>4, SeqUpdated
        <3>6. \A i \in 1..n : /\ hdBuckets'[i].next = IF i = b THEN r ELSE hdBuckets[i].next
                              /\ SameEntry(hdBuckets, hdBuckets', i)
          BY <3>4, <3>5 DEF SameEntry
        <3>7. QED
          BY <1>5, <2>2, <3>1, <3>5, <3>6
      <2>3. QED
        BY <2>1, <2>2
    <1>12. Index(hdDir', hdBuckets', n, D)
      <2>1. Relinked(hdDir, hdBuckets, n, s, b, r, hdDir', hdBuckets')
        BY <1>11 DEF Relinked, SameEntry
      <2>2. QED
        BY <1>4, <1>7, <1>8, <2>1, IndexDrops DEF r
    <1> HIDE DEF D
    <1>13a. Shrinks(hdBuckets, hdData, hdBuckets', C, D)
      <2>1. \A t \in HdSlots : D[t] \subseteq C[t] /\ \A q \in C[t] : q \in 1..n
        BY <1>4, <1>9
      <2>2. \A t \in HdSlots : \A q \in D[t] : SameEntry(hdBuckets, hdBuckets', q)
        BY <1>11, <2>1
      <2>3. \A t \in HdSlots : \A q \in C[t] \ D[t] : q = p
        BY <1>9
      <2>4. Fits(hdBuckets, hdData, p)
        BY <1>1 DEF Readable, Fits
      <2>5. QED
        BY <2>1, <2>2, <2>3, <2>4 DEF Shrinks
    <1>13. Records(hdBuckets', hdData', hdLost', D)
      BY <1>1, <1>13a, RecordsShrink DEF HdShape
    <1>14. /\ hdUp' \in BOOLEAN /\ hdCut' \in BOOLEAN
           /\ hdInfo' \in 0..(HdWrap - 1) /\ hdUsed' \in 0..(HdWrap - 1)
           /\ Counted(D)'
      BY <1>1, <1>2, <1>10, CountersStep
    <1>15. HdTypes'
      <2>1. /\ hdData' \in Seq(HdRecord) /\ Len(hdData') <= HdMaxData
            /\ hdLost' \in [HdKeys -> HdCell] /\ Len(hdBuckets') <= HdMaxBuckets
        BY <1>1, <1>5, <1>11 DEF HdTypes, HdTypeOK
      <2>2. QED
        BY <1>11, <1>14, <2>1, TypesFromParts
    <1>16. HdShape(D)'
      BY <1>11, <1>12, <1>13, <1>14 DEF HdShape
    <1>17. QED
      BY <1>13a, <1>15, <1>16 DEF D, s

\* Stop and Init change the counters in memory only.
LEMMA HdRestartStep ==
    ASSUME HdTypes, NEW C, HdShape(C), HdStop \/ HdReopen \/ UNCHANGED hdVars
    PROVE  HdTypes' /\ HdShape(C)'
    <1>1. /\ hdDir' = hdDir /\ hdBuckets' = hdBuckets /\ hdData' = hdData
          /\ hdInfo' = hdInfo /\ hdCut' = hdCut /\ hdLost' = hdLost
      BY DEF HdStop, HdReopen, hdVars
    <1>2. \/ hdUp' = FALSE /\ hdUsed' = 0
          \/ hdUp' = TRUE /\ hdUsed' = hdInfo
          \/ hdUp' = hdUp /\ hdUsed' = hdUsed
      BY DEF HdStop, HdReopen, hdVars
    <1>3. hdUp' \in BOOLEAN
      BY <1>2, Zenon DEF HdTypes, HdTypeOK
    <1>4. hdUsed' \in 0..(HdWrap - 1)
      BY <1>2, HdAssumption DEF HdTypes, HdTypeOK
    <1>5. HdTypes'
      BY <1>1, <1>3, <1>4 DEF HdTypes, HdTypeOK
    <1>6. Counted(C)'
      <2>1. Counted(C)
        BY DEF HdShape
      <2>2. QED
        BY <1>1, <1>2, <2>1, Zenon DEF Counted
    <1>7. HdShape(C)'
      BY <1>1, <1>6 DEF HdShape
    <1>8. QED
      BY <1>5, <1>7

\* The invariant holds in a new database.
LEMMA HdInitially ==
    ASSUME HdInit
    PROVE  HdInv
    <1> DEFINE C == [s \in HdSlots |-> {}]
    <1>1. /\ hdUp = TRUE /\ hdCut = FALSE /\ hdDir = [s \in HdSlots |-> 0]
          /\ hdBuckets = <<>> /\ hdData = <<>> /\ hdInfo = 0 /\ hdUsed = 0
          /\ hdLost = [k \in HdKeys |-> NotLost]
      BY DEF HdInit
    <1>2. HdTypes
      <2>1. hdBuckets \in Seq(HdBucket) /\ hdData \in Seq(HdRecord) /\ Len(hdBuckets) = 0 /\ Len(hdData) = 0
        BY <1>1
      <2>2. 0 \in 0..HdMaxBuckets /\ 0 <= HdMaxBuckets /\ 0 <= HdMaxData /\ 0 \in 0..(HdWrap - 1)
        BY HdAssumption
      <2>3. NotLost \in HdCell /\ NotLost.ver \in Nat \cup {-1}
        BY DEF NotLost, HdCell
      <2>4. hdLost \in [HdKeys -> HdCell] /\ \A k \in HdKeys : hdLost[k].ver \in Nat \cup {-1}
        BY <1>1, <2>3
      <2>5. hdUp \in BOOLEAN /\ hdCut \in BOOLEAN
        BY <1>1, Zenon
      <2>6. hdDir \in [HdSlots -> 0..HdMaxBuckets]
        BY <1>1, <2>2
      <2>7. QED
        BY <1>1, <2>1, <2>2, <2>4, <2>5, <2>6 DEF HdTypes, HdTypeOK
    <1>3. \A s \in HdSlots : C[s] = {}
      OBVIOUS
    <1>4. Index(hdDir, hdBuckets, 0, C)
      <2>1. C \in [HdSlots -> SUBSET (1..0)]
        OBVIOUS
      <2> HIDE DEF C
      <2>2. \A s \in HdSlots : ChainOf(hdDir[s], hdBuckets, 0, C[s])
        BY <1>1, <1>3, <2>1 DEF ChainOf, After
      <2>3. QED
        BY <1>3, <2>1, <2>2 DEF Index
    <1>5. Records(hdBuckets, hdData, hdLost, C)
      <2> HIDE DEF C
      <2>1. QED
        BY <1>1, <1>3 DEF Records
    <1>6. Counted(C)
      <2> HIDE DEF C
      <2>1. HdLinked(C) = {}
        BY <1>3 DEF HdLinked
      <2>2. Cardinality(HdLinked(C)) = 0
        BY <2>1, FS_EmptySet
      <2>3. QED
        BY <1>1, <2>2 DEF Counted
    <1>7. HdShape(C)
      <2>1. Len(hdBuckets) = 0
        BY <1>1
      <2>2. QED
        BY <1>4, <1>5, <1>6, <2>1 DEF HdShape
    <1> HIDE DEF C
    <1>8. QED
      BY <1>2, <1>7 DEF HdInv

\* Every step keeps it.
LEMMA HdStep ==
    ASSUME HdInv, [HdNext]_hdVars
    PROVE  HdInv'
    <1>1. PICK C : HdShape(C)
      BY DEF HdInv
    <1>2. HdTypes
      BY DEF HdInv
    <1>3. ASSUME NEW k \in HdKeys, NEW version, NEW v \in HdValues, HdPut(k, v, version)
          PROVE  HdInv'
      <2>1. PICK progress \in {"bucket", "pointer", "data", "done"} :
                PutExisting(k, v, version, progress) \/ PutNew(k, v, version, progress)
        BY <1>3 DEF HdPut
      <2>2. hdUp
        BY <1>3 DEF HdPut
      <2>3. CASE PutExisting(k, v, version, progress)
        <3>1. HdTypes' /\ HdShape(C)'
          BY <1>1, <1>2, <2>2, <2>3, PutExistingStep
        <3>2. QED
          BY <3>1 DEF HdInv
      <2>4. CASE PutNew(k, v, version, progress)
        <3>1. PICK n \in Nat : n = Len(hdBuckets)
          BY <1>2 DEF HdTypes, HdTypeOK
        <3>2. HdTypes' /\ HdShape(PutChains(C, k, n, progress))'
          BY <1>1, <1>2, <2>2, <2>4, <3>1, PutNewStep
        <3>3. QED
          BY <3>2 DEF HdInv
      <2>5. QED
        BY <2>1, <2>3, <2>4
    <1>4. ASSUME NEW k \in HdKeys, NEW version, HdDel(k, version)
          PROVE  HdInv'
      <2>1. PICK p : p = FoundAt(k)
        OBVIOUS
      <2>2. HdTypes' /\ HdShape([C EXCEPT ![HdSlot[k]] = @ \ {p}])'
        BY <1>1, <1>2, <1>4, <2>1, HdDelStep
      <2>3. QED
        BY <2>2 DEF HdInv
    <1>5. ASSUME HdStop \/ HdReopen \/ UNCHANGED hdVars
          PROVE  HdInv'
      <2>1. HdTypes' /\ HdShape(C)'
        BY <1>1, <1>2, <1>5, HdRestartStep
      <2>2. QED
        BY <2>1 DEF HdInv
    <1>6. QED
      BY <1>3, <1>4, <1>5 DEF HdNext

\* The invariant implies what the run checks.
LEMMA HdInvProper ==
    ASSUME HdInv
    PROVE  ChainsProper
    <1>1. PICK C : HdShape(C)
      BY DEF HdInv
    <1>2. HdTypes
      BY DEF HdInv
    <1>3. PICK n \in Nat : n = Len(hdBuckets)
      BY <1>2 DEF HdTypes, HdTypeOK
    <1>4. Index(hdDir, hdBuckets, n, C)
      BY <1>1, <1>3 DEF HdShape
    <1>5. \A s \in HdSlots : InChain(s) = C[s] /\ ChainAt(s)[n] = 0
      BY <1>3, <1>4, IndexRead
    <1>6. ASSUME NEW s \in HdSlots, NEW p \in InChain(s)
          PROVE  /\ HdSlot[hdBuckets[p].key] = s
                 /\ FoundAt(hdBuckets[p].key) = p
                 /\ ~IsLost(hdBuckets[p].key) =>
                      Readable(p) /\ hdData[hdBuckets[p].data].ver = hdBuckets[p].ver
      <2>1. p \in C[s]
        BY <1>5
      <2>2. HdSlot[hdBuckets[p].key] = s
        BY <1>4, <2>1 DEF Index
      <2>3. hdBuckets[p].key \in HdKeys
        BY <1>1, <1>2, <2>1, ChainBuckets
      <2>4. FoundAt(hdBuckets[p].key) = p
        BY <1>1, <1>2, <2>1, <2>3, FoundInChain
      <2>5. ~IsLost(hdBuckets[p].key) =>
               Fits(hdBuckets, hdData, p) /\ hdData[hdBuckets[p].data].ver = hdBuckets[p].ver
        BY <1>1, <2>1 DEF HdShape, Records, IsLost
      <2>6. QED
        BY <2>2, <2>4, <2>5 DEF Readable, Fits
    <1>7. UsedCountExact
      <2>1. {InChain(s) : s \in HdSlots} = {C[s] : s \in HdSlots}
        BY <1>5
      <2>2. Counted(C)
        BY <1>1 DEF HdShape
      <2>3. QED
        BY <2>1, <2>2 DEF UsedCountExact, Counted, HdLinked
    <1>8. QED
      BY <1>2, <1>3, <1>5, <1>6, <1>7 DEF ChainsProper, HdTypes

\* Wherever a Put or a Del of HashDB dies and however often it is opened again,
\* the index is a set of chains that end, each holding the keys of its slot,
\* no key twice; every record a crash did not lose is the one of its bucket;
\* and used_cnt is the number of keys until the first call is cut.
THEOREM ChainsStayProper == HdSpec => []ChainsProper
    <1>1. HdInit => HdInv
      BY HdInitially
    <1>2. HdInv /\ [HdNext]_hdVars => HdInv'
      BY HdStep
    <1>3. HdInv => ChainsProper
      BY HdInvProper
    <1>4. QED
      BY <1>1, <1>2, <1>3, PTL DEF HdSpec

-----------------------------------------------------------------------------
\* HashDB: the refinement of DBBase

HdAbsent == [val |-> HdNoValue, ver |-> 0]
ReadCell(bs, data, p) == [val |-> data[bs[p].data].val, ver |-> data[bs[p].data].ver]

\* What the refinement mapping says of a key, read from the chains.
CellOf(bs, data, lost, C, j) ==
    IF lost[j] # NotLost THEN lost[j]
    ELSE IF FoundIn(bs, C[HdSlot[j]], j) = 0 THEN HdAbsent
    ELSE ReadCell(bs, data, FoundIn(bs, C[HdSlot[j]], j))

HdCells == [j \in HdKeys |-> IF IsLost(j) THEN hdLost[j] ELSE Lookup(j)]

\* The mapping, read from the chains, in this state.
LEMMA CellsNow ==
    ASSUME HdTypes, NEW C, HdShape(C), NEW j \in HdKeys
    PROVE  HdCells[j] = CellOf(hdBuckets, hdData, hdLost, C, j)
    <1>1. PICK n \in Nat : n = Len(hdBuckets)
      BY DEF HdTypes, HdTypeOK
    <1>2. FoundAt(j) = FoundIn(hdBuckets, C[HdSlot[j]], j)
      BY <1>1, IndexRead DEF HdShape
    <1>3. QED
      BY <1>2 DEF HdCells, CellOf, IsLost, Lookup, HdAbsent, ReadCell

\* The same in the next state.
LEMMA CellsNext ==
    ASSUME HdTypes', NEW C, HdShape(C)', NEW j \in HdKeys
    PROVE  HdCells'[j] = CellOf(hdBuckets', hdData', hdLost', C, j)
    <1>1. PICK n \in Nat : n = Len(hdBuckets')
      BY DEF HdTypes, HdTypeOK
    <1>2. FoundAt(j)' = FoundIn(hdBuckets', C[HdSlot[j]], j)
      BY <1>1, IndexReadNext DEF HdShape
    <1>3. QED
      BY <1>2 DEF HdCells, CellOf, IsLost, Lookup, HdAbsent, ReadCell

\* The bucket of a key, in an index.
IsFound(bs, S, j, f) == /\ f = 0 => \A p \in S : bs[p].key # j
                        /\ f # 0 => f \in S /\ bs[f].key = j
                        /\ \A p \in S : p # 0 /\ (bs[p].key = j => f = p)

\* The lookup finds the bucket of a key, if there is one.
LEMMA FoundInIndex ==
    ASSUME NEW dir, NEW bs, NEW n \in Nat, NEW C, Index(dir, bs, n, C), NEW j \in HdKeys
    PROVE  IsFound(bs, C[HdSlot[j]], j, FoundIn(bs, C[HdSlot[j]], j))
    <1> DEFINE S == C[HdSlot[j]]
    <1>1. HdSlot[j] \in HdSlots
      BY HdAssumption
    <1>2. S \in SUBSET (1..n) /\ \A p, q \in S : bs[p].key = bs[q].key => p = q
      BY <1>1 DEF Index
    <1>3. 0 \notin S
      BY <1>2
    <1> HIDE DEF S
    <1>4. \A p, q \in S : bs[p].key = bs[q].key => p = q
      BY <1>2
    <1> DEFINE f == FoundIn(bs, S, j)
    <1>5. /\ f = 0 => \A p \in S : bs[p].key # j
          /\ f # 0 => f \in S /\ bs[f].key = j
          /\ \A p \in S : bs[p].key = j => f = p
      BY <1>3, <1>4, FoundIs, Zenon
    <1> HIDE DEF f
    <1>6. \A p \in S : p # 0
      BY <1>3
    <1>7. IsFound(bs, S, j, f)
      BY <1>5, <1>6 DEF IsFound
    <1>8. QED
      BY <1>7 DEF f, S

\* The bucket and the record of a key are left alone.
Untouched(bs, data, bs2, data2, C, D, j) ==
    /\ \A q \in C[HdSlot[j]] : bs[q].key = j => q \in D[HdSlot[j]] /\ SameEntry(bs, bs2, q)
    /\ \A q \in D[HdSlot[j]] : bs2[q].key = j => q \in C[HdSlot[j]] /\ bs[q].key = j
    /\ \A d \in 1..Len(data) : data2[d] = data[d]

\* What is left alone maps to the same cell.
LEMMA CellKept ==
    ASSUME NEW dir, NEW bs, NEW n \in Nat, NEW C, Index(dir, bs, n, C),
           NEW dir2, NEW bs2, NEW m \in Nat, NEW D, Index(dir2, bs2, m, D),
           NEW data \in Seq(HdRecord), NEW data2, NEW lost, NEW lost2, NEW j \in HdKeys,
           Records(bs, data, lost, C),
           \A t \in HdSlots : \A q \in C[t] : bs[q].key \in HdKeys /\ bs[q].data \in Nat \ {0},
           lost2[j] = lost[j], Untouched(bs, data, bs2, data2, C, D, j)
    PROVE  CellOf(bs2, data2, lost2, D, j) = CellOf(bs, data, lost, C, j)
    <1> DEFINE f == FoundIn(bs, C[HdSlot[j]], j)
               g == FoundIn(bs2, D[HdSlot[j]], j)
    <1>0. HdSlot[j] \in HdSlots
      BY HdAssumption
    <1>1. IsFound(bs, C[HdSlot[j]], j, f)
      BY FoundInIndex
    <1>2. IsFound(bs2, D[HdSlot[j]], j, g)
      BY FoundInIndex
    <1>3. CellOf(bs, data, lost, C, j) = IF lost[j] # NotLost THEN lost[j]
                                         ELSE IF f = 0 THEN HdAbsent ELSE ReadCell(bs, data, f)
      BY DEF CellOf
    <1>4. CellOf(bs2, data2, lost2, D, j) = IF lost2[j] # NotLost THEN lost2[j]
                                            ELSE IF g = 0 THEN HdAbsent ELSE ReadCell(bs2, data2, g)
      BY DEF CellOf
    <1> HIDE DEF f, g
    <1>5. CASE f # 0
      <2>1. f \in D[HdSlot[j]] /\ SameEntry(bs, bs2, f) /\ bs[f].key = j
        BY <1>1, <1>5 DEF Untouched, IsFound
      <2>2. g = f
        BY <1>2, <2>1 DEF SameEntry, IsFound
      <2>3. ASSUME lost[j] = NotLost
            PROVE  ReadCell(bs2, data2, f) = ReadCell(bs, data, f)
        <3>1. Fits(bs, data, f) /\ bs[f].data \in Nat \ {0}
          BY <1>0, <1>1, <1>5, <2>3 DEF Records, IsFound
        <3>2. bs[f].data \in 1..Len(data)
          BY <3>1 DEF Fits
        <3>3. QED
          BY <2>1, <3>2 DEF Untouched, SameEntry, ReadCell
      <2>4. QED
        BY <1>3, <1>4, <1>5, <2>2, <2>3
    <1>6. CASE f = 0
      <2>1. ASSUME g # 0
            PROVE  FALSE
        <3>1. g \in D[HdSlot[j]] /\ bs2[g].key = j
          BY <1>2, <2>1 DEF IsFound
        <3>2. g \in C[HdSlot[j]] /\ bs[g].key = j
          BY <3>1 DEF Untouched
        <3>3. QED
          BY <1>1, <1>6, <3>2 DEF IsFound
      <2>2. QED
        BY <1>3, <1>4, <1>6, <2>1
    <1>7. QED
      BY <1>5, <1>6

\* The cells after a step, when the bucket and the record of j are left alone.
LEMMA CellsKept ==
    ASSUME HdTypes, NEW C, HdShape(C), HdTypes', NEW D, HdShape(D)', NEW j \in HdKeys,
           hdLost'[j] = hdLost[j], Untouched(hdBuckets, hdData, hdBuckets', hdData', C, D, j)
    PROVE  HdCells'[j] = HdCells[j]
    <1>1. HdCells[j] = CellOf(hdBuckets, hdData, hdLost, C, j)
      BY CellsNow
    <1>2. HdCells'[j] = CellOf(hdBuckets', hdData', hdLost', D, j)
      BY CellsNext
    <1>3. PICK n \in Nat : n = Len(hdBuckets)
      BY DEF HdTypes, HdTypeOK
    <1>4. PICK m \in Nat : m = Len(hdBuckets')
      BY DEF HdTypes, HdTypeOK
    <1>5. Index(hdDir, hdBuckets, n, C) /\ Records(hdBuckets, hdData, hdLost, C)
      BY <1>3 DEF HdShape
    <1>6. Index(hdDir', hdBuckets', m, D)
      BY <1>4 DEF HdShape
    <1>7. /\ hdData \in Seq(HdRecord)
          /\ \A t \in HdSlots : \A q \in C[t] : hdBuckets[q].key \in HdKeys /\ hdBuckets[q].data \in Nat \ {0}
      BY ChainBuckets DEF HdTypes, HdTypeOK
    <1>8. CellOf(hdBuckets', hdData', hdLost', D, j) = CellOf(hdBuckets, hdData, hdLost, C, j)
      BY <1>5, <1>6, <1>7, CellKept
    <1>9. QED
      BY <1>1, <1>2, <1>8

\* The data file only grows.
LEMMA WrittenKeeps ==
    ASSUME NEW data \in Seq(HdRecord), NEW lost, DOMAIN lost = HdKeys, NEW k \in HdKeys, NEW ver,
           NEW data2, NEW lost2, PutWritten(data, lost, k, ver, data2, lost2)
    PROVE  /\ \A d \in 1..Len(data) : data2[d] = data[d]
           /\ \A j \in HdKeys : j # k => lost2[j] = lost[j]
    <1>1. \A d \in 1..Len(data) : data2[d] = data[d]
      <2>1. CASE data2 = data
        BY <2>1
      <2>2. CASE \E rec \in HdRecord : data2 = Append(data, rec)
        BY <2>2
      <2>3. QED
        BY <2>1, <2>2 DEF PutWritten
    <1>2. \A j \in HdKeys : j # k => lost2[j] = lost[j]
      BY DEF PutWritten
    <1>3. QED
      BY <1>1, <1>2

\* What a Put does to the cells: it changes the one of its key, if the process
\* lives long enough to write the record.
LEMMA PutCells ==
    ASSUME HdTypes, NEW C, HdShape(C), HdTypes', NEW D, HdShape(D)', NEW k \in HdKeys, NEW p,
           Points(hdBuckets, hdData, hdBuckets', C, D, k, p), FoundAt(k) = 0 \/ Readable(FoundAt(k)),
           NEW v \in HdValues, NEW ver \in Nat, NEW died \in BOOLEAN, Len(hdData) < HdMaxData,
           hdData' = IF died THEN hdData ELSE Append(hdData, [key |-> k, val |-> v, ver |-> ver]),
           hdLost' = IF died THEN [hdLost EXCEPT ![k] = Lookup(k)] ELSE hdLost
    PROVE  /\ \A j \in HdKeys \ {k} : HdCells'[j] = HdCells[j]
           /\ HdCells[k] = Lookup(k)
           /\ HdCells'[k] = IF died THEN HdCells[k] ELSE [val |-> v, ver |-> ver]
    <1>1. hdLost[k] = NotLost /\ Lookup(k) \in HdCell /\ Lookup(k) # NotLost
      BY NotYetLost, LookupCell
    <1>2. PutWritten(hdData, hdLost, k, ver, hdData', hdLost')
      BY <1>1, WrittenTypes
    <1>3. hdData \in Seq(HdRecord) /\ hdLost \in [HdKeys -> HdCell] /\ DOMAIN hdLost = HdKeys
      BY DEF HdTypes, HdTypeOK
    <1>4. /\ \A d \in 1..Len(hdData) : hdData'[d] = hdData[d]
          /\ \A j \in HdKeys : j # k => hdLost'[j] = hdLost[j]
      BY <1>2, <1>3, WrittenKeeps
    <1>5. ASSUME NEW j \in HdKeys \ {k}
          PROVE  HdCells'[j] = HdCells[j]
      <2>1. HdSlot[j] \in HdSlots
        BY HdAssumption
      <2>2. ASSUME NEW q \in C[HdSlot[j]], hdBuckets[q].key = j
            PROVE  q \in D[HdSlot[j]] /\ SameEntry(hdBuckets, hdBuckets', q)
        BY <2>1, <2>2 DEF Points
      <2>3. ASSUME NEW q \in D[HdSlot[j]], hdBuckets'[q].key = j
            PROVE  q \in C[HdSlot[j]] /\ hdBuckets[q].key = j
        BY <2>1, <2>3 DEF Points, SameEntry
      <2>4. Untouched(hdBuckets, hdData, hdBuckets', hdData', C, D, j)
        BY <1>4, <2>2, <2>3 DEF Untouched
      <2>5. hdLost'[j] = hdLost[j]
        BY <1>4
      <2>6. QED
        BY <2>4, <2>5, CellsKept
    <1>6. HdCells[k] = Lookup(k)
      BY <1>1 DEF HdCells, IsLost
    <1>7. HdCells'[k] = CellOf(hdBuckets', hdData', hdLost', D, k)
      BY CellsNext
    <1>8. CASE died
      <2>1. hdLost'[k] = Lookup(k)
        BY <1>3, <1>8
      <2>2. QED
        BY <1>1, <1>5, <1>6, <1>7, <1>8, <2>1 DEF CellOf
    <1>9. CASE ~died
      <2>1. hdLost'[k] = NotLost /\ hdData' = Append(hdData, [key |-> k, val |-> v, ver |-> ver])
        BY <1>1, <1>9
      <2>2. hdData'[Len(hdData) + 1] = [key |-> k, val |-> v, ver |-> ver]
        BY <1>3, <2>1
      <2>3. p \in D[HdSlot[k]] /\ hdBuckets'[p].key = k /\ hdBuckets'[p].data = Len(hdData) + 1
        BY DEF Points
      <2>4. FoundIn(hdBuckets', D[HdSlot[k]], k) = p /\ p # 0
        <3>1. PICK m \in Nat : m = Len(hdBuckets')
          BY DEF HdTypes, HdTypeOK
        <3>2. Index(hdDir', hdBuckets', m, D)
          BY <3>1 DEF HdShape
        <3>3. IsFound(hdBuckets', D[HdSlot[k]], k, FoundIn(hdBuckets', D[HdSlot[k]], k))
          BY <3>1, <3>2, FoundInIndex
        <3>4. QED
          BY <2>3, <3>3 DEF IsFound
      <2>5. ReadCell(hdBuckets', hdData', p) = [val |-> v, ver |-> ver]
        BY <2>2, <2>3 DEF ReadCell
      <2>6. CellOf(hdBuckets', hdData', hdLost', D, k) = [val |-> v, ver |-> ver]
        BY <2>1, <2>4, <2>5 DEF CellOf
      <2>7. QED
        BY <1>5, <1>6, <1>7, <1>9, <2>6
    <1>10. QED
      BY <1>8, <1>9

\* The two forms of an abstract step.
LEMMA CellsFrom ==
    ASSUME NEW k \in HdKeys, \A j \in HdKeys \ {k} : HdCells'[j] = HdCells[j]
    PROVE  /\ HdCells'[k] = HdCells[k] => UNCHANGED HdCells
           /\ HdCells' = [HdCells EXCEPT ![k] = HdCells'[k]]
    <1>1. HdCells = [j \in HdKeys |-> HdCells[j]] /\ HdCells' = [j \in HdKeys |-> HdCells'[j]]
      BY DEF HdCells
    <1>2. ASSUME HdCells'[k] = HdCells[k]
          PROVE  HdCells' = HdCells
      <2>1. \A j \in HdKeys : HdCells'[j] = HdCells[j]
        BY <1>2
      <2>2. QED
        BY <1>1, <2>1, Zenon
    <1>3. HdCells' = [HdCells EXCEPT ![k] = HdCells'[k]]
      <2> DEFINE f == HdCells
                 g == HdCells'
      <2>1. f = [j \in HdKeys |-> f[j]] /\ g = [j \in HdKeys |-> g[j]] /\ \A j \in HdKeys \ {k} : g[j] = f[j]
        BY <1>1
      <2> HIDE DEF f, g
      <2>2. g = [f EXCEPT ![k] = g[k]]
        BY <2>1
      <2>3. QED
        BY <2>2 DEF f, g
    <1>4. QED
      BY <1>2, <1>3

\* The Put of DBBase that a written record is.
LEMMA AbstractPut ==
    ASSUME NEW k \in HdKeys, NEW v \in HdValues, NEW version, version \in {-1, HdCells[k].ver},
           HdCells' = [HdCells EXCEPT ![k] = [val |-> v, ver |-> HdCells[k].ver + 1]]
    PROVE  HdDB!DbNext
    <1>1. HdDB!DbPut(k, v, version)
      BY DEF HdDB!DbPut, HdCells
    <1>2. QED
      BY <1>1 DEF HdDB!DbNext, HdCells

\* The Del of DBBase that an unlinked bucket is.
LEMMA AbstractDel ==
    ASSUME NEW k \in HdKeys, NEW version, version \in {-1, HdCells[k].ver}, HdCells[k].ver > 0,
           HdCells' = [HdCells EXCEPT ![k] = HdAbsent]
    PROVE  HdDB!DbNext
    <1>1. HdDB!DbDel(k, version)
      BY DEF HdDB!DbDel, HdDB!DbAbsent, HdAbsent, HdCells
    <1>2. QED
      BY <1>1 DEF HdDB!DbNext, HdCells

\* The version that Get returns is the one in the bucket.
LEMMA VersionInBucket ==
    ASSUME HdTypes, NEW C, HdShape(C), NEW k \in HdKeys, FoundAt(k) # 0, Readable(FoundAt(k))
    PROVE  /\ HdCells[k] = Lookup(k) /\ Lookup(k).ver = hdBuckets[FoundAt(k)].ver
           /\ hdBuckets[FoundAt(k)].ver \in Nat \ {0}
    <1> DEFINE p == FoundAt(k)
    <1>1. hdLost[k] = NotLost
      BY NotYetLost
    <1>2. HdSlot[k] \in HdSlots /\ p \in C[HdSlot[k]] /\ p \in 1..Len(hdBuckets) /\ hdBuckets[p].key = k
      BY FoundInChain
    <1>3. hdData[hdBuckets[p].data].ver = hdBuckets[p].ver
      BY <1>1, <1>2 DEF HdShape, Records
    <1>4. hdBuckets[p].ver >= 1 /\ hdBuckets[p] \in HdBucket
      BY <1>2, ChainBuckets DEF HdShape, Index
    <1>5. hdBuckets[p].ver \in Nat \ {0}
      BY <1>4 DEF HdBucket
    <1>6. HdCells[k] = Lookup(k)
      BY <1>1 DEF HdCells, IsLost
    <1>7. Lookup(k).ver = hdBuckets[p].ver
      BY <1>3 DEF Lookup
    <1>8. QED
      BY <1>5, <1>6, <1>7

\* Put on a key that exists: nothing, if it dies before the record is written.
LEMMA PutExistingRefines ==
    ASSUME HdTypes, NEW C, HdShape(C), hdUp, NEW k \in HdKeys, NEW v \in HdValues, NEW version,
           NEW progress, PutExisting(k, v, version, progress)
    PROVE  HdDB!DbNext \/ UNCHANGED HdCells
    <1> DEFINE p == FoundAt(k)
               ver == hdBuckets[p].ver + 1
               died == progress = "pointer"
    <1>1. p # 0 /\ Readable(p) /\ Len(hdData) < HdMaxData /\ version \in {-1, hdBuckets[p].ver}
      BY DEF PutExisting
    <1>2. /\ hdData' = IF died THEN hdData ELSE Append(hdData, [key |-> k, val |-> v, ver |-> ver])
          /\ hdLost' = IF died THEN [hdLost EXCEPT ![k] = Lookup(k)] ELSE hdLost
      BY DEF PutExisting
    <1>3. HdTypes' /\ HdShape(C)' /\ Points(hdBuckets, hdData, hdBuckets', C, C, k, p)
      BY PutExistingStep
    <1>4. HdCells[k] = Lookup(k) /\ HdCells[k].ver = hdBuckets[p].ver /\ hdBuckets[p].ver \in Nat \ {0}
      BY <1>1, VersionInBucket
    <1>5. ver \in Nat /\ ver = HdCells[k].ver + 1 /\ died \in BOOLEAN
      BY <1>4
    <1>6. version \in {-1, HdCells[k].ver}
      BY <1>1, <1>4
    <1> HIDE DEF ver, died
    <1>7. /\ \A j \in HdKeys \ {k} : HdCells'[j] = HdCells[j]
          /\ HdCells'[k] = IF died THEN HdCells[k] ELSE [val |-> v, ver |-> ver]
      BY <1>1, <1>2, <1>3, <1>5, PutCells
    <1>8. CASE died
      BY <1>7, <1>8, CellsFrom
    <1>9. CASE ~died
      <2>1. HdCells' = [HdCells EXCEPT ![k] = HdCells'[k]]
        BY <1>7, CellsFrom
      <2>2. HdCells'[k] = [val |-> v, ver |-> HdCells[k].ver + 1]
        BY <1>5, <1>7, <1>9
      <2>3. HdCells' = [HdCells EXCEPT ![k] = [val |-> v, ver |-> HdCells[k].ver + 1]]
        BY <2>1, <2>2
      <2>4. QED
        BY <1>6, <2>3, AbstractPut
    <1>10. QED
      BY <1>8, <1>9

\* Put on a new key likewise.
LEMMA PutNewRefines ==
    ASSUME HdTypes, NEW C, HdShape(C), hdUp, NEW k \in HdKeys, NEW v \in HdValues, NEW version,
           NEW progress, PutNew(k, v, version, progress)
    PROVE  HdDB!DbNext \/ UNCHANGED HdCells
    <1> DEFINE died == progress = "pointer"
    <1>1. FoundAt(k) = 0 /\ Len(hdData) < HdMaxData /\ version \in {-1, 0}
      BY DEF PutNew
    <1>2. /\ hdData' = IF progress \in {"bucket", "pointer"} THEN hdData
                       ELSE Append(hdData, [key |-> k, val |-> v, ver |-> 1])
          /\ hdLost' = IF died THEN [hdLost EXCEPT ![k] = Lookup(k)] ELSE hdLost
      BY DEF PutNew
    <1>3. PICK n \in Nat : n = Len(hdBuckets)
      BY DEF HdTypes, HdTypeOK
    <1>4. PICK D : D = PutChains(C, k, n, progress)
      OBVIOUS
    <1>5. /\ HdTypes' /\ HdShape(D)'
          /\ progress = "bucket" => Shrinks(hdBuckets, hdData, hdBuckets', C, C)
          /\ progress # "bucket" => Points(hdBuckets, hdData, hdBuckets', C, D, k, n + 1)
      BY <1>3, <1>4, PutNewStep
    <1>6. CASE progress = "bucket"
      <2>1. D = C /\ hdData' = hdData /\ hdLost' = hdLost
        BY <1>2, <1>4, <1>6 DEF PutChains
      <2>2. ASSUME NEW j \in HdKeys
            PROVE  HdCells'[j] = HdCells[j]
        <3>1. HdSlot[j] \in HdSlots
          BY HdAssumption
        <3>2. Untouched(hdBuckets, hdData, hdBuckets', hdData', C, C, j)
          BY <1>5, <1>6, <2>1, <3>1 DEF Untouched, Shrinks, SameEntry
        <3>3. QED
          BY <1>5, <2>1, <3>2, CellsKept
      <2>3. QED
        BY <2>2, CellsFrom
    <1>7. CASE progress # "bucket"
      <2>1. hdData' = IF died THEN hdData ELSE Append(hdData, [key |-> k, val |-> v, ver |-> 1])
        BY <1>2, <1>7
      <2>2. died \in BOOLEAN /\ 1 \in Nat
        OBVIOUS
      <2> HIDE DEF died
      <2>3. /\ \A j \in HdKeys \ {k} : HdCells'[j] = HdCells[j]
            /\ HdCells[k] = Lookup(k)
            /\ HdCells'[k] = IF died THEN HdCells[k] ELSE [val |-> v, ver |-> 1]
        BY <1>1, <1>2, <1>5, <1>7, <2>1, <2>2, PutCells
      <2>4. HdCells[k].ver = 0
        BY <1>1, <2>3 DEF Lookup
      <2>5. CASE died
        BY <2>3, <2>5, CellsFrom
      <2>6. CASE ~died
        <3>1. HdCells' = [HdCells EXCEPT ![k] = HdCells'[k]]
          BY <2>3, CellsFrom
        <3>2. HdCells'[k] = [val |-> v, ver |-> HdCells[k].ver + 1]
          BY <2>3, <2>4, <2>6
        <3>3. HdCells' = [HdCells EXCEPT ![k] = [val |-> v, ver |-> HdCells[k].ver + 1]]
          BY <3>1, <3>2
        <3>4. QED
          BY <1>1, <2>4, <3>3, AbstractPut
      <2>7. QED
        BY <2>5, <2>6
    <1>8. QED
      BY <1>6, <1>7

\* Del takes effect with the link, whether or not the counters are written.
LEMMA HdDelRefines ==
    ASSUME HdTypes, NEW C, HdShape(C), NEW k \in HdKeys, NEW version, HdDel(k, version)
    PROVE  HdDB!DbNext
    <1>1. PICK p : p = FoundAt(k)
      OBVIOUS
    <1>2. PICK D : D = [C EXCEPT ![HdSlot[k]] = @ \ {p}]
      OBVIOUS
    <1>3. /\ p # 0 /\ Readable(p) /\ version \in {-1, hdBuckets[p].ver}
          /\ hdData' = hdData /\ hdLost' = hdLost
      BY <1>1 DEF HdDel
    <1>4. HdTypes' /\ HdShape(D)' /\ Shrinks(hdBuckets, hdData, hdBuckets', C, D)
      BY <1>1, <1>2, HdDelStep
    <1>5. HdCells[k].ver = hdBuckets[p].ver /\ hdBuckets[p].ver \in Nat \ {0}
      BY <1>1, <1>3, VersionInBucket
    <1>6. /\ HdSlot[k] \in HdSlots /\ C \in [HdSlots -> SUBSET (1..Len(hdBuckets))]
          /\ hdBuckets[p].key = k
          /\ \A t \in HdSlots : \A q \in C[t] : hdBuckets[q].key = k => q = p
      BY <1>1, <1>3, FoundInChain
    <1>7. D[HdSlot[k]] = C[HdSlot[k]] \ {p} /\ \A t \in HdSlots \ {HdSlot[k]} : D[t] = C[t]
      BY <1>2, <1>6
    <1>8. ASSUME NEW j \in HdKeys \ {k}
          PROVE  HdCells'[j] = HdCells[j]
      <2>1. HdSlot[j] \in HdSlots
        BY HdAssumption
      <2>2. ASSUME NEW q \in C[HdSlot[j]], hdBuckets[q].key = j
            PROVE  q \in D[HdSlot[j]] /\ SameEntry(hdBuckets, hdBuckets', q)
        <3>1. q \in D[HdSlot[j]]
          BY <1>6, <1>7, <2>1, <2>2
        <3>2. QED
          BY <1>4, <2>1, <3>1 DEF Shrinks
      <2>3. ASSUME NEW q \in D[HdSlot[j]], hdBuckets'[q].key = j
            PROVE  q \in C[HdSlot[j]] /\ hdBuckets[q].key = j
        BY <1>4, <2>1, <2>3 DEF Shrinks, SameEntry
      <2>4. Untouched(hdBuckets, hdData, hdBuckets', hdData', C, D, j)
        BY <1>3, <2>2, <2>3 DEF Untouched
      <2>5. QED
        BY <1>3, <1>4, <2>4, CellsKept
    <1>9. HdCells'[k] = HdAbsent
      <2>1. HdCells'[k] = CellOf(hdBuckets', hdData', hdLost', D, k)
        BY <1>4, CellsNext
      <2>2. hdLost'[k] = NotLost
        BY <1>1, <1>3, NotYetLost
      <2>3. PICK m \in Nat : m = Len(hdBuckets')
        BY <1>4 DEF HdTypes, HdTypeOK
      <2>4. Index(hdDir', hdBuckets', m, D)
        BY <1>4, <2>3 DEF HdShape
      <2> DEFINE f == FoundIn(hdBuckets', D[HdSlot[k]], k)
      <2>5. IsFound(hdBuckets', D[HdSlot[k]], k, f)
        BY <2>3, <2>4, FoundInIndex
      <2>6. CellOf(hdBuckets', hdData', hdLost', D, k) =
               IF f = 0 THEN HdAbsent ELSE ReadCell(hdBuckets', hdData', f)
        BY <2>2 DEF CellOf
      <2> HIDE DEF f
      <2>7. ASSUME f # 0
            PROVE  FALSE
        <3>1. f \in D[HdSlot[k]] /\ hdBuckets'[f].key = k
          BY <2>5, <2>7 DEF IsFound
        <3>2. f \in C[HdSlot[k]] /\ hdBuckets[f].key = k /\ f # p
          BY <1>4, <1>6, <1>7, <3>1 DEF Shrinks, SameEntry
        <3>3. QED
          BY <1>6, <3>2
      <2>8. QED
        BY <2>1, <2>6, <2>7
    <1>10. HdCells' = [HdCells EXCEPT ![k] = HdAbsent]
      <2>1. HdCells' = [HdCells EXCEPT ![k] = HdCells'[k]]
        BY <1>8, CellsFrom
      <2>2. QED
        BY <1>9, <2>1
    <1>11. HdCells[k].ver > 0 /\ version \in {-1, HdCells[k].ver}
      BY <1>3, <1>5
    <1>12. QED
      BY <1>10, <1>11, AbstractDel

\* Every step of HashDB is a step of DBBase, or leaves its cells alone.
LEMMA HdStepRefines ==
    ASSUME HdInv, [HdNext]_hdVars
    PROVE  HdDB!DbNext \/ UNCHANGED HdCells
    <1>1. PICK C : HdShape(C)
      BY DEF HdInv
    <1>2. HdTypes
      BY DEF HdInv
    <1>3. ASSUME NEW k \in HdKeys, NEW version, NEW v \in HdValues, HdPut(k, v, version)
          PROVE  HdDB!DbNext \/ UNCHANGED HdCells
      <2>1. PICK progress \in {"bucket", "pointer", "data", "done"} :
                PutExisting(k, v, version, progress) \/ PutNew(k, v, version, progress)
        BY <1>3 DEF HdPut
      <2>2. hdUp
        BY <1>3 DEF HdPut
      <2>3. QED
        BY <1>1, <1>2, <2>1, <2>2, PutExistingRefines, PutNewRefines
    <1>4. ASSUME NEW k \in HdKeys, NEW version, HdDel(k, version)
          PROVE  HdDB!DbNext
      BY <1>1, <1>2, <1>4, HdDelRefines
    <1>5. ASSUME HdStop \/ HdReopen \/ UNCHANGED hdVars
          PROVE  UNCHANGED HdCells
      <2>1. hdDir' = hdDir /\ hdBuckets' = hdBuckets /\ hdData' = hdData /\ hdLost' = hdLost
        BY <1>5 DEF HdStop, HdReopen, hdVars
      <2>2. QED
        BY <2>1 DEF HdCells, IsLost, Lookup, FoundAt, InChain, ChainAt, NextOf
    <1>6. QED
      BY <1>3, <1>4, <1>5 DEF HdNext

\* HashDB is a DBBase on every key a crash has not lost: Put and Del are the
\* abstract ones at the write that makes them visible, a call cut before it
\* changes nothing that Get returns, a stop and an Init change nothing either,
\* and a crash loses at most the key being put (HashDB::Put, Del, Get, Init).
THEOREM HashDBIsDBBase == HdSpec => HashDBImplementsDBBase
    <1>1. HdInit => HdInv
      BY HdInitially
    <1>2. HdInv /\ [HdNext]_hdVars => HdInv'
      BY HdStep
    <1>3. HdInit => HdDB!DbInit
      <2> SUFFICES ASSUME HdInit
                   PROVE  HdDB!DbInit
        OBVIOUS
      <2>1. ASSUME NEW k \in HdKeys
            PROVE  (IF IsLost(k) THEN hdLost[k] ELSE Lookup(k)) = HdDB!DbAbsent
        <3>1. ~IsLost(k)
          BY DEF HdInit, IsLost
        <3>2. InChain(HdSlot[k]) = {}
          <4>1. PICK C : HdShape(C)
            BY <1>1 DEF HdInv
          <4>2. 0 \in Nat /\ 0 = Len(hdBuckets)
            BY DEF HdInit
          <4>3. InChain(HdSlot[k]) = C[HdSlot[k]] /\ C \in [HdSlots -> SUBSET (1..0)] /\ HdSlot[k] \in HdSlots
            BY <4>1, <4>2, IndexRead, HdAssumption DEF HdShape, Index
          <4>4. QED
            BY <4>3
        <3>3. FoundAt(k) = 0
          BY <3>2 DEF FoundAt
        <3>4. QED
          BY <3>1, <3>3 DEF Lookup, HdDB!DbAbsent
      <2>2. QED
        BY <2>1 DEF HdDB!DbInit
    <1>4. HdInv /\ [HdNext]_hdVars =>
             [HdDB!DbNext]_[k \in HdKeys |-> IF IsLost(k) THEN hdLost[k] ELSE Lookup(k)]
      BY HdStepRefines DEF HdCells
    <1>5. QED
      BY <1>1, <1>2, <1>3, <1>4, PTL DEF HdSpec, HashDBImplementsDBBase, HdDB!DbSpec

-----------------------------------------------------------------------------
\* BitCaskDB: what recovery reads

\* The loops of OpenAndReadFile and OpenAndReadFiles, for any files.
ReadAt(acc, F, n, i) == IF IsFragment(F[n][i]) THEN acc ELSE ReadRecord(acc, n, i, F[n][i])
ReadLoop(F, n, acc) ==
    CHOOSE g : g = [i \in 0..Len(F[n]) |-> IF i = 0 THEN acc ELSE ReadAt(g[i - 1], F, n, i)]
BcEmpty == [index |-> [k \in BcKeys |-> NoBucket], used |-> 0]
AfterFile(F, n, acc) == ReadLoop(F, n, acc)[Len(F[n])]
OpenLoop(F) ==
    CHOOSE g : g = [m \in 0..Len(F) |-> IF m = 0 THEN BcEmpty ELSE AfterFile(F, Len(F) + 1 - m, g[m - 1])]

IsReadLoop(g, F, n, acc, len) == g[0] = acc /\ \A i \in 1..len : g[i] = ReadAt(g[i - 1], F, n, i)
IsOpenLoop(g, F, len) ==
    g[0] = BcEmpty /\ \A m \in 1..len : g[m] = AfterFile(F, Len(F) + 1 - m, g[m - 1])

\* The equation of the loop over a file has a solution.
LEMMA ReadLoopExists ==
    ASSUME NEW F, NEW n, NEW acc, NEW len \in Nat
    PROVE  \E g : IsReadLoop(g, F, n, acc, len)
    <1> DEFINE short == {m \in Nat : ~ \E g : IsReadLoop(g, F, n, acc, m)}
    <1>1. short \in SUBSET Nat /\ \A m \in Nat : m \in short <=> ~ \E g : IsReadLoop(g, F, n, acc, m)
      OBVIOUS
    <1> HIDE DEF short
    <1>2. ASSUME short # {}
          PROVE  FALSE
      <2>1. PICK m \in short : \A j \in short : m <= j
        BY <1>1, <1>2, LeastElement
      <2>2. m \in Nat /\ ~ \E g : IsReadLoop(g, F, n, acc, m)
        BY <1>1, <2>1
      <2>3. CASE m = 0
        <3> DEFINE g == [i \in 0..0 |-> acc]
        <3>1. IsReadLoop(g, F, n, acc, m)
          BY <2>3 DEF IsReadLoop
        <3>2. QED
          BY <2>2, <3>1
      <2>4. CASE m # 0
        <3>1. m - 1 \in Nat /\ ~ (m <= m - 1)
          BY <2>2, <2>4
        <3>2. m - 1 \notin short
          BY <2>1, <3>1
        <3>3. PICK g : IsReadLoop(g, F, n, acc, m - 1)
          BY <1>1, <3>1, <3>2
        <3> DEFINE h == [i \in 0..m |-> IF i = m THEN ReadAt(g[m - 1], F, n, m) ELSE g[i]]
        <3>4. h[0] = acc
          BY <2>2, <2>4, <3>3 DEF IsReadLoop
        <3>5. ASSUME NEW i \in 1..m
              PROVE  h[i] = ReadAt(h[i - 1], F, n, i)
          <4>1. i - 1 \in 0..m /\ i - 1 # m /\ i \in 0..m /\ (i # m => i \in 1..(m - 1))
            BY <2>2
          <4>2. h[i - 1] = g[i - 1]
            BY <4>1
          <4>3. CASE i = m
            BY <4>1, <4>2, <4>3
          <4>4. CASE i # m
            BY <3>3, <4>1, <4>2, <4>4 DEF IsReadLoop
          <4>5. QED
            BY <4>3, <4>4
        <3> HIDE DEF h
        <3>6. IsReadLoop(h, F, n, acc, m)
          BY <3>4, <3>5 DEF IsReadLoop
        <3>7. QED
          BY <2>2, <3>6
      <2>5. QED
        BY <2>3, <2>4
    <1>3. QED
      BY <1>1, <1>2

\* The recursive function solves it.
LEMMA ReadLoopUnfolds ==
    ASSUME NEW F, NEW n, NEW acc, NEW len \in Nat, len = Len(F[n])
    PROVE  IsReadLoop(ReadLoop(F, n, acc), F, n, acc, len)
    <1>1. PICK w : IsReadLoop(w, F, n, acc, len)
      BY ReadLoopExists
    <1> DEFINE v == [i \in 0..len |-> w[i]]
               f == ReadLoop(F, n, acc)
    <1>2. v = [i \in 0..len |-> IF i = 0 THEN acc ELSE ReadAt(v[i - 1], F, n, i)]
      <2>1. ASSUME NEW i \in 0..len
            PROVE  w[i] = IF i = 0 THEN acc ELSE ReadAt(v[i - 1], F, n, i)
        <3>1. i # 0 => i \in 1..len /\ i - 1 \in 0..len
          OBVIOUS
        <3>2. i # 0 => v[i - 1] = w[i - 1]
          BY <3>1
        <3>3. QED
          BY <1>1, <3>1, <3>2 DEF IsReadLoop
      <2>2. QED
        BY <2>1
    <1> HIDE DEF v
    <1>3. f = [i \in 0..len |-> IF i = 0 THEN acc ELSE ReadAt(f[i - 1], F, n, i)]
      BY <1>2, Zenon DEF ReadLoop
    <1> HIDE DEF f
    <1>4. ASSUME NEW i \in 0..len
          PROVE  f[i] = IF i = 0 THEN acc ELSE ReadAt(f[i - 1], F, n, i)
      BY <1>3, Zenon
    <1>5. IsReadLoop(f, F, n, acc, len)
      BY <1>4 DEF IsReadLoop
    <1>6. QED
      BY <1>5 DEF f

\* The equation of the loop over the files has a solution.
LEMMA OpenLoopExists ==
    ASSUME NEW F, NEW len \in Nat
    PROVE  \E g : IsOpenLoop(g, F, len)
    <1> DEFINE short == {m \in Nat : ~ \E g : IsOpenLoop(g, F, m)}
    <1>1. short \in SUBSET Nat /\ \A m \in Nat : m \in short <=> ~ \E g : IsOpenLoop(g, F, m)
      OBVIOUS
    <1> HIDE DEF short
    <1>2. ASSUME short # {}
          PROVE  FALSE
      <2>1. PICK m \in short : \A j \in short : m <= j
        BY <1>1, <1>2, LeastElement
      <2>2. m \in Nat /\ ~ \E g : IsOpenLoop(g, F, m)
        BY <1>1, <2>1
      <2>3. CASE m = 0
        <3> DEFINE g == [i \in 0..0 |-> BcEmpty]
        <3>1. IsOpenLoop(g, F, m)
          BY <2>3 DEF IsOpenLoop
        <3>2. QED
          BY <2>2, <3>1
      <2>4. CASE m # 0
        <3>1. m - 1 \in Nat /\ ~ (m <= m - 1)
          BY <2>2, <2>4
        <3>2. m - 1 \notin short
          BY <2>1, <3>1
        <3>3. PICK g : IsOpenLoop(g, F, m - 1)
          BY <1>1, <3>1, <3>2
        <3> DEFINE h == [i \in 0..m |-> IF i = m THEN AfterFile(F, Len(F) + 1 - m, g[m - 1]) ELSE g[i]]
        <3>4. h[0] = BcEmpty
          BY <2>2, <2>4, <3>3 DEF IsOpenLoop
        <3>5. ASSUME NEW i \in 1..m
              PROVE  h[i] = AfterFile(F, Len(F) + 1 - i, h[i - 1])
          <4>1. i - 1 \in 0..m /\ i - 1 # m /\ i \in 0..m /\ (i # m => i \in 1..(m - 1))
            BY <2>2
          <4>2. h[i - 1] = g[i - 1]
            BY <4>1
          <4>3. CASE i = m
            BY <4>1, <4>2, <4>3
          <4>4. CASE i # m
            BY <3>3, <4>1, <4>2, <4>4 DEF IsOpenLoop
          <4>5. QED
            BY <4>3, <4>4
        <3> HIDE DEF h
        <3>6. IsOpenLoop(h, F, m)
          BY <3>4, <3>5 DEF IsOpenLoop
        <3>7. QED
          BY <2>2, <3>6
      <2>5. QED
        BY <2>3, <2>4
    <1>3. QED
      BY <1>1, <1>2

\* The recursive function solves it.
LEMMA OpenLoopUnfolds ==
    ASSUME NEW F, NEW len \in Nat, len = Len(F)
    PROVE  IsOpenLoop(OpenLoop(F), F, len)
    <1>1. PICK w : IsOpenLoop(w, F, len)
      BY OpenLoopExists
    <1> DEFINE v == [i \in 0..len |-> w[i]]
               f == OpenLoop(F)
    <1>2. v = [i \in 0..len |-> IF i = 0 THEN BcEmpty ELSE AfterFile(F, Len(F) + 1 - i, v[i - 1])]
      <2>1. ASSUME NEW i \in 0..len
            PROVE  w[i] = IF i = 0 THEN BcEmpty ELSE AfterFile(F, Len(F) + 1 - i, v[i - 1])
        <3>1. i # 0 => i \in 1..len /\ i - 1 \in 0..len
          OBVIOUS
        <3>2. i # 0 => v[i - 1] = w[i - 1]
          BY <3>1
        <3>3. QED
          BY <1>1, <3>1, <3>2 DEF IsOpenLoop
      <2>2. QED
        BY <2>1
    <1> HIDE DEF v
    <1>3. f = [m \in 0..len |-> IF m = 0 THEN BcEmpty ELSE AfterFile(F, Len(F) + 1 - m, f[m - 1])]
      BY <1>2, Zenon DEF OpenLoop
    <1> HIDE DEF f
    <1>4. ASSUME NEW i \in 0..len
          PROVE  f[i] = IF i = 0 THEN BcEmpty ELSE AfterFile(F, Len(F) + 1 - i, f[i - 1])
      BY <1>3, Zenon
    <1>5. IsOpenLoop(f, F, len)
      BY <1>4 DEF IsOpenLoop
    <1>6. QED
      BY <1>5 DEF f

\* They are the loops of the model, before and after a step.
LEMMA OpenIsLoop ==
    /\ OpenAndReadFiles = OpenLoop(bcFiles)[Len(bcFiles)]
    /\ OpenAndReadFiles' = OpenLoop(bcFiles')[Len(bcFiles')]
    <1>1. \A n, acc : OpenAndReadFile(n, acc) = AfterFile(bcFiles, n, acc)
      BY Zenon DEF OpenAndReadFile, AfterFile, ReadLoop, ReadAt
    <1>2. \A n, acc : OpenAndReadFile(n, acc)' = AfterFile(bcFiles', n, acc)
      BY Zenon DEF OpenAndReadFile, AfterFile, ReadLoop, ReadAt
    <1>3. QED
      BY Zenon DEF OpenAndReadFiles, OpenLoop, BcEmpty, OpenAndReadFile, AfterFile, ReadLoop, ReadAt

\* The places of the entries in the files.
Places(F) == {at \in (1..Len(F)) \X Nat : at[2] \in 1..Len(F[at[1]])}
EntryAt(F, at) == F[at[1]][at[2]]
HasRecord(F, at, k) == ~IsFragment(EntryAt(F, at)) /\ EntryAt(F, at).key = k

FilesOK(F) == /\ F \in Seq(Seq(Record \cup Fragment)) /\ Len(F) \in 1..BcMaxFiles
              /\ \A n \in 1..Len(F) : Len(F[n]) <= BcFileCap
              /\ \A at \in Places(F) : ~IsFragment(EntryAt(F, at)) => EntryAt(F, at).ver >= 1

\* The bucket of each key is that of its latest record among the places S.
Newest(F, S, k, at) == /\ at \in S /\ HasRecord(F, at, k)
                       /\ \A b \in S : HasRecord(F, b, k) => EntryAt(F, b).time <= EntryAt(F, at).time
LatestOf(F, S, k, bucket) ==
    \/ bucket = NoBucket /\ \A at \in S : ~HasRecord(F, at, k)
    \/ \E at \in S : Newest(F, S, k, at) /\ bucket = Bucket(at[1], at[2], EntryAt(F, at))

BcBucket == [file : 0..BcMaxFiles, pos : 0..BcFileCap, del : BOOLEAN, time : -1..BcMaxTime, ver : Nat]
LiveIn(index) == {k \in BcKeys : ~index[k].del}
LiveCounted(acc) == IsFiniteSet(LiveIn(acc.index)) /\ acc.used = Cardinality(LiveIn(acc.index))
Recovered(F, S, acc) == /\ acc.index \in [BcKeys -> BcBucket]
                        /\ \A k \in BcKeys : LatestOf(F, S, k, acc.index[k])
                        /\ LiveCounted(acc)

\* A whole record is told from a torn one.
LEMMA RecordsAreNotFragments ==
    /\ \A e \in Record : ~IsFragment(e)
    /\ \A e \in Fragment : IsFragment(e)
    BY DEF Record, Fragment, IsFragment

\* The types of a place and of the entry there.
LEMMA EntryTypes ==
    ASSUME NEW F, FilesOK(F), NEW at \in Places(F)
    PROVE  /\ at = <<at[1], at[2]>> /\ at[1] \in 1..Len(F) /\ at[2] \in 1..Len(F[at[1]])
           /\ Len(F) \in Nat /\ Len(F[at[1]]) \in Nat
           /\ at[1] \in 1..BcMaxFiles /\ at[2] \in 1..BcFileCap
           /\ ~IsFragment(EntryAt(F, at)) => EntryAt(F, at) \in Record /\ EntryAt(F, at).ver >= 1
    <1>1. at = <<at[1], at[2]>> /\ at[1] \in 1..Len(F) /\ at[2] \in 1..Len(F[at[1]])
      BY DEF Places
    <1>2. F[at[1]] \in Seq(Record \cup Fragment) /\ Len(F) \in Nat
      BY <1>1 DEF FilesOK
    <1>3. EntryAt(F, at) \in Record \cup Fragment /\ Len(F[at[1]]) \in Nat
      BY <1>1, <1>2 DEF EntryAt
    <1>4. ~IsFragment(EntryAt(F, at)) => EntryAt(F, at) \in Record
      BY <1>3, RecordsAreNotFragments
    <1>5. at[1] \in 1..BcMaxFiles /\ at[2] \in 1..BcFileCap
      <2>1. Len(F[at[1]]) <= BcFileCap /\ Len(F) \in 1..BcMaxFiles
        BY <1>1 DEF FilesOK
      <2>2. QED
        BY <1>1, <1>2, <1>3, <2>1, BcAssumption
    <1>6. QED
      BY <1>1, <1>2, <1>3, <1>4, <1>5 DEF FilesOK

\* The bucket of a record is one.
LEMMA BucketTypes ==
    ASSUME NEW F, FilesOK(F), NEW at \in Places(F), ~IsFragment(EntryAt(F, at))
    PROVE  Bucket(at[1], at[2], EntryAt(F, at)) \in BcBucket
    <1>1. EntryAt(F, at) \in Record /\ at[1] \in 1..BcMaxFiles /\ at[2] \in 1..BcFileCap
      BY EntryTypes
    <1>2. QED
      BY <1>1, BcAssumption DEF Record, Bucket, BcBucket

\* used_cnt follows one change of the index.
LEMMA LiveChange ==
    ASSUME NEW acc, LiveCounted(acc), DOMAIN acc.index = BcKeys, NEW k \in BcKeys, NEW b,
           acc.index[k].del \in BOOLEAN, b.del \in BOOLEAN, NEW acc2,
           acc2.index = [acc.index EXCEPT ![k] = b],
           acc2.used = acc.used + (IF acc.index[k].del /\ ~b.del THEN 1 ELSE 0)
                                - (IF ~acc.index[k].del /\ b.del THEN 1 ELSE 0)
    PROVE  LiveCounted(acc2)
    <1> DEFINE L == LiveIn(acc.index)
               M == LiveIn(acc2.index)
    <1>1. IsFiniteSet(L) /\ acc.used = Cardinality(L)
      BY DEF LiveCounted
    <1>2. Cardinality(L) \in Nat
      BY <1>1, FS_CardinalityType
    <1>3. (k \in L <=> ~acc.index[k].del) /\ \A j : j # k => (j \in M <=> j \in L)
      BY DEF LiveIn
    <1>4. k \in M <=> ~b.del
      BY DEF LiveIn
    <1> HIDE DEF L, M
    <1>5. CASE b.del
      <2>1. M = L \ {k}
        BY <1>3, <1>4, <1>5
      <2>2. IsFiniteSet(M) /\ Cardinality(M) = IF k \in L THEN Cardinality(L) - 1 ELSE Cardinality(L)
        BY <1>1, <2>1, FS_RemoveElement
      <2>3. acc2.used = Cardinality(M)
        BY <1>1, <1>2, <1>3, <1>5, <2>2
      <2>4. QED
        BY <2>2, <2>3 DEF LiveCounted, M
    <1>6. CASE ~b.del
      <2>1. M = L \cup {k}
        BY <1>3, <1>4, <1>6
      <2>2. IsFiniteSet(M) /\ Cardinality(M) = IF k \in L THEN Cardinality(L) ELSE Cardinality(L) + 1
        BY <1>1, <2>1, FS_AddElement
      <2>3. acc2.used = Cardinality(M)
        BY <1>1, <1>2, <1>3, <1>6, <2>2
      <2>4. QED
        BY <2>2, <2>3 DEF LiveCounted, M
    <1>7. QED
      BY <1>5, <1>6

\* Reading one entry.
LEMMA ReadOne ==
    ASSUME NEW F, FilesOK(F), NEW S \in SUBSET Places(F), NEW acc, Recovered(F, S, acc),
           NEW n, NEW i, <<n, i>> \in Places(F)
    PROVE  Recovered(F, S \cup {<<n, i>>}, ReadAt(acc, F, n, i))
    <1> DEFINE at == <<n, i>>
               T == S \cup {at}
               e == F[n][i]
               k == e.key
               old == acc.index[k]
               acc2 == ReadAt(acc, F, n, i)
    <1>0. EntryAt(F, at) = e /\ at[1] = n /\ at[2] = i /\ at \in Places(F)
      BY DEF EntryAt
    <1>1. /\ acc.index \in [BcKeys -> BcBucket] /\ LiveCounted(acc)
          /\ \A j \in BcKeys : LatestOf(F, S, j, acc.index[j])
      BY DEF Recovered
    <1>2. ASSUME NEW j \in BcKeys, ~HasRecord(F, at, j), NEW bucket, LatestOf(F, S, j, bucket)
          PROVE  LatestOf(F, T, j, bucket)
      BY <1>2 DEF LatestOf, Newest
    <1>3. CASE IsFragment(e)
      <2>1. acc2 = acc /\ \A j \in BcKeys : ~HasRecord(F, at, j)
        BY <1>0, <1>3 DEF ReadAt, HasRecord
      <2>2. QED
        BY <1>1, <1>2, <2>1 DEF Recovered
    <1>4. CASE ~IsFragment(e)
      <2>1. e \in Record /\ k \in BcKeys /\ e.time \in 0..BcMaxTime /\ e.del \in BOOLEAN
        <3>1. e \in Record
          BY <1>0, <1>4, EntryTypes
        <3>2. QED
          BY <3>1 DEF Record
      <2>2. HasRecord(F, at, k) /\ \A j \in BcKeys : j # k => ~HasRecord(F, at, j)
        BY <1>0, <1>4 DEF HasRecord
      <2>3. acc2 = ReadRecord(acc, n, i, e)
        BY <1>4 DEF ReadAt
      <2>4. LatestOf(F, S, k, old) /\ old \in BcBucket
        BY <1>1, <2>1
      <2>5. \A b \in S : ~IsFragment(EntryAt(F, b)) => EntryAt(F, b).time \in 0..BcMaxTime
        <3>1. \A b \in S : ~IsFragment(EntryAt(F, b)) => EntryAt(F, b) \in Record
          BY EntryTypes
        <3>2. QED
          BY <3>1 DEF Record
      <2>6. old.file = 0 => \A b \in S : ~HasRecord(F, b, k)
        <3>1. ASSUME NEW b \in S, old = Bucket(b[1], b[2], EntryAt(F, b))
              PROVE  old.file # 0
          <4>1. b[1] \in 1..BcMaxFiles
            BY EntryTypes
          <4>2. QED
            BY <3>1, <4>1, BcAssumption DEF Bucket
        <3>2. QED
          BY <2>4, <3>1 DEF LatestOf
      <2>7. old.file # 0 => \E b \in S : Newest(F, S, k, b) /\ old.time = EntryAt(F, b).time
                                         /\ old = Bucket(b[1], b[2], EntryAt(F, b))
        <3>1. NoBucket.file = 0 /\ \A b \in S : Bucket(b[1], b[2], EntryAt(F, b)).time = EntryAt(F, b).time
          BY DEF NoBucket, Bucket
        <3>2. QED
          BY <2>4, <3>1 DEF LatestOf
      <2> DEFINE isNew == old.file = 0 \/ e.time > old.time
      <2>8. CASE ~isNew
        <3>1. acc2 = acc
          BY <2>3, <2>8 DEF ReadRecord, CheckValueIsNew
        <3>2. LatestOf(F, T, k, old)
          <4>1. PICK b \in S : Newest(F, S, k, b) /\ old.time = EntryAt(F, b).time
                               /\ old = Bucket(b[1], b[2], EntryAt(F, b))
            BY <2>7, <2>8
          <4>2. EntryAt(F, b).time \in 0..BcMaxTime
            BY <2>5, <4>1 DEF Newest, HasRecord
          <4>3. e.time <= EntryAt(F, b).time
            BY <2>1, <2>8, <4>1, <4>2, BcAssumption
          <4>4. Newest(F, T, k, b)
            BY <1>0, <4>1, <4>3 DEF Newest
          <4>5. QED
            BY <4>1, <4>4 DEF LatestOf
        <3>3. ASSUME NEW j \in BcKeys
              PROVE  LatestOf(F, T, j, acc.index[j])
          BY <1>1, <1>2, <2>2, <3>2
        <3>4. QED
          BY <1>1, <3>1, <3>3 DEF Recovered
      <2>9. CASE isNew
        <3> DEFINE b == Bucket(n, i, e)
        <3>1. /\ acc2.index = [acc.index EXCEPT ![k] = b]
              /\ acc2.used = acc.used + (IF old.del /\ ~e.del THEN 1 ELSE 0)
                                      - (IF ~old.del /\ e.del THEN 1 ELSE 0)
          BY <2>3, <2>9 DEF ReadRecord, CheckValueIsNew
        <3>2. b \in BcBucket /\ b.del = e.del
          <4>1. Bucket(at[1], at[2], EntryAt(F, at)) \in BcBucket
            BY <1>0, <1>4, BucketTypes
          <4>2. QED
            BY <1>0, <4>1 DEF Bucket
        <3>3. LatestOf(F, T, k, b)
          <4>1. ASSUME NEW c \in S, HasRecord(F, c, k)
                PROVE  EntryAt(F, c).time <= e.time
            <5>1. PICK d \in S : Newest(F, S, k, d) /\ old.time = EntryAt(F, d).time
              BY <2>6, <2>7, <4>1
            <5>2. EntryAt(F, c).time <= old.time /\ old.time \in 0..BcMaxTime /\ EntryAt(F, c).time \in 0..BcMaxTime
              BY <2>5, <4>1, <5>1 DEF Newest, HasRecord
            <5>3. e.time > old.time
              BY <2>6, <2>9, <4>1
            <5>4. QED
              BY <2>1, <5>2, <5>3, BcAssumption
          <4>2. e.time <= e.time
            BY <2>1, BcAssumption
          <4>3. Newest(F, T, k, at)
            BY <1>0, <2>2, <4>1, <4>2 DEF Newest
          <4>4. QED
            BY <1>0, <4>3 DEF LatestOf
        <3> HIDE DEF b
        <3>4. acc2.index \in [BcKeys -> BcBucket] /\ acc2.index[k] = b /\ \A j \in BcKeys \ {k} : acc2.index[j] = acc.index[j]
          BY <1>1, <2>1, <3>1, <3>2
        <3>5. ASSUME NEW j \in BcKeys
              PROVE  LatestOf(F, T, j, acc2.index[j])
          <4>1. CASE j = k
            BY <3>3, <3>4, <4>1
          <4>2. CASE j # k
            <5>1. acc2.index[j] = acc.index[j] /\ LatestOf(F, S, j, acc.index[j]) /\ ~HasRecord(F, at, j)
              BY <1>1, <2>2, <3>4, <4>2
            <5>2. QED
              BY <1>2, <5>1
          <4>3. QED
            BY <4>1, <4>2
        <3>6. LiveCounted(acc2)
          <4>1. old.del \in BOOLEAN /\ b.del \in BOOLEAN /\ DOMAIN acc.index = BcKeys
            BY <1>1, <2>1, <2>4, <3>2 DEF BcBucket
          <4>2. acc2.used = acc.used + (IF old.del /\ ~b.del THEN 1 ELSE 0)
                                     - (IF ~old.del /\ b.del THEN 1 ELSE 0)
            BY <3>1, <3>2
          <4>3. LiveCounted(acc) /\ k \in BcKeys /\ acc2.index = [acc.index EXCEPT ![k] = b]
            BY <1>1, <2>1, <3>1
          <4> HIDE DEF old, acc2
          <4>4. acc.index[k].del \in BOOLEAN /\ old = acc.index[k]
            BY <4>1 DEF old
          <4>5. QED
            BY <4>1, <4>2, <4>3, <4>4, LiveChange
        <3>7. QED
          BY <3>4, <3>5, <3>6 DEF Recovered
      <2>10. QED
        BY <2>8, <2>9
    <1>5. QED
      BY <1>3, <1>4

\* Reading a file.
UpTo(S, n, j) == S \cup {<<n, i>> : i \in 1..j}

\* After a file, the entries have the latest of the places read so far.
LEMMA FileRecovered ==
    ASSUME NEW F, FilesOK(F), NEW S \in SUBSET Places(F), NEW acc, Recovered(F, S, acc),
           NEW n \in 1..Len(F), NEW len, len = Len(F[n])
    PROVE  UpTo(S, n, len) \in SUBSET Places(F) /\ Recovered(F, UpTo(S, n, len), AfterFile(F, n, acc))
    <1>1. len \in Nat /\ Len(F) \in Nat
      BY DEF FilesOK
    <1> DEFINE g == ReadLoop(F, n, acc)
    <1>2. IsReadLoop(g, F, n, acc, len) /\ AfterFile(F, n, acc) = g[len]
      BY <1>1, ReadLoopUnfolds DEF AfterFile
    <1> HIDE DEF g
    <1>3. \A i \in 1..len : <<n, i>> \in Places(F)
      BY <1>1 DEF Places
    <1>4. ASSUME NEW j \in 0..len
          PROVE  UpTo(S, n, j) \in SUBSET Places(F)
      <2>1. 1..j \subseteq 1..len
        BY <1>1
      <2>2. QED
        BY <1>3, <2>1 DEF UpTo
    <1> DEFINE off == {j \in 0..len : ~Recovered(F, UpTo(S, n, j), g[j])}
    <1>5. ASSUME NEW j \in 0..len
          PROVE  Recovered(F, UpTo(S, n, j), g[j])
      <2> SUFFICES ASSUME ~Recovered(F, UpTo(S, n, j), g[j])
                   PROVE  FALSE
        OBVIOUS
      <2>1. off \in SUBSET Nat /\ off # {}
        BY <1>1
      <2>2. PICK m \in off : \A x \in off : m <= x
        BY <2>1, LeastElement
      <2>3. m \in 0..len /\ ~Recovered(F, UpTo(S, n, m), g[m])
        BY <2>2
      <2>4. CASE m = 0
        <3>1. UpTo(S, n, 0) = S
          BY DEF UpTo
        <3>2. g[0] = acc
          BY <1>2 DEF IsReadLoop
        <3>3. QED
          BY <2>3, <2>4, <3>1, <3>2
      <2>5. CASE m # 0
        <3>1. m \in 1..len /\ m - 1 \in 0..len /\ ~(m <= m - 1)
          BY <1>1, <2>3, <2>5
        <3>2. m - 1 \notin off
          BY <2>2, <3>1
        <3>3. Recovered(F, UpTo(S, n, m - 1), g[m - 1])
          BY <3>1, <3>2
        <3>4. g[m] = ReadAt(g[m - 1], F, n, m) /\ <<n, m>> \in Places(F)
          BY <1>2, <1>3, <3>1 DEF IsReadLoop
        <3>5. UpTo(S, n, m - 1) \in SUBSET Places(F)
          BY <1>4, <3>1
        <3>6. Recovered(F, UpTo(S, n, m - 1) \cup {<<n, m>>}, g[m])
          BY <3>3, <3>4, <3>5, ReadOne
        <3>7. UpTo(S, n, m) = UpTo(S, n, m - 1) \cup {<<n, m>>}
          <4>1. 1..m = (1..(m - 1)) \cup {m}
            BY <1>1, <3>1
          <4>2. QED
            BY <4>1 DEF UpTo
        <3>8. QED
          BY <2>3, <3>6, <3>7
      <2>6. QED
        BY <2>4, <2>5
    <1>6. QED
      BY <1>1, <1>2, <1>4, <1>5

\* Reading them all, the newest first.
Newer(F, m) == {at \in Places(F) : at[1] > Len(F) - m}

\* After the last file, they have the latest records of all.
LEMMA AllRecovered ==
    ASSUME NEW F, FilesOK(F)
    PROVE  Recovered(F, Places(F), OpenLoop(F)[Len(F)])
    <1>1. PICK len \in Nat : len = Len(F)
      BY DEF FilesOK
    <1> DEFINE g == OpenLoop(F)
    <1>2. IsOpenLoop(g, F, len)
      BY <1>1, OpenLoopUnfolds
    <1> HIDE DEF g
    <1>3. Recovered(F, {}, BcEmpty)
      <2>1. BcEmpty.index = [k \in BcKeys |-> NoBucket] /\ BcEmpty.used = 0
        BY DEF BcEmpty
      <2>2. NoBucket \in BcBucket /\ NoBucket.del
        BY BcAssumption DEF NoBucket, BcBucket
      <2>3. LiveIn(BcEmpty.index) = {}
        BY <2>1, <2>2 DEF LiveIn
      <2>4. LiveCounted(BcEmpty)
        BY <2>1, <2>3, FS_EmptySet DEF LiveCounted
      <2>5. \A k \in BcKeys : LatestOf(F, {}, k, BcEmpty.index[k])
        BY <2>1 DEF LatestOf
      <2>6. QED
        BY <2>1, <2>2, <2>4, <2>5 DEF Recovered
    <1>4. \A at \in Places(F) : at[1] \in 1..len /\ at[2] \in 1..Len(F[at[1]]) /\ at = <<at[1], at[2]>>
      BY <1>1 DEF Places
    <1> DEFINE off == {j \in 0..len : ~Recovered(F, Newer(F, j), g[j])}
    <1>5. ASSUME off # {}
          PROVE  FALSE
      <2>1. off \in SUBSET Nat /\ off # {}
        BY <1>1, <1>5
      <2>2. PICK m \in off : \A x \in off : m <= x
        BY <2>1, LeastElement
      <2>3. m \in 0..len /\ ~Recovered(F, Newer(F, m), g[m])
        BY <2>2
      <2>4. CASE m = 0
        <3>1. Newer(F, 0) = {}
          BY <1>1, <1>4 DEF Newer
        <3>2. g[0] = BcEmpty
          BY <1>2 DEF IsOpenLoop
        <3>3. QED
          BY <1>3, <2>3, <2>4, <3>1, <3>2
      <2>5. CASE m # 0
        <3>1. m \in 1..len /\ m - 1 \in 0..len /\ ~(m <= m - 1)
          BY <1>1, <2>3, <2>5
        <3>2. m - 1 \notin off
          BY <2>2, <3>1
        <3>3. Recovered(F, Newer(F, m - 1), g[m - 1]) /\ Newer(F, m - 1) \in SUBSET Places(F)
          BY <3>1, <3>2 DEF Newer
        <3>4. PICK n \in 1..len : n = len + 1 - m
          BY <1>1, <3>1
        <3>5. g[m] = AfterFile(F, n, g[m - 1])
          BY <1>1, <1>2, <3>1, <3>4 DEF IsOpenLoop
        <3>6. Recovered(F, UpTo(Newer(F, m - 1), n, Len(F[n])), AfterFile(F, n, g[m - 1]))
          BY <1>1, <3>3, FileRecovered
        <3>7. Newer(F, m) = UpTo(Newer(F, m - 1), n, Len(F[n]))
          <4>1. ASSUME NEW at \in Newer(F, m)
                PROVE  at \in UpTo(Newer(F, m - 1), n, Len(F[n]))
            <5>1. at \in Places(F) /\ at[1] > len - m
              BY <1>1 DEF Newer
            <5>2. at[1] \in 1..len /\ at[2] \in 1..Len(F[at[1]]) /\ at = <<at[1], at[2]>>
              BY <1>4, <5>1
            <5>3. at[1] = n \/ at[1] > len - (m - 1)
              BY <3>1, <3>4, <5>1, <5>2
            <5>4. CASE at[1] = n
              BY <5>2, <5>4 DEF UpTo
            <5>5. CASE at[1] > len - (m - 1)
              BY <1>1, <5>1, <5>5 DEF UpTo, Newer
            <5>6. QED
              BY <5>3, <5>4, <5>5
          <4>2. ASSUME NEW at \in UpTo(Newer(F, m - 1), n, Len(F[n]))
                PROVE  at \in Newer(F, m)
            <5>1. CASE at \in Newer(F, m - 1)
              <6>1. at \in Places(F) /\ at[1] > len - (m - 1) /\ at[1] \in 1..len
                BY <1>1, <1>4, <5>1 DEF Newer
              <6>2. at[1] > len - m
                BY <3>1, <6>1
              <6>3. QED
                BY <1>1, <6>1, <6>2 DEF Newer
            <5>2. CASE \E i \in 1..Len(F[n]) : at = <<n, i>>
              <6>1. PICK i \in 1..Len(F[n]) : at = <<n, i>>
                BY <5>2
              <6>2. at \in Places(F) /\ at[1] = n
                BY <1>1, <6>1 DEF Places
              <6>3. n > len - m
                BY <3>1, <3>4
              <6>4. QED
                BY <1>1, <6>2, <6>3 DEF Newer
            <5>3. QED
              BY <5>1, <5>2 DEF UpTo
          <4>3. QED
            BY <4>1, <4>2
        <3>8. QED
          BY <2>3, <3>5, <3>6, <3>7
      <2>6. QED
        BY <2>4, <2>5
    <1>6. len \in 0..len /\ Newer(F, len) = Places(F)
      BY <1>1, <1>4 DEF Newer
    <1>7. Recovered(F, Newer(F, len), g[len])
      BY <1>5, <1>6
    <1>8. QED
      BY <1>1, <1>6, <1>7 DEF g

-----------------------------------------------------------------------------
\* BitCaskDB: what an append adds

\* G has the entries of F where F has them, and e at the places S beside them.
Extends(F, G, S, e) == /\ Places(G) = Places(F) \cup S
                       /\ \A at \in Places(F) : EntryAt(G, at) = EntryAt(F, at)
                       /\ \A at \in S : at \notin Places(F) /\ EntryAt(G, at) = e

\* The files after an append of s: to the last one, or to a new one once the
\* last has cap entries.
AppendedTo(F, s, m) == IF Len(F[m]) >= BcFileCap THEN Append(F, s)
                       ELSE [F EXCEPT ![m] = @ \o s]
NextFile(F, m) == IF Len(F[m]) >= BcFileCap THEN m + 1 ELSE m
NextPos(F, m) == IF Len(F[m]) >= BcFileCap THEN 1 ELSE Len(F[m]) + 1

\* The file written to, before and after.
IsAppend(F, G, n, p, s) ==
    /\ Len(G) = n /\ G \in Seq(Seq(Record \cup Fragment))
    /\ \A j \in 1..Len(F) : j # n => G[j] = F[j]
    /\ Len(G[n]) = p - 1 + Len(s)
    /\ p = 1 \/ (n = Len(F) /\ p = Len(F[n]) + 1)
    /\ n = Len(F) \/ (n = Len(F) + 1 /\ p = 1)
    /\ n = Len(F) => p = Len(F[n]) + 1
    /\ \A i \in 1..(p - 1) : G[n][i] = F[n][i]
    /\ s # <<>> => G[n][p] = s[1]

\* An append changes one file.
LEMMA AppendIs ==
    ASSUME NEW F, FilesOK(F), NEW m, m = Len(F), NEW e \in Record \cup Fragment, NEW s, s \in {<<>>, <<e>>},
           NEW G, G = AppendedTo(F, s, m)
    PROVE  IsAppend(F, G, NextFile(F, m), NextPos(F, m), s)
    <1> DEFINE E == Record \cup Fragment
    <1>1. F \in Seq(Seq(E)) /\ m \in Nat /\ m >= 1 /\ m \in 1..Len(F)
      BY BcAssumption DEF FilesOK
    <1>2. F[m] \in Seq(E) /\ Len(F[m]) \in Nat
      BY <1>1
    <1>3. s \in Seq(E) /\ Len(s) \in Nat /\ (s # <<>> => Len(s) = 1 /\ s[1] = e) /\ (s = <<>> => Len(s) = 0)
      <2>1. CASE s = <<>>
        BY <2>1
      <2>2. CASE s = <<e>>
        BY <2>2
      <2>3. QED
        BY <2>1, <2>2
    <1> HIDE DEF E
    <1>4. CASE Len(F[m]) >= BcFileCap
      <2>1. G = Append(F, s) /\ NextFile(F, m) = m + 1 /\ NextPos(F, m) = 1
        BY <1>4 DEF AppendedTo, NextFile, NextPos
      <2>2. G \in Seq(Seq(E)) /\ Len(G) = m + 1 /\ G[m + 1] = s /\ \A j \in 1..m : G[j] = F[j]
        BY <1>1, <1>3, <2>1
      <2>3. 1..(1 - 1) = {} /\ m + 1 # m
        BY <1>1
      <2>4. Len(s) = 1 - 1 + Len(s)
        BY <1>3
      <2>5. QED
        BY <2>1, <2>2, <2>3, <2>4, <1>1 DEF IsAppend, E
    <1>5. CASE ~(Len(F[m]) >= BcFileCap)
      <2>1. G = [F EXCEPT ![m] = F[m] \o s] /\ NextFile(F, m) = m /\ NextPos(F, m) = Len(F[m]) + 1
        BY <1>5 DEF AppendedTo, NextFile, NextPos
      <2>2. PICK t : t = F[m] \o s
        OBVIOUS
      <2>3. t \in Seq(E) /\ Len(t) = Len(F[m]) + Len(s) /\ (\A i \in 1..Len(F[m]) : t[i] = F[m][i])
            /\ (s # <<>> => t[Len(F[m]) + 1] = s[1])
        BY <1>2, <1>3, <2>2
      <2>4. G \in Seq(Seq(E)) /\ Len(G) = m /\ G[m] = t /\ \A j \in 1..m : j # m => G[j] = F[j]
        BY <1>1, <2>1, <2>2, <2>3
      <2>5. PICK q \in Nat : q = Len(F[m])
        BY <1>2
      <2>6. q + 1 - 1 = q
        BY <2>5
      <2>7. QED
        BY <2>1, <2>3, <2>4, <2>5, <2>6, <1>1 DEF IsAppend, E
    <1>6. QED
      BY <1>4, <1>5

\* The types of where it writes.
LEMMA AppendTypes ==
    ASSUME NEW F, FilesOK(F), NEW m, m = Len(F), NEW n, n = NextFile(F, m), NEW p, p = NextPos(F, m)
    PROVE  /\ m \in Nat /\ n \in Nat /\ p \in Nat /\ p \in 1..BcFileCap
           /\ n \in {m, m + 1} /\ n >= 1
           /\ n = m + 1 <=> Len(F[m]) >= BcFileCap
    <1>1. m \in Nat /\ m >= 1 /\ F[m] \in Seq(Record \cup Fragment) /\ Len(F[m]) <= BcFileCap
      BY BcAssumption DEF FilesOK
    <1>2. PICK q \in Nat : q = Len(F[m])
      BY <1>1
    <1>3. QED
      BY <1>1, <1>2, BcAssumption DEF NextFile, NextPos

\* It adds the entry and moves none.
LEMMA AppendExtends ==
    ASSUME NEW F, FilesOK(F), NEW m, m = Len(F), NEW e \in Record \cup Fragment, NEW s,
           NEW G, NEW n, n = NextFile(F, m), NEW p, p = NextPos(F, m), IsAppend(F, G, n, p, s),
           NEW S, \/ s = <<>> /\ S = {}
                  \/ s = <<e>> /\ S = {<<n, p>>}
    PROVE  Extends(F, G, S, e)
    <1>1. /\ m \in Nat /\ n \in Nat /\ p \in Nat /\ p \in 1..BcFileCap
          /\ n \in {m, m + 1} /\ n >= 1
      BY AppendTypes
    <1>2. F \in Seq(Seq(Record \cup Fragment))
      BY DEF FilesOK
    <1>3. /\ Len(G) = n /\ G \in Seq(Seq(Record \cup Fragment))
          /\ \A j \in 1..m : j # n => G[j] = F[j]
          /\ Len(G[n]) = p - 1 + Len(s)
          /\ n = m \/ (n = m + 1 /\ p = 1)
          /\ n = m => p = Len(F[n]) + 1
          /\ \A i \in 1..(p - 1) : G[n][i] = F[n][i]
          /\ s # <<>> => G[n][p] = s[1]
      BY DEF IsAppend
    <1>4. \A f, i : <<f, i>> \in Places(F) <=> f \in 1..m /\ i \in Nat /\ i \in 1..Len(F[f])
      BY DEF Places
    <1>5. \A f, i : <<f, i>> \in Places(G) <=> f \in 1..n /\ i \in Nat /\ i \in 1..Len(G[f])
      BY <1>3 DEF Places
    <1>6. <<n, p>> \notin Places(F)
      <2>1. CASE n = m
        <3>1. F[n] \in Seq(Record \cup Fragment)
          BY <1>1, <1>2, <2>1
        <3>2. PICK q \in Nat : q = Len(F[n])
          BY <3>1
        <3>3. QED
          BY <1>3, <1>4, <2>1, <3>2
      <2>2. CASE n = m + 1
        BY <1>1, <1>4, <2>2
      <2>3. QED
        BY <1>1, <2>1, <2>2
    <1>7. ASSUME NEW f, NEW i, <<f, i>> \in Places(F)
          PROVE  <<f, i>> \in Places(G) /\ G[f][i] = F[f][i]
      <2>1. f \in 1..m /\ i \in Nat /\ i \in 1..Len(F[f]) /\ f \in 1..n /\ f \in Nat
        BY <1>1, <1>4, <1>7
      <2>2. CASE f # n
        BY <1>3, <1>5, <2>1, <2>2
      <2>3. CASE f = n
        <3>1. n = m
          BY <1>1, <2>1, <2>3
        <3>2. F[n] \in Seq(Record \cup Fragment)
          BY <1>1, <1>2, <3>1
        <3>3. PICK q \in Nat : q = Len(F[n])
          BY <3>2
        <3>4. p = q + 1
          BY <1>3, <3>1, <3>3
        <3>5. PICK l \in 0..1 : l = Len(s)
          OBVIOUS
        <3>6. Len(G[n]) = q + l /\ i \in 1..q
          BY <1>3, <2>1, <2>3, <3>3, <3>4, <3>5
        <3>7. i \in 1..(p - 1) /\ i \in 1..(q + l)
          BY <3>4, <3>5, <3>6
        <3>8. QED
          BY <1>3, <1>5, <2>1, <2>3, <3>6, <3>7
      <2>4. QED
        BY <2>2, <2>3
    <1>8. ASSUME NEW f, NEW i, <<f, i>> \in Places(G), <<f, i>> \notin Places(F)
          PROVE  f = n /\ i = p /\ s = <<e>>
      <2>1. f \in 1..n /\ i \in Nat /\ i \in 1..Len(G[f]) /\ f \in Nat
        BY <1>1, <1>5, <1>8
      <2>2. f = n
        <3> SUFFICES ASSUME f # n
                     PROVE  FALSE
          OBVIOUS
        <3>1. f \in 1..m
          BY <1>1, <2>1
        <3>2. QED
          BY <1>3, <1>4, <1>8, <2>1, <3>1
      <2>3. PICK l \in 0..1 : l = Len(s) /\ (l = 1 => s = <<e>>)
        OBVIOUS
      <2>4. i \in 1..(p - 1 + l)
        BY <1>3, <2>1, <2>2, <2>3
      <2>5. i \notin 1..(p - 1)
        <3>1. CASE n = m
          <4>1. F[n] \in Seq(Record \cup Fragment)
            BY <1>1, <1>2, <3>1
          <4>2. PICK q \in Nat : q = Len(F[n])
            BY <4>1
          <4>3. i \notin 1..q
            BY <1>1, <1>4, <1>8, <2>1, <2>2, <3>1, <4>2
          <4>4. QED
            BY <1>3, <3>1, <4>2, <4>3
        <3>2. CASE n = m + 1
          <4>1. p = 1
            BY <1>1, <1>3, <3>2
          <4>2. QED
            BY <2>1, <4>1
        <3>3. QED
          BY <1>1, <3>1, <3>2
      <2>6. i = p /\ l = 1
        <3>1. p \in Int /\ l \in Int /\ l <= 1
          BY <1>1
        <3>4. p - 1 + l \in Int
          BY <3>1
        <3>5. i \in Int /\ 1 <= i /\ i <= p - 1 + l
          BY <2>4, <3>4
        <3>2. i > p - 1
          BY <2>5, <3>1, <3>5
        <3>3. QED
          BY <3>1, <3>2, <3>5
      <2>7. QED
        BY <2>2, <2>3, <2>6
    <1>9. s = <<e>> => <<n, p>> \in Places(G) /\ G[n][p] = e
      <2> SUFFICES ASSUME s = <<e>>
                   PROVE  <<n, p>> \in Places(G) /\ G[n][p] = e
        OBVIOUS
      <2>1. Len(G[n]) = p /\ s # <<>> /\ s[1] = e
        BY <1>1, <1>3
      <2>2. QED
        BY <1>1, <1>3, <1>5, <2>1
    <1>10. /\ \A at \in Places(F) : at = <<at[1], at[2]>>
           /\ \A at \in Places(G) : at = <<at[1], at[2]>>
      BY DEF Places
    <1>11. s = <<>> => s # <<e>>
      OBVIOUS
    <1>12. Places(G) = Places(F) \cup S
      <2>1. ASSUME NEW at \in Places(G)
            PROVE  at \in Places(F) \cup S
        <3>1. at = <<at[1], at[2]>>
          BY <1>10
        <3>2. CASE at \notin Places(F)
          BY <1>8, <1>11, <3>1, <3>2
        <3>3. QED
          BY <3>2
      <2>2. ASSUME NEW at \in Places(F)
            PROVE  at \in Places(G)
        BY <1>7, <1>10
      <2>3. S \subseteq Places(G)
        BY <1>9
      <2>4. QED
        BY <2>1, <2>2, <2>3
    <1>13. \A at \in Places(F) : EntryAt(G, at) = EntryAt(F, at)
      BY <1>7, <1>10 DEF EntryAt
    <1>14. \A at \in S : at \notin Places(F) /\ EntryAt(G, at) = e
      BY <1>6, <1>9 DEF EntryAt
    <1>15. QED
      BY <1>12, <1>13, <1>14 DEF Extends

\* A record that is appended has a version of its own.
NewEntry(e) == e \in Record \cup Fragment /\ (~IsFragment(e) => e.ver >= 1)

\* The files stay files.
LEMMA AppendKeepsFiles ==
    ASSUME NEW F, FilesOK(F), NEW m, m = Len(F), NEW e, NewEntry(e), NEW s,
           NEW G, NEW n, n = NextFile(F, m), n <= BcMaxFiles, NEW p, p = NextPos(F, m), IsAppend(F, G, n, p, s),
           NEW S, \/ s = <<>> /\ S = {}
                  \/ s = <<e>> /\ S = {<<n, p>>}
    PROVE  FilesOK(G)
    <1>1. /\ m \in Nat /\ n \in Nat /\ p \in Nat /\ p \in 1..BcFileCap
          /\ n \in {m, m + 1} /\ n >= 1
      BY AppendTypes
    <1>2. /\ Len(G) = n /\ G \in Seq(Seq(Record \cup Fragment))
          /\ \A j \in 1..m : j # n => G[j] = F[j]
          /\ Len(G[n]) = p - 1 + Len(s)
      BY DEF IsAppend
    <1>3. n \in 1..BcMaxFiles
      BY <1>1, BcAssumption
    <1>4. ASSUME NEW j \in 1..n
          PROVE  Len(G[j]) <= BcFileCap
      <2>1. CASE j = n
        <3>1. PICK l \in 0..1 : l = Len(s)
          OBVIOUS
        <3>2. Len(G[j]) = p - 1 + l
          BY <1>2, <2>1, <3>1
        <3>3. l \in Int /\ l <= 1 /\ p \in Int /\ p <= BcFileCap /\ BcFileCap \in Int
          BY <1>1, BcAssumption
        <3>4. QED
          BY <3>2, <3>3
      <2>2. CASE j # n
        <3>1. j \in 1..m
          BY <1>1, <2>2
        <3>2. QED
          BY <1>2, <2>2, <3>1 DEF FilesOK
      <2>3. QED
        BY <2>1, <2>2
    <1>5. Extends(F, G, S, e)
      BY AppendExtends DEF NewEntry
    <1>6. ASSUME NEW at \in Places(G), ~IsFragment(EntryAt(G, at))
          PROVE  EntryAt(G, at).ver >= 1
      <2>1. CASE at \in Places(F)
        BY <1>5, <1>6, <2>1 DEF Extends, FilesOK
      <2>2. CASE at \in S
        BY <1>5, <1>6, <2>2 DEF Extends, NewEntry
      <2>3. QED
        BY <1>5, <1>6, <2>1, <2>2 DEF Extends
    <1>7. QED
      BY <1>2, <1>3, <1>4, <1>6 DEF FilesOK

\* Two records of one key have different times.
TimesApart(F) == \A a, b \in Places(F) : \A k \in BcKeys :
                    /\ HasRecord(F, a, k) /\ HasRecord(F, b, k)
                    /\ EntryAt(F, a).time = EntryAt(F, b).time
                    => a = b

\* The time t is later than every record of k.
LaterThan(F, k, t) == \A at \in Places(F) : HasRecord(F, at, k) => EntryAt(F, at).time < t

\* Then the files determine the bucket of each key.
LEMMA LatestUnique ==
    ASSUME NEW F, FilesOK(F), TimesApart(F), NEW k \in BcKeys, NEW b, NEW c,
           LatestOf(F, Places(F), k, b), LatestOf(F, Places(F), k, c)
    PROVE  b = c
    <1>1. CASE \A at \in Places(F) : ~HasRecord(F, at, k)
      BY <1>1 DEF LatestOf, Newest
    <1>2. CASE \E at \in Places(F) : HasRecord(F, at, k)
      <2>1. PICK x \in Places(F) : Newest(F, Places(F), k, x) /\ b = Bucket(x[1], x[2], EntryAt(F, x))
        BY <1>2 DEF LatestOf
      <2>2. PICK y \in Places(F) : Newest(F, Places(F), k, y) /\ c = Bucket(y[1], y[2], EntryAt(F, y))
        BY <1>2 DEF LatestOf
      <2>3. HasRecord(F, x, k) /\ HasRecord(F, y, k)
            /\ EntryAt(F, x).time <= EntryAt(F, y).time /\ EntryAt(F, y).time <= EntryAt(F, x).time
        BY <2>1, <2>2 DEF Newest
      <2>4. EntryAt(F, x) \in Record /\ EntryAt(F, y) \in Record
        BY <2>3, EntryTypes DEF HasRecord
      <2>5. EntryAt(F, x).time \in Int /\ EntryAt(F, y).time \in Int
        BY <2>4, BcAssumption DEF Record
      <2>6. EntryAt(F, x).time = EntryAt(F, y).time
        BY <2>3, <2>5
      <2>7. x = y
        BY <2>3, <2>6 DEF TimesApart
      <2>8. QED
        BY <2>1, <2>2, <2>7
    <1>3. QED
      BY <1>1, <1>2

\* CheckValueIsNew against the bucket is CheckValueIsNew against all of them.
LEMMA LaterThanAll ==
    ASSUME NEW F, FilesOK(F), NEW k \in BcKeys, NEW b, LatestOf(F, Places(F), k, b),
           NEW t \in Nat, b.file > 0 => t > b.time
    PROVE  LaterThan(F, k, t)
    <1> SUFFICES ASSUME NEW at \in Places(F), HasRecord(F, at, k)
                 PROVE  EntryAt(F, at).time < t
      BY DEF LaterThan
    <1>1. PICK x \in Places(F) : Newest(F, Places(F), k, x) /\ b = Bucket(x[1], x[2], EntryAt(F, x))
      BY DEF LatestOf
    <1>2. HasRecord(F, x, k) /\ EntryAt(F, at).time <= EntryAt(F, x).time
      BY <1>1 DEF Newest
    <1>3. EntryAt(F, x) \in Record /\ EntryAt(F, at) \in Record /\ x[1] \in 1..BcMaxFiles
      BY <1>2, EntryTypes DEF HasRecord
    <1>4. EntryAt(F, x).time \in Int /\ EntryAt(F, at).time \in Int /\ x[1] > 0
      BY <1>3, BcAssumption DEF Record
    <1>5. b.file = x[1] /\ b.time = EntryAt(F, x).time
      BY <1>1 DEF Bucket
    <1>6. QED
      BY <1>2, <1>4, <1>5

\* What the appended entry says nothing of keeps its bucket.
LEMMA ExtendKeepsLatest ==
    ASSUME NEW F, NEW G, NEW S, NEW e, Extends(F, G, S, e), NEW k, NEW b,
           LatestOf(F, Places(F), k, b), \A at \in S : ~HasRecord(G, at, k)
    PROVE  LatestOf(G, Places(G), k, b)
    <1>1. \A at \in Places(F) : at \in Places(G) /\ EntryAt(G, at) = EntryAt(F, at)
                                /\ (HasRecord(G, at, k) <=> HasRecord(F, at, k))
      BY DEF Extends, HasRecord
    <1>2. \A at \in Places(G) : HasRecord(G, at, k) => at \in Places(F)
      BY DEF Extends
    <1>3. CASE b = NoBucket /\ \A at \in Places(F) : ~HasRecord(F, at, k)
      BY <1>1, <1>2, <1>3 DEF LatestOf
    <1>4. CASE \E at \in Places(F) : Newest(F, Places(F), k, at) /\ b = Bucket(at[1], at[2], EntryAt(F, at))
      <2>1. PICK at \in Places(F) : Newest(F, Places(F), k, at) /\ b = Bucket(at[1], at[2], EntryAt(F, at))
        BY <1>4
      <2>2. Newest(G, Places(G), k, at)
        BY <1>1, <1>2, <2>1 DEF Newest
      <2>3. QED
        BY <1>1, <2>1, <2>2 DEF LatestOf
    <1>5. QED
      BY <1>3, <1>4 DEF LatestOf

\* A record later than the others of its key is the latest after it is appended.
LEMMA ExtendNewest ==
    ASSUME NEW F, FilesOK(F), NEW G, NEW n, NEW p, NEW e \in Record, Extends(F, G, {<<n, p>>}, e),
           LaterThan(F, e.key, e.time)
    PROVE  /\ Newest(G, Places(G), e.key, <<n, p>>)
           /\ LatestOf(G, Places(G), e.key, Bucket(n, p, e))
    <1> DEFINE x == <<n, p>>
    <1>1. x \in Places(G) /\ EntryAt(G, x) = e
      BY DEF Extends
    <1>2. HasRecord(G, x, e.key)
      BY <1>1, RecordsAreNotFragments DEF HasRecord
    <1>3. e.time \in Int
      BY BcAssumption DEF Record
    <1>4. ASSUME NEW at \in Places(G), HasRecord(G, at, e.key)
          PROVE  EntryAt(G, at).time <= EntryAt(G, x).time
      <2>1. CASE at = x
        BY <1>1, <1>3, <2>1
      <2>2. CASE at # x
        <3>1. at \in Places(F) /\ EntryAt(G, at) = EntryAt(F, at)
          BY <2>2 DEF Extends
        <3>2. HasRecord(F, at, e.key)
          BY <1>4, <3>1 DEF HasRecord
        <3>3. EntryAt(F, at).time < e.time
          BY <3>1, <3>2 DEF LaterThan
        <3>4. EntryAt(F, at) \in Record
          BY <3>1, <3>2, EntryTypes DEF HasRecord
        <3>5. EntryAt(F, at).time \in Int
          BY <3>4, BcAssumption DEF Record
        <3>6. QED
          BY <1>1, <1>3, <3>1, <3>3, <3>5
      <2>3. QED
        BY <2>1, <2>2
    <1>5. Newest(G, Places(G), e.key, x)
      BY <1>1, <1>2, <1>4 DEF Newest
    <1>6. x[1] = n /\ x[2] = p
      OBVIOUS
    <1> HIDE DEF x
    <1>7. LatestOf(G, Places(G), e.key, Bucket(n, p, e))
      BY <1>1, <1>5, <1>6 DEF LatestOf
    <1>8. QED
      BY <1>5, <1>7 DEF x

\* Nothing, a fragment, or a record later than the others of its key.
Appendable(F, S, e) == \/ S = {}
                       \/ IsFragment(e)
                       \/ e \in Record /\ (\E x : S = {x}) /\ LaterThan(F, e.key, e.time)

\* What is appended keeps the times apart.
LEMMA ExtendKeepsTimes ==
    ASSUME NEW F, FilesOK(F), TimesApart(F), NEW G, NEW S, NEW e, Extends(F, G, S, e), Appendable(F, S, e)
    PROVE  TimesApart(G)
    <1>1. \A at \in Places(F) : EntryAt(G, at) = EntryAt(F, at)
                                /\ \A k : HasRecord(G, at, k) <=> HasRecord(F, at, k)
      BY DEF Extends, HasRecord
    <1>2. CASE S = {} \/ IsFragment(e)
      <2>1. \A at \in Places(G), k \in BcKeys : HasRecord(G, at, k) => at \in Places(F)
        BY <1>2 DEF Extends, HasRecord
      <2>2. QED
        BY <1>1, <2>1 DEF TimesApart
    <1>3. CASE e \in Record /\ (\E x : S = {x}) /\ LaterThan(F, e.key, e.time)
      <2>1. PICK x : S = {x}
        BY <1>3
      <2>2. EntryAt(G, x) = e /\ \A at \in Places(G) : at = x \/ at \in Places(F)
        BY <2>1 DEF Extends
      <2>3. ASSUME NEW at \in Places(F), NEW k \in BcKeys, HasRecord(G, at, k), HasRecord(G, x, k)
            PROVE  EntryAt(G, at).time # EntryAt(G, x).time
        <3>1. k = e.key /\ HasRecord(F, at, k) /\ EntryAt(G, at) = EntryAt(F, at)
          BY <1>1, <2>2, <2>3 DEF HasRecord
        <3>2. EntryAt(F, at).time < e.time
          BY <1>3, <3>1 DEF LaterThan
        <3>3. EntryAt(F, at) \in Record
          BY <3>1, EntryTypes DEF HasRecord
        <3>4. EntryAt(F, at).time \in Int /\ e.time \in Int
          BY <1>3, <3>3, BcAssumption DEF Record
        <3>5. QED
          BY <2>2, <3>1, <3>2, <3>4
      <2>4. ASSUME NEW a \in Places(G), NEW b \in Places(G), NEW k \in BcKeys,
                   HasRecord(G, a, k), HasRecord(G, b, k), EntryAt(G, a).time = EntryAt(G, b).time
            PROVE  a = b
        <3>1. CASE a \in Places(F) /\ b \in Places(F)
          BY <1>1, <2>4, <3>1 DEF TimesApart
        <3>2. CASE a \in Places(F) /\ b = x
          BY <2>3, <2>4, <3>2
        <3>3. CASE a = x /\ b \in Places(F)
          BY <2>3, <2>4, <3>3
        <3>4. QED
          BY <2>2, <3>1, <3>2, <3>3
      <2>5. QED
        BY <2>4 DEF TimesApart
    <1>4. QED
      BY <1>2, <1>3 DEF Appendable

-----------------------------------------------------------------------------
\* BitCaskDB: the inductive invariant

\* The index, while there is one, has the latest record of each key.
BcIndexed == bcUp => \A k \in BcKeys : LatestOf(bcFiles, Places(bcFiles), k, bcIndex[k])
BcInv == BcTypeOK /\ FilesOK(bcFiles) /\ TimesApart(bcFiles) /\ BcIndexed

\* The invariant holds in a new database.
LEMMA BcInitially == BcInit => BcInv
    <1> SUFFICES ASSUME BcInit
                 PROVE  BcInv
      OBVIOUS
    <1>1. bcFiles = <<<<>>>> /\ Len(bcFiles) = 1 /\ bcFiles[1] = <<>> /\ bcFiles \in Seq(Seq(Record \cup Fragment))
      BY DEF BcInit
    <1>2. 1 \in 1..BcMaxFiles /\ 1..1 = {1}
      BY BcAssumption
    <1>3. Places(bcFiles) = {}
      <2> SUFFICES ASSUME NEW at \in Places(bcFiles)
                   PROVE  FALSE
        OBVIOUS
      <2>1. at[1] \in 1..1 /\ at[2] \in Nat /\ at[2] \in 1..Len(bcFiles[at[1]])
        BY <1>1 DEF Places
      <2>2. QED
        BY <1>1, <2>1
    <1>4. FilesOK(bcFiles)
      BY <1>1, <1>2, <1>3, BcAssumption DEF FilesOK
    <1>5. NoBucket \in BcBucket
      BY BcAssumption DEF NoBucket, BcBucket
    <1>6. BcTypeOK
      BY <1>1, <1>2, <1>5, BcAssumption DEF BcInit, BcTypeOK, BcBucket
    <1>7. BcIndexed
      BY <1>3 DEF BcIndexed, LatestOf, BcInit
    <1>8. TimesApart(bcFiles)
      BY <1>3 DEF TimesApart
    <1>9. QED
      BY <1>4, <1>6, <1>7, <1>8 DEF BcInv

\* A step of SetValue: the record e, and x on disk at the place <<n, p>> unless
\* S is empty.
RecordOf(k, v, del) == [key |-> k, val |-> v, del |-> del, time |-> bcClock, ver |-> Version(k) + 1]
OnDiskAs(outcome, e) == IF outcome \in {"head", "body"} THEN [torn |-> outcome] ELSE e
PlacesOf(outcome, at) == IF outcome \in {"failed", "before"} THEN {} ELSE {at}
Wrote(outcome, e, n, p) ==
    /\ e \in Record /\ LaterThan(bcFiles, e.key, e.time)
    /\ FilesOK(bcFiles') /\ TimesApart(bcFiles')
    /\ Extends(bcFiles, bcFiles', PlacesOf(outcome, <<n, p>>), OnDiskAs(outcome, e))
    /\ n \in 1..BcMaxFiles /\ p \in 1..BcFileCap
    /\ bcClock' = bcClock
    /\ \/ /\ outcome = "ok"
          /\ bcIndex' = [bcIndex EXCEPT ![e.key] = Bucket(n, p, e)]
          /\ bcUsed' \in {bcUsed, bcUsed + 1}
          /\ bcUp' = bcUp /\ bcFerror' = bcFerror
       \/ /\ outcome = "failed"
          /\ bcFerror' = bcFerror \cup {n}
          /\ bcUp' = bcUp /\ bcIndex' = bcIndex /\ bcUsed' = bcUsed
       \/ outcome \in {"before", "after", "head", "body"} /\ LoseMemory

\* The checks that a call has passed.
LEMMA SetCheckOK ==
    ASSUME NEW k, NEW del \in BOOLEAN, NEW version, SetCheck(k, del, version) = "kOk"
    PROVE  /\ del => IsLive(k)
           /\ version = -1 \/ version = Version(k)
           /\ Indexed(k) => CheckValueIsNew(bcClock, bcIndex[k].time)
           /\ NeedsNextFile => ~(LastFile >= BcMaxFiles)
    <1>1. CASE del /\ ~IsLive(k)
      BY <1>1, Zenon DEF SetCheck
    <1>2. CASE ~(del /\ ~IsLive(k)) /\ version # -1 /\ version # Version(k)
      BY <1>2, SMT DEF SetCheck
    <1>3. CASE /\ ~(del /\ ~IsLive(k)) /\ ~(version # -1 /\ version # Version(k))
               /\ Indexed(k) /\ ~CheckValueIsNew(bcClock, bcIndex[k].time)
      BY <1>3, SMT DEF SetCheck
    <1>4. CASE /\ ~(del /\ ~IsLive(k)) /\ ~(version # -1 /\ version # Version(k))
               /\ ~(Indexed(k) /\ ~CheckValueIsNew(bcClock, bcIndex[k].time))
               /\ NeedsNextFile /\ LastFile >= BcMaxFiles
      BY <1>4, SMT DEF SetCheck
    <1>5. QED
      BY <1>1, <1>2, <1>3, <1>4, Zenon

\* SetValue is such a step.
LEMMA SetValueWrites ==
    ASSUME BcInv, NEW k \in BcKeys, NEW v \in BcValues \cup {BcNoValue}, NEW del \in BOOLEAN, NEW version,
           SetValue(k, v, del, version)
    PROVE  \E outcome \in BcOutcomes, n \in Nat, p \in Nat : Wrote(outcome, RecordOf(k, v, del), n, p)
    <1>1. PICK e : e = RecordOf(k, v, del)
      OBVIOUS
    <1>2. PICK m : m = Len(bcFiles)
      OBVIOUS
    <1>3. PICK n : n = NextFile(bcFiles, m)
      OBVIOUS
    <1>4. PICK p : p = NextPos(bcFiles, m)
      OBVIOUS
    <1>5. PICK outcome \in BcOutcomes :
             /\ bcFiles' = Appended(Written(e, outcome))
             /\ CASE outcome = "ok" -> /\ bcIndex' = [bcIndex EXCEPT ![k] = Bucket(Target, IF NeedsNextFile THEN 1 ELSE Len(bcFiles[LastFile]) + 1, e)]
                                       /\ bcUsed' = IF IsLive(k) THEN bcUsed ELSE bcUsed + 1
                                       /\ UNCHANGED <<bcUp, bcFerror>>
                  [] outcome = "failed" -> /\ bcFerror' = bcFerror \cup {Target}
                                           /\ UNCHANGED <<bcUp, bcIndex, bcUsed>>
                  [] OTHER -> LoseMemory
      BY <1>1, Zenon DEF SetValue, RecordOf
    <1>6. Target = n /\ p = (IF NeedsNextFile THEN 1 ELSE Len(bcFiles[LastFile]) + 1)
          /\ (NeedsNextFile <=> Len(bcFiles[m]) >= BcFileCap) /\ LastFile = m
      BY <1>2, <1>3, <1>4, Zenon DEF Target, NeedsNextFile, LastFile, NextFile, NextPos
    <1>7. /\ del => IsLive(k)
          /\ Indexed(k) => CheckValueIsNew(bcClock, bcIndex[k].time)
          /\ NeedsNextFile => ~(LastFile >= BcMaxFiles)
      BY SetCheckOK DEF SetValue
    <1>8. /\ m \in Nat /\ n \in Nat /\ p \in Nat /\ p \in 1..BcFileCap
          /\ n \in {m, m + 1} /\ n >= 1
          /\ n = m + 1 <=> Len(bcFiles[m]) >= BcFileCap
      BY <1>2, <1>3, <1>4, AppendTypes DEF BcInv
    <1>9. m <= BcMaxFiles /\ n <= BcMaxFiles /\ n \in 1..BcMaxFiles
      <2>1. m <= BcMaxFiles
        BY <1>2, BcAssumption DEF BcInv, FilesOK
      <2>2. n <= BcMaxFiles
        BY <1>6, <1>7, <1>8, <2>1, BcAssumption
      <2>3. QED
        BY <1>8, <2>1, <2>2, BcAssumption
    <1>10. bcUp /\ bcIndex[k] \in BcBucket /\ LatestOf(bcFiles, Places(bcFiles), k, bcIndex[k])
           /\ bcClock \in 0..BcMaxTime /\ bcClock \in Nat
      BY BcAssumption DEF BcInv, BcTypeOK, BcIndexed, BcBucket, SetValue
    <1>11. Version(k) \in Nat
      BY <1>10 DEF Version, BcBucket
    <1>12. e \in Record /\ e.ver >= 1 /\ e.key = k /\ e.time = bcClock
      BY <1>1, <1>10, <1>11 DEF RecordOf, Record
    <1>13. LaterThan(bcFiles, k, bcClock)
      BY <1>7, <1>10, LaterThanAll DEF Indexed, CheckValueIsNew, BcInv
    <1>14. outcome \in {"ok", "failed", "before", "after", "head", "body"}
      BY BcAssumption
    <1>15. PICK x : x = OnDiskAs(outcome, e)
      OBVIOUS
    <1>16. PICK s : s = Written(e, outcome)
      OBVIOUS
    <1>17. PICK S : S = PlacesOf(outcome, <<n, p>>)
      OBVIOUS
    <1>18. /\ x \in Record \cup Fragment
           /\ x \in Fragment \/ x = e
      BY <1>12, <1>14, <1>15 DEF OnDiskAs, Fragment
    <1>19. \/ s = <<>> /\ S = {}
           \/ s = <<x>> /\ S = {<<n, p>>}
      BY <1>14, <1>15, <1>16, <1>17 DEF Written, OnDiskAs, PlacesOf
    <1>20. PICK G : G = bcFiles'
      OBVIOUS
    <1>21. G = AppendedTo(bcFiles, s, m)
      BY <1>2, <1>5, <1>6, <1>16, <1>20, Zenon DEF Appended, AppendedTo
    <1>22. IsAppend(bcFiles, G, n, p, s)
      BY <1>2, <1>3, <1>4, <1>18, <1>19, <1>21, AppendIs DEF BcInv
    <1>23. NewEntry(x)
      BY <1>12, <1>18, RecordsAreNotFragments DEF NewEntry
    <1>24. FilesOK(G)
      BY <1>2, <1>3, <1>4, <1>9, <1>19, <1>22, <1>23, AppendKeepsFiles DEF BcInv
    <1>25. Extends(bcFiles, G, S, x)
      BY <1>2, <1>3, <1>4, <1>18, <1>19, <1>22, AppendExtends DEF BcInv
    <1>26. Appendable(bcFiles, S, x)
      <2>1. CASE S = {}
        BY <2>1 DEF Appendable
      <2>2. CASE x \in Fragment
        BY <2>2, RecordsAreNotFragments DEF Appendable
      <2>3. CASE S = {<<n, p>>} /\ x = e
        BY <1>12, <1>13, <2>3 DEF Appendable
      <2>4. QED
        BY <1>18, <1>19, <2>1, <2>2, <2>3
    <1>27. TimesApart(G)
      BY <1>24, <1>25, <1>26, ExtendKeepsTimes DEF BcInv
    <1>28. \/ /\ outcome = "ok"
              /\ bcIndex' = [bcIndex EXCEPT ![e.key] = Bucket(n, p, e)]
              /\ bcUsed' \in {bcUsed, bcUsed + 1}
              /\ bcUp' = bcUp /\ bcFerror' = bcFerror
           \/ /\ outcome = "failed"
              /\ bcFerror' = bcFerror \cup {n}
              /\ bcUp' = bcUp /\ bcIndex' = bcIndex /\ bcUsed' = bcUsed
           \/ outcome \in {"before", "after", "head", "body"} /\ LoseMemory
      <2>1. CASE outcome = "ok"
        <3>1. bcIndex' = [bcIndex EXCEPT ![k] = Bucket(n, p, e)]
              /\ bcUsed' = (IF IsLive(k) THEN bcUsed ELSE bcUsed + 1)
              /\ UNCHANGED <<bcUp, bcFerror>>
          BY <1>5, <1>6, <2>1
        <3>2. QED
          BY <1>12, <2>1, <3>1
      <2>2. CASE outcome = "failed"
        BY <1>5, <1>6, <2>2
      <2>3. CASE outcome \in {"before", "after", "head", "body"}
        BY <1>5, <2>3
      <2>4. QED
        BY <1>14, <2>1, <2>2, <2>3
    <1>29. bcClock' = bcClock
      BY DEF SetValue
    <1>30. Wrote(outcome, e, n, p)
      BY <1>8, <1>9, <1>12, <1>13, <1>15, <1>17, <1>20, <1>24, <1>25, <1>27, <1>28, <1>29 DEF Wrote
    <1>31. QED
      BY <1>1, <1>8, <1>30

\* Every step of SetValue keeps the invariant.
LEMMA WroteKeeps ==
    ASSUME BcInv, bcUp, NEW e, NEW outcome \in BcOutcomes, NEW n, NEW p, Wrote(outcome, e, n, p), e.key \in BcKeys
    PROVE  BcInv'
    <1> USE DEF BcInv
    <1>1. PICK F : F = bcFiles
      OBVIOUS
    <1>2. PICK G : G = bcFiles'
      OBVIOUS
    <1>3. PICK S : S = PlacesOf(outcome, <<n, p>>)
      OBVIOUS
    <1>4. PICK x : x = OnDiskAs(outcome, e)
      OBVIOUS
    <1>5. /\ FilesOK(F) /\ FilesOK(G) /\ TimesApart(G) /\ Extends(F, G, S, x)
          /\ e \in Record /\ LaterThan(F, e.key, e.time)
          /\ n \in 1..BcMaxFiles /\ p \in 1..BcFileCap /\ bcClock' = bcClock
          /\ \A k \in BcKeys : LatestOf(F, Places(F), k, bcIndex[k])
      BY <1>1, <1>2, <1>3, <1>4 DEF Wrote, BcIndexed
    <1>6. bcFiles' \in Seq(Seq(Record \cup Fragment)) /\ Len(bcFiles') \in 1..BcMaxFiles
      BY <1>2, <1>5 DEF FilesOK
    <1>7. /\ bcUp \in BOOLEAN /\ bcIndex \in [BcKeys -> BcBucket] /\ bcUsed \in Nat
          /\ bcFerror \subseteq 1..BcMaxFiles /\ bcClock \in 0..BcMaxTime
      BY DEF BcTypeOK, BcBucket
    <1>8. CASE /\ outcome = "ok"
               /\ bcIndex' = [bcIndex EXCEPT ![e.key] = Bucket(n, p, e)]
               /\ bcUsed' \in {bcUsed, bcUsed + 1}
               /\ bcUp' = bcUp /\ bcFerror' = bcFerror
      <2>1. S = {<<n, p>>} /\ x = e
        BY <1>3, <1>4, <1>8 DEF PlacesOf, OnDiskAs
      <2>2. <<n, p>> \in Places(G) /\ EntryAt(G, <<n, p>>) = e
        BY <1>5, <2>1 DEF Extends
      <2>3. Bucket(n, p, e) \in BcBucket
        BY <1>5, BcAssumption DEF Bucket, BcBucket, Record
      <2>4. bcIndex' \in [BcKeys -> BcBucket] /\ bcUsed' \in Nat
        BY <1>7, <1>8, <2>3
      <2>5. LatestOf(G, Places(G), e.key, Bucket(n, p, e))
        BY <1>5, <2>1, ExtendNewest
      <2>6. ASSUME NEW k \in BcKeys
            PROVE  LatestOf(G, Places(G), k, bcIndex'[k])
        <3>1. CASE k = e.key
          BY <1>7, <1>8, <2>5, <3>1
        <3>2. CASE k # e.key
          <4>1. \A at \in S : ~HasRecord(G, at, k)
            BY <2>1, <2>2, <3>2 DEF HasRecord
          <4>2. LatestOf(G, Places(G), k, bcIndex[k])
            BY <1>5, <4>1, ExtendKeepsLatest
          <4>3. bcIndex'[k] = bcIndex[k]
            BY <1>7, <1>8, <3>2
          <4>4. QED
            BY <4>2, <4>3
        <3>3. QED
          BY <3>1, <3>2
      <2>7. BcTypeOK'
        BY <1>5, <1>6, <1>7, <1>8, <2>4 DEF BcTypeOK, BcBucket
      <2>8. BcIndexed'
        BY <1>2, <2>6 DEF BcIndexed
      <2>9. QED
        BY <1>2, <1>5, <2>7, <2>8
    <1>9. CASE /\ outcome = "failed"
               /\ bcFerror' = bcFerror \cup {n}
               /\ bcUp' = bcUp /\ bcIndex' = bcIndex /\ bcUsed' = bcUsed
      <2>1. S = {}
        BY <1>3, <1>9 DEF PlacesOf
      <2>2. ASSUME NEW k \in BcKeys
            PROVE  LatestOf(G, Places(G), k, bcIndex[k])
        <3>1. \A at \in S : ~HasRecord(G, at, k)
          BY <2>1
        <3>2. QED
          BY <1>5, <3>1, ExtendKeepsLatest
      <2>3. BcTypeOK'
        BY <1>5, <1>6, <1>7, <1>9 DEF BcTypeOK, BcBucket
      <2>4. BcIndexed'
        BY <1>2, <1>9, <2>2 DEF BcIndexed
      <2>5. QED
        BY <1>2, <1>5, <2>3, <2>4
    <1>10. CASE LoseMemory
      <2>1. NoBucket \in BcBucket
        BY BcAssumption DEF NoBucket, BcBucket
      <2>2. BcTypeOK'
        BY <1>5, <1>6, <1>7, <1>10, <2>1 DEF BcTypeOK, BcBucket, LoseMemory
      <2>3. BcIndexed'
        BY <1>10 DEF BcIndexed, LoseMemory
      <2>4. QED
        BY <1>2, <1>5, <2>2, <2>3
    <1>11. QED
      BY <1>8, <1>9, <1>10 DEF Wrote

\* Every step keeps the invariant.
LEMMA BcStep == BcInv /\ [BcNext]_bcVars => BcInv'
    <1> SUFFICES ASSUME BcInv, [BcNext]_bcVars
                 PROVE  BcInv'
      OBVIOUS
    <1>1. ASSUME NEW k \in BcKeys, NEW v \in BcValues \cup {BcNoValue}, NEW del \in BOOLEAN, NEW version,
                 SetValue(k, v, del, version)
          PROVE  BcInv'
      <2>1. PICK outcome \in BcOutcomes, n \in Nat, p \in Nat : Wrote(outcome, RecordOf(k, v, del), n, p)
        BY <1>1, SetValueWrites
      <2>2. RecordOf(k, v, del).key \in BcKeys /\ bcUp
        BY <1>1 DEF RecordOf, SetValue
      <2>3. QED
        BY <2>1, <2>2, WroteKeeps
    <1>2. /\ bcFiles \in Seq(Seq(Record \cup Fragment)) /\ Len(bcFiles) \in 1..BcMaxFiles
          /\ bcUp \in BOOLEAN /\ bcIndex \in [BcKeys -> BcBucket] /\ bcUsed \in Nat
          /\ bcFerror \subseteq 1..BcMaxFiles /\ bcClock \in 0..BcMaxTime
          /\ FilesOK(bcFiles) /\ TimesApart(bcFiles)
      BY DEF BcInv, BcTypeOK, BcBucket
    <1>3. CASE Stop
      <2>1. NoBucket \in BcBucket
        BY BcAssumption DEF NoBucket, BcBucket
      <2>2. BcTypeOK'
        BY <1>2, <1>3, <2>1 DEF BcTypeOK, BcBucket, Stop, LoseMemory
      <2>3. QED
        BY <1>2, <1>3, <2>2 DEF BcInv, BcIndexed, Stop, LoseMemory
    <1>4. CASE Reopen
      <2>1. PICK acc : acc = OpenLoop(bcFiles)[Len(bcFiles)]
        OBVIOUS
      <2>2. Recovered(bcFiles, Places(bcFiles), acc)
        BY <1>2, <2>1, AllRecovered
      <2>3. acc.index \in [BcKeys -> BcBucket] /\ acc.used \in Nat
            /\ \A k \in BcKeys : LatestOf(bcFiles, Places(bcFiles), k, acc.index[k])
        BY <2>2, FS_CardinalityType DEF Recovered, LiveCounted
      <2>4. bcIndex' = acc.index /\ bcUsed' = acc.used
        BY <1>4, <2>1, OpenIsLoop DEF Reopen
      <2>5. BcTypeOK'
        BY <1>2, <1>4, <2>3, <2>4 DEF BcTypeOK, BcBucket, Reopen
      <2>6. QED
        BY <1>2, <1>4, <2>3, <2>4, <2>5 DEF BcInv, BcIndexed, Reopen
    <1>5. CASE ClockMoves
      BY <1>2, <1>5 DEF BcInv, BcTypeOK, BcIndexed, ClockMoves
    <1>6. CASE UNCHANGED bcVars
      BY <1>2, <1>6 DEF BcInv, BcTypeOK, BcIndexed, bcVars
    <1>7. CASE BcNext
      <2>1. ASSUME NEW k \in BcKeys, NEW version, NEW v \in BcValues, BcPut(k, v, version)
            PROVE  BcInv'
        BY <1>1, <2>1 DEF BcPut
      <2>2. ASSUME NEW k \in BcKeys, NEW version, BcDel(k, version)
            PROVE  BcInv'
        BY <1>1, <2>2 DEF BcDel
      <2>3. QED
        BY <1>3, <1>4, <1>5, <1>7, <2>1, <2>2 DEF BcNext
    <1>8. QED
      BY <1>6, <1>7

\* Nothing is cut short when no crash falls inside an append.
NothingTorn(F) == \A at \in Places(F) : ~IsFragment(EntryAt(F, at))

\* A file with whole records is read to its end.
LEMMA WholeFilesReadable ==
    ASSUME NEW F, NothingTorn(F), NEW n \in DOMAIN F, F \in Seq(Seq(Record \cup Fragment))
    PROVE  FileReadable(F[n])
    <1> SUFFICES ASSUME NEW i \in DOMAIN F[n]
                 PROVE  ~IsFragment(F[n][i])
      BY DEF FileReadable
    <1>1. n \in 1..Len(F) /\ i \in 1..Len(F[n]) /\ i \in Nat
      OBVIOUS
    <1>2. <<n, i>> \in Places(F)
      BY <1>1 DEF Places
    <1>3. QED
      BY <1>2 DEF NothingTorn, EntryAt

\* Without a crash inside an append the files stay whole.
LEMMA StaysWhole ==
    ASSUME BcOutcomes \cap {"head", "body"} = {}, BcInv, NothingTorn(bcFiles), [BcNext]_bcVars
    PROVE  NothingTorn(bcFiles')
    <1>1. ASSUME NEW k \in BcKeys, NEW v \in BcValues \cup {BcNoValue}, NEW del \in BOOLEAN, NEW version,
                 SetValue(k, v, del, version)
          PROVE  NothingTorn(bcFiles')
      <2>1. PICK outcome \in BcOutcomes, n \in Nat, p \in Nat : Wrote(outcome, RecordOf(k, v, del), n, p)
        BY <1>1, SetValueWrites
      <2>2. OnDiskAs(outcome, RecordOf(k, v, del)) = RecordOf(k, v, del)
        BY <2>1 DEF OnDiskAs
      <2>3. RecordOf(k, v, del) \in Record
            /\ Extends(bcFiles, bcFiles', PlacesOf(outcome, <<n, p>>), RecordOf(k, v, del))
        BY <2>1, <2>2 DEF Wrote
      <2>4. ~IsFragment(RecordOf(k, v, del))
        BY <2>3, RecordsAreNotFragments
      <2>5. QED
        BY <2>3, <2>4, Zenon DEF NothingTorn, Extends
    <1>2. CASE BcNext
      <2>1. ASSUME NEW k \in BcKeys, NEW version, NEW v \in BcValues, BcPut(k, v, version)
            PROVE  NothingTorn(bcFiles')
        BY <1>1, <2>1 DEF BcPut
      <2>2. ASSUME NEW k \in BcKeys, NEW version, BcDel(k, version)
            PROVE  NothingTorn(bcFiles')
        BY <1>1, <2>2 DEF BcDel
      <2>3. QED
        BY <1>2, <2>1, <2>2 DEF BcNext, Stop, Reopen, ClockMoves
    <1>3. QED
      BY <1>2 DEF bcVars

\* Whole files give the index back: what the run checks.
LEMMA IndexRecovered ==
    ASSUME BcInv, NothingTorn(bcFiles)
    PROVE  IndexIsRecoverable
    <1>1. BcTypeOK /\ FilesOK(bcFiles) /\ TimesApart(bcFiles) /\ bcFiles \in Seq(Seq(Record \cup Fragment))
          /\ bcIndex \in [BcKeys -> BcBucket]
      BY DEF BcInv, BcTypeOK, BcBucket
    <1>2. \A n \in DOMAIN bcFiles : FileReadable(bcFiles[n])
      BY <1>1, WholeFilesReadable
    <1>3. ASSUME bcUp
          PROVE  bcIndex = OpenAndReadFiles.index
      <2>1. PICK acc : acc = OpenLoop(bcFiles)[Len(bcFiles)]
        OBVIOUS
      <2>2. Recovered(bcFiles, Places(bcFiles), acc)
        BY <1>1, <2>1, AllRecovered
      <2>3. acc.index \in [BcKeys -> BcBucket] /\ \A k \in BcKeys : LatestOf(bcFiles, Places(bcFiles), k, acc.index[k])
        BY <2>2 DEF Recovered
      <2>4. \A k \in BcKeys : LatestOf(bcFiles, Places(bcFiles), k, bcIndex[k])
        BY <1>3 DEF BcInv, BcIndexed
      <2>5. \A k \in BcKeys : bcIndex[k] = acc.index[k]
        BY <1>1, <2>3, <2>4, LatestUnique
      <2>6. bcIndex = acc.index
        BY <1>1, <2>3, <2>5
      <2>7. QED
        BY <2>1, <2>6, OpenIsLoop
    <1>4. QED
      BY <1>1, <1>2, <1>3 DEF IndexIsRecoverable

\* When no crash falls inside an append, the index of a running BitCaskDB is the
\* one that its files give, for any keys, number and size of files and for any
\* moves of the clock: OpenAndReadFiles, which keeps the latest of the records
\* it meets, finds for each key the record that SetValue wrote last.
THEOREM AcknowledgedSurvives ==
    ASSUME BcOutcomes \cap {"head", "body"} = {}
    PROVE  BcSpec => []IndexIsRecoverable
    <1> DEFINE Inv == BcInv /\ NothingTorn(bcFiles)
    <1>1. BcInit => Inv
      <2>1. BcInit => NothingTorn(bcFiles)
        <3> SUFFICES ASSUME BcInit, NEW at \in Places(bcFiles)
                     PROVE  FALSE
          BY DEF NothingTorn
        <3>1. at[1] \in 1..1 /\ at[2] \in Nat /\ at[2] \in 1..Len(bcFiles[at[1]]) /\ bcFiles[1] = <<>>
          BY DEF Places, BcInit
        <3>2. QED
          BY <3>1
      <2>2. QED
        BY <2>1, BcInitially
    <1>2. Inv /\ [BcNext]_bcVars => Inv'
      BY BcStep, StaysWhole
    <1>3. Inv => IndexIsRecoverable
      BY IndexRecovered
    <1>4. QED
      BY <1>1, <1>2, <1>3, PTL DEF BcSpec

-----------------------------------------------------------------------------
\* BitCaskDB: the files are a DBBase

\* RecordsOf and OnDisk, for any files.
RecordsIn(F, k) == {e \in UNION {Range(F[n]) : n \in DOMAIN F} : ~IsFragment(e) /\ e.key = k}
LatestIn(R) == {e \in R : \A f \in R : f.time <= e.time}
Says(R) == IF \E e \in LatestIn(R) : ~e.del
           THEN [val |-> (CHOOSE e \in LatestIn(R) : ~e.del).val, ver |-> (CHOOSE e \in LatestIn(R) : ~e.del).ver]
           ELSE [val |-> BcNoValue, ver |-> 0]

\* OnDisk is this, now and in the next state.
LEMMA OnDiskSays ==
    \A k : /\ OnDisk(k) = Says(RecordsIn(bcFiles, k))
           /\ OnDisk(k)' = Says(RecordsIn(bcFiles', k))
    BY Zenon DEF OnDisk, RecordsOf, RecordsIn, Says, LatestIn

\* The records of a key are the entries at the places that have it.
LEMMA RecordsByPlace ==
    ASSUME NEW F, FilesOK(F), NEW k, NEW e
    PROVE  e \in RecordsIn(F, k) <=> \E at \in Places(F) : HasRecord(F, at, k) /\ e = EntryAt(F, at)
    <1>1. F \in Seq(Seq(Record \cup Fragment)) /\ DOMAIN F = 1..Len(F)
      BY DEF FilesOK
    <1>2. \A n \in 1..Len(F) : DOMAIN F[n] = 1..Len(F[n]) /\ Len(F[n]) \in Nat
      BY <1>1
    <1>3. ASSUME e \in RecordsIn(F, k)
          PROVE  \E at \in Places(F) : HasRecord(F, at, k) /\ e = EntryAt(F, at)
      <2>1. PICK n \in 1..Len(F) : e \in Range(F[n])
        BY <1>1, <1>3 DEF RecordsIn
      <2>2. PICK i \in 1..Len(F[n]) : e = F[n][i]
        BY <1>2, <2>1 DEF Range
      <2>3. <<n, i>> \in Places(F) /\ EntryAt(F, <<n, i>>) = e
        BY <2>2 DEF Places, EntryAt
      <2>4. QED
        BY <1>3, <2>3 DEF RecordsIn, HasRecord
    <1>4. ASSUME NEW at \in Places(F), HasRecord(F, at, k), e = EntryAt(F, at)
          PROVE  e \in RecordsIn(F, k)
      <2>1. at[1] \in 1..Len(F) /\ at[2] \in 1..Len(F[at[1]])
        BY DEF Places
      <2>2. e \in Range(F[at[1]])
        BY <1>2, <1>4, <2>1 DEF Range, EntryAt
      <2>3. QED
        BY <1>1, <1>4, <2>1, <2>2 DEF RecordsIn, HasRecord
    <1>5. QED
      BY <1>3, <1>4

\* What the files say of a key, by the latest of its records.
LEMMA NewestSays ==
    ASSUME NEW F, FilesOK(F), TimesApart(F), NEW k \in BcKeys, NEW at, Newest(F, Places(F), k, at),
           NEW e, e = EntryAt(F, at)
    PROVE  Says(RecordsIn(F, k)) = IF e.del THEN [val |-> BcNoValue, ver |-> 0]
                                            ELSE [val |-> e.val, ver |-> e.ver]
    <1>1. at \in Places(F) /\ HasRecord(F, at, k)
          /\ \A b \in Places(F) : HasRecord(F, b, k) => EntryAt(F, b).time <= EntryAt(F, at).time
      BY DEF Newest
    <1>2. LatestIn(RecordsIn(F, k)) = {e}
      <2>1. e \in LatestIn(RecordsIn(F, k))
        BY <1>1, RecordsByPlace DEF LatestIn
      <2>2. ASSUME NEW f \in LatestIn(RecordsIn(F, k))
            PROVE  f = e
        <3>1. f \in RecordsIn(F, k) /\ e.time <= f.time
          BY <2>1 DEF LatestIn
        <3>2. PICK b \in Places(F) : HasRecord(F, b, k) /\ f = EntryAt(F, b)
          BY <3>1, RecordsByPlace
        <3>3. f \in Record /\ e \in Record
          BY <1>1, <3>2, EntryTypes DEF HasRecord
        <3>4. f.time \in Int /\ e.time \in Int
          BY <3>3, BcAssumption DEF Record
        <3>5. f.time <= e.time
          BY <1>1, <3>2
        <3>6. f.time = e.time
          BY <3>1, <3>4, <3>5
        <3>7. b = at
          BY <1>1, <3>2, <3>6 DEF TimesApart
        <3>8. QED
          BY <3>2, <3>7
      <2>3. QED
        BY <2>1, <2>2
    <1>3. e.del \in BOOLEAN
      <2>1. e \in Record
        BY <1>1, EntryTypes DEF HasRecord
      <2>2. QED
        BY <2>1 DEF Record
    <1>4. CASE e.del
      BY <1>2, <1>4 DEF Says
    <1>5. CASE ~e.del
      <2>1. (CHOOSE f \in {e} : ~f.del) = e
        BY <1>5
      <2>2. QED
        BY <1>2, <1>5, <2>1 DEF Says
    <1>6. QED
      BY <1>3, <1>4, <1>5

\* A key without a record is absent.
LEMMA NoneSays ==
    ASSUME NEW F, FilesOK(F), NEW k, \A at \in Places(F) : ~HasRecord(F, at, k)
    PROVE  Says(RecordsIn(F, k)) = [val |-> BcNoValue, ver |-> 0]
    <1>1. RecordsIn(F, k) = {}
      BY RecordsByPlace
    <1>2. LatestIn(RecordsIn(F, k)) = {}
      BY <1>1 DEF LatestIn
    <1>3. QED
      BY <1>2 DEF Says

\* An entry that is no record of a key changes nothing that is said of it.
LEMMA ExtendSaysSame ==
    ASSUME NEW F, FilesOK(F), NEW G, FilesOK(G), NEW S, NEW x, Extends(F, G, S, x), NEW k,
           \A at \in S : ~HasRecord(G, at, k)
    PROVE  Says(RecordsIn(G, k)) = Says(RecordsIn(F, k))
    <1>1. \A at \in Places(F) : EntryAt(G, at) = EntryAt(F, at) /\ (HasRecord(G, at, k) <=> HasRecord(F, at, k))
      BY DEF Extends, HasRecord
    <1>2. \A at : at \in Places(G) /\ HasRecord(G, at, k) <=> at \in Places(F) /\ HasRecord(F, at, k)
      BY <1>1 DEF Extends
    <1>3. \A e : e \in RecordsIn(G, k) <=> e \in RecordsIn(F, k)
      <2>1. \A e : e \in RecordsIn(G, k) <=> \E at \in Places(G) : HasRecord(G, at, k) /\ e = EntryAt(G, at)
        BY RecordsByPlace
      <2>2. \A e : e \in RecordsIn(F, k) <=> \E at \in Places(F) : HasRecord(F, at, k) /\ e = EntryAt(F, at)
        BY RecordsByPlace
      <2>3. QED
        BY <1>1, <1>2, <2>1, <2>2
    <1>4. RecordsIn(G, k) = RecordsIn(F, k)
      BY <1>3
    <1>5. QED
      BY <1>4

\* Get answers what the files say.
LEMMA VersionOnDisk ==
    ASSUME BcInv, bcUp, NEW k \in BcKeys
    PROVE  /\ OnDisk(k).ver = Version(k)
           /\ IsLive(k) => Version(k) > 0
    <1>1. FilesOK(bcFiles) /\ TimesApart(bcFiles) /\ LatestOf(bcFiles, Places(bcFiles), k, bcIndex[k])
      BY DEF BcInv, BcIndexed
    <1>2. CASE bcIndex[k] = NoBucket /\ \A at \in Places(bcFiles) : ~HasRecord(bcFiles, at, k)
      <2>1. OnDisk(k) = [val |-> BcNoValue, ver |-> 0]
        BY <1>1, <1>2, NoneSays, OnDiskSays
      <2>2. ~IsLive(k)
        BY <1>2 DEF IsLive, Indexed, NoBucket
      <2>3. QED
        BY <2>1, <2>2 DEF Version
    <1>3. CASE \E at \in Places(bcFiles) : /\ Newest(bcFiles, Places(bcFiles), k, at)
                                           /\ bcIndex[k] = Bucket(at[1], at[2], EntryAt(bcFiles, at))
      <2>1. PICK at \in Places(bcFiles) : /\ Newest(bcFiles, Places(bcFiles), k, at)
                                          /\ bcIndex[k] = Bucket(at[1], at[2], EntryAt(bcFiles, at))
        BY <1>3
      <2>2. PICK e : e = EntryAt(bcFiles, at)
        OBVIOUS
      <2>3. e \in Record /\ e.ver >= 1 /\ at[1] \in 1..BcMaxFiles
        BY <1>1, <2>1, <2>2, EntryTypes DEF Newest, HasRecord
      <2>4. bcIndex[k].del = e.del /\ bcIndex[k].ver = e.ver /\ bcIndex[k].file = at[1]
        BY <2>1, <2>2 DEF Bucket
      <2>5. e.del \in BOOLEAN /\ e.ver \in Nat /\ at[1] > 0
        BY <2>3, BcAssumption DEF Record
      <2>6. OnDisk(k) = IF e.del THEN [val |-> BcNoValue, ver |-> 0] ELSE [val |-> e.val, ver |-> e.ver]
        BY <1>1, <2>1, <2>2, NewestSays, OnDiskSays
      <2>7. IsLive(k) <=> ~e.del
        BY <2>4, <2>5 DEF IsLive, Indexed
      <2>8. QED
        BY <2>3, <2>4, <2>5, <2>6, <2>7 DEF Version
    <1>4. QED
      BY <1>1, <1>2, <1>3 DEF LatestOf

\* A step of SetValue is a Put or a Del of the abstract store, or changes nothing.
BcCells == [k \in BcKeys |-> OnDisk(k)]
NowOnDisk(e) == IF e.del THEN [val |-> BcNoValue, ver |-> 0] ELSE [val |-> e.val, ver |-> e.ver]

\* A write changes what the files say of its key, or nothing.
LEMMA WroteOnDisk ==
    ASSUME BcInv, NEW e, e.key \in BcKeys, NEW outcome \in BcOutcomes, NEW n, NEW p, Wrote(outcome, e, n, p)
    PROVE  \/ BcCells' = BcCells
           \/ BcCells' = [BcCells EXCEPT ![e.key] = NowOnDisk(e)]
    <1>1. PICK F : F = bcFiles
      OBVIOUS
    <1>2. PICK G : G = bcFiles'
      OBVIOUS
    <1>3. PICK S : S = PlacesOf(outcome, <<n, p>>)
      OBVIOUS
    <1>4. PICK x : x = OnDiskAs(outcome, e)
      OBVIOUS
    <1>5. /\ FilesOK(F) /\ FilesOK(G) /\ TimesApart(G) /\ Extends(F, G, S, x)
          /\ e \in Record /\ LaterThan(F, e.key, e.time)
      BY <1>1, <1>2, <1>3, <1>4 DEF Wrote, BcInv
    <1>6. \A k : OnDisk(k) = Says(RecordsIn(F, k)) /\ OnDisk(k)' = Says(RecordsIn(G, k))
      BY <1>1, <1>2, OnDiskSays
    <1>7. CASE S = {} \/ IsFragment(x)
      <2>1. ASSUME NEW k \in BcKeys
            PROVE  OnDisk(k)' = OnDisk(k)
        <3>1. \A at \in S : ~HasRecord(G, at, k)
          BY <1>5, <1>7 DEF Extends, HasRecord
        <3>2. Says(RecordsIn(G, k)) = Says(RecordsIn(F, k))
          BY <1>5, <3>1, ExtendSaysSame
        <3>3. QED
          BY <1>6, <3>2
      <2>2. QED
        BY <2>1, Zenon DEF BcCells
    <1>8. CASE S = {<<n, p>>} /\ x = e
      <2>1. Extends(F, G, {<<n, p>>}, e)
        BY <1>5, <1>8
      <2>2. EntryAt(G, <<n, p>>) = e
        BY <2>1 DEF Extends
      <2>3. Newest(G, Places(G), e.key, <<n, p>>)
        BY <1>5, <2>1, ExtendNewest
      <2>4. OnDisk(e.key)' = NowOnDisk(e)
        <3>1. Says(RecordsIn(G, e.key)) = NowOnDisk(e)
          BY <1>5, <2>2, <2>3, NewestSays DEF NowOnDisk
        <3>2. QED
          BY <1>6, <3>1
      <2>5. ASSUME NEW k \in BcKeys, k # e.key
            PROVE  OnDisk(k)' = OnDisk(k)
        <3>1. \A at \in {<<n, p>>} : ~HasRecord(G, at, k)
          BY <2>2, <2>5 DEF HasRecord
        <3>2. Says(RecordsIn(G, k)) = Says(RecordsIn(F, k))
          BY <1>5, <2>1, <3>1, ExtendSaysSame
        <3>3. QED
          BY <1>6, <3>2
      <2>6. BcCells' = [k \in BcKeys |-> OnDisk(k)'] /\ BcCells = [k \in BcKeys |-> OnDisk(k)]
        BY Zenon DEF BcCells
      <2>7. QED
        BY <2>4, <2>5, <2>6
    <1>9. S = {} \/ IsFragment(x) \/ (S = {<<n, p>>} /\ x = e)
      <2>1. CASE outcome \in {"head", "body"}
        <3>1. x \in Fragment
          BY <1>4, <2>1 DEF OnDiskAs, Fragment
        <3>2. QED
          BY <3>1, RecordsAreNotFragments
      <2>2. CASE outcome \notin {"head", "body"}
        BY <1>3, <1>4, <2>2 DEF PlacesOf, OnDiskAs
      <2>3. QED
        BY <2>1, <2>2
    <1>10. QED
      BY <1>7, <1>8, <1>9

\* Every step of BitCaskDB is a step of DBBase, or leaves its cells alone.
LEMMA BcStepRefines == BcInv /\ [BcNext]_bcVars => [BcDB!DbNext]_BcCells
    <1> SUFFICES ASSUME BcInv, [BcNext]_bcVars, BcCells' # BcCells
                 PROVE  BcDB!DbNext
      OBVIOUS
    <1>1. ASSUME bcFiles' = bcFiles
          PROVE  FALSE
      <2>1. \A k \in BcKeys : OnDisk(k)' = OnDisk(k)
        BY <1>1, OnDiskSays
      <2>2. BcCells' = BcCells
        BY <2>1, Zenon DEF BcCells
      <2>3. QED
        BY <2>2
    <1>2. \A k \in BcKeys : BcCells[k] = OnDisk(k)
      BY DEF BcCells
    <1>3. ASSUME NEW k \in BcKeys, NEW v \in BcValues, NEW version, BcPut(k, v, version)
          PROVE  BcDB!DbNext
      <2>1. SetValue(k, v, FALSE, version) /\ bcUp /\ SetCheck(k, FALSE, version) = "kOk"
        BY <1>3 DEF BcPut, SetValue
      <2>2. PICK outcome \in BcOutcomes, n \in Nat, p \in Nat : Wrote(outcome, RecordOf(k, v, FALSE), n, p)
        BY <2>1, SetValueWrites
      <2>3. PICK e : e = RecordOf(k, v, FALSE)
        OBVIOUS
      <2>4. e.key = k /\ ~e.del /\ e.val = v /\ e.ver = Version(k) + 1
        BY <2>3 DEF RecordOf
      <2>5. BcCells' = [BcCells EXCEPT ![k] = [val |-> v, ver |-> Version(k) + 1]]
        <3>1. BcCells' = [BcCells EXCEPT ![e.key] = NowOnDisk(e)]
          BY <2>2, <2>3, <2>4, WroteOnDisk
        <3>2. NowOnDisk(e) = [val |-> v, ver |-> Version(k) + 1]
          BY <2>4 DEF NowOnDisk
        <3>3. QED
          BY <2>4, <3>1, <3>2
      <2>6. version = -1 \/ version = Version(k)
        BY <2>1, SetCheckOK
      <2>7. BcCells[k].ver = Version(k)
        BY <1>2, <2>1, VersionOnDisk
      <2>8. version \in {-1, BcCells[k].ver}
            /\ BcCells' = [BcCells EXCEPT ![k] = [val |-> v, ver |-> BcCells[k].ver + 1]]
        BY <2>5, <2>6, <2>7
      <2>9. BcDB!DbPut(k, v, version)
        BY <2>8 DEF BcDB!DbPut, BcCells
      <2>10. version \in {-1, [j \in BcKeys |-> OnDisk(j)][k].ver}
        BY <2>8 DEF BcCells
      <2>11. QED
        BY <2>9, <2>10, Zenon DEF BcDB!DbNext
    <1>4. ASSUME NEW k \in BcKeys, NEW version, BcDel(k, version)
          PROVE  BcDB!DbNext
      <2>1. SetValue(k, BcNoValue, TRUE, version) /\ bcUp /\ SetCheck(k, TRUE, version) = "kOk"
        BY <1>4 DEF BcDel, SetValue
      <2>2. PICK outcome \in BcOutcomes, n \in Nat, p \in Nat : Wrote(outcome, RecordOf(k, BcNoValue, TRUE), n, p)
        BY <2>1, SetValueWrites
      <2>3. PICK e : e = RecordOf(k, BcNoValue, TRUE)
        OBVIOUS
      <2>4. e.key = k /\ e.del
        BY <2>3 DEF RecordOf
      <2>5. BcCells' = [BcCells EXCEPT ![k] = [val |-> BcNoValue, ver |-> 0]]
        <3>1. BcCells' = [BcCells EXCEPT ![e.key] = NowOnDisk(e)]
          BY <2>2, <2>3, <2>4, WroteOnDisk
        <3>2. NowOnDisk(e) = [val |-> BcNoValue, ver |-> 0]
          BY <2>4 DEF NowOnDisk
        <3>3. QED
          BY <2>4, <3>1, <3>2
      <2>6. (version = -1 \/ version = Version(k)) /\ IsLive(k)
        BY <2>1, SetCheckOK
      <2>7. BcCells[k].ver = Version(k) /\ Version(k) > 0
        BY <1>2, <2>1, <2>6, VersionOnDisk
      <2>8. version \in {-1, BcCells[k].ver} /\ BcCells[k].ver > 0
        BY <2>6, <2>7
      <2>9. BcDB!DbDel(k, version)
        BY <2>5, <2>8 DEF BcDB!DbDel, BcDB!DbAbsent, BcCells
      <2>10. version \in {-1, [j \in BcKeys |-> OnDisk(j)][k].ver}
        BY <2>8 DEF BcCells
      <2>11. QED
        BY <2>9, <2>10, Zenon DEF BcDB!DbNext
    <1>5. CASE BcNext
      BY <1>1, <1>3, <1>4, <1>5 DEF BcNext, Stop, Reopen, ClockMoves
    <1>6. QED
      BY <1>1, <1>5 DEF bcVars

\* BitCaskDB implements DBBase for any keys, values, number and size of files,
\* moves of the clock and ways an append may end: what the files say of a key
\* changes only as a Put or a Del with the version that Get returns, whether or
\* not a crash hides the answer, and a refused or torn append, a stop and a
\* recovery change nothing (BitCaskDB::SetValue, OpenAndReadFiles).
THEOREM BitCaskIsDBBase == BcSpec => BitCaskImplementsDBBase
    <1>1. BcInit => BcInv
      BY BcInitially
    <1>2. BcInv /\ [BcNext]_bcVars => BcInv'
      BY BcStep
    <1>3. BcInit => BcDB!DbInit
      <2> SUFFICES ASSUME BcInit
                   PROVE  BcDB!DbInit
        OBVIOUS
      <2>1. FilesOK(bcFiles)
        BY <1>1 DEF BcInv
      <2>2. ASSUME NEW at \in Places(bcFiles)
            PROVE  FALSE
        <3>1. at[1] \in 1..1 /\ at[2] \in Nat /\ at[2] \in 1..Len(bcFiles[at[1]]) /\ bcFiles[1] = <<>>
          BY DEF Places, BcInit
        <3>2. QED
          BY <3>1
      <2>3. \A k \in BcKeys : OnDisk(k) = [val |-> BcNoValue, ver |-> 0]
        BY <2>1, <2>2, NoneSays, OnDiskSays
      <2>4. QED
        BY <2>3 DEF BcDB!DbInit, BcDB!DbAbsent
    <1>4. BcInv /\ [BcNext]_bcVars => [BcDB!DbNext]_[k \in BcKeys |-> OnDisk(k)]
      BY BcStepRefines DEF BcCells
    <1>5. QED
      BY <1>1, <1>2, <1>3, <1>4, PTL DEF BcSpec, BitCaskImplementsDBBase, BcDB!DbSpec

-----------------------------------------------------------------------------
\* SkipList: one level

\* p is where a level ends before the key; s is the successor of n among A.
IsBefore(A, key, p) == /\ p \in A \cup {SlHead} /\ p < key
                       /\ \A k \in A : k < key => k <= p
IsSucc(A, n, s) == \/ s = SlNull /\ \A k \in A : ~ (k > n)
                   \/ s \in A /\ s > n /\ \A k \in A : k > n => s <= k

\* Level l links exactly the nodes A, in order.
LevelOK(N, l, A) == /\ A \subseteq SlKeys
                    /\ \A n \in A \cup {SlHead} : IsSucc(A, n, N[n][l])
                    /\ \A k \in SlKeys \ A : N[k][l] = SlNull

\* Keys, head and null are different numbers.
LEMMA SlTypes ==
    /\ SlKeys \subseteq Nat /\ SlKeys \subseteq Int /\ SlNodes \subseteq Nat /\ SlNodes \subseteq Int
    /\ SlHead \in Nat /\ SlHead \in SlNodes /\ SlHead \notin SlKeys
    /\ SlNull \in Int /\ SlNull \notin SlNodes /\ SlNull < 0 /\ \A k \in SlKeys : k > SlHead /\ k # SlNull
    /\ SlNodes = SlKeys \cup {SlHead}
    BY SlAssumption DEF SlNodes, SlHead, SlNull

\* There is a last node before the key.
LEMMA BeforeExists ==
    ASSUME NEW A \in SUBSET SlKeys, NEW key \in SlKeys
    PROVE  \E p \in SlNodes : IsBefore(A, key, p)
    <1> DEFINE S == {d \in Nat : \E a \in A \cup {SlHead} : a < key /\ d = key - a}
    <1>1. key \in Nat /\ key > SlHead /\ SlHead \in Nat /\ A \subseteq Nat /\ A \cup {SlHead} \subseteq Nat
      BY SlTypes
    <1>2. key - SlHead \in S
      BY <1>1
    <1>3. PICK d \in S : \A y \in S : d <= y
      BY <1>2, LeastElement
    <1>4. PICK a \in A \cup {SlHead} : a < key /\ d = key - a
      BY <1>3
    <1>5. ASSUME NEW k \in A, k < key
          PROVE  k <= a
      <2>1. k \in Nat /\ a \in Nat /\ key - k \in Nat
        BY <1>1, <1>5
      <2>2. key - k \in S
        BY <1>5, <2>1
      <2>3. key - a <= key - k
        BY <1>3, <1>4, <2>2
      <2>4. QED
        BY <1>1, <2>1, <2>3
    <1>6. a \in SlNodes
      BY SlTypes
    <1>7. QED
      BY <1>4, <1>5, <1>6 DEF IsBefore

\* There is only one.
LEMMA BeforeUnique ==
    ASSUME NEW A \in SUBSET SlKeys, NEW key \in SlKeys, NEW p, NEW q, IsBefore(A, key, p), IsBefore(A, key, q)
    PROVE  p = q
    <1>1. p \in Nat /\ q \in Nat /\ key \in Nat /\ \A k \in A : k > SlHead /\ k \in Nat
      BY SlTypes DEF IsBefore
    <1>2. p \in A => p <= q
      BY DEF IsBefore
    <1>3. q \in A => q <= p
      BY DEF IsBefore
    <1>4. p = SlHead => SlHead <= q
      BY <1>1 DEF SlHead
    <1>5. q = SlHead => SlHead <= p
      BY <1>1 DEF SlHead
    <1>6. p <= q /\ q <= p
      BY <1>1, <1>2, <1>3, <1>4, <1>5 DEF IsBefore
    <1>7. QED
      BY <1>1, <1>6

\* Where a level is left: the successor is the key exactly if the level has it.
LEMMA SuccOfBefore ==
    ASSUME NEW A \in SUBSET SlKeys, NEW key \in SlKeys, NEW p, IsBefore(A, key, p), NEW s, IsSucc(A, p, s)
    PROVE  s = key <=> key \in A
    <1>1. p \in Nat /\ key \in Nat /\ p < key /\ key # SlNull /\ \A k \in A : k \in Nat
      BY SlTypes DEF IsBefore
    <1>2. ASSUME key \in A
          PROVE  s = key
      <2>1. s \in A /\ s > p /\ s <= key
        BY <1>1, <1>2 DEF IsSucc
      <2>2. s \in Nat
        BY <1>1, <2>1
      <2>3. s < key => s <= p
        BY <2>1 DEF IsBefore
      <2>4. QED
        BY <1>1, <2>1, <2>2, <2>3
    <1>3. ASSUME s = key
          PROVE  key \in A
      BY <1>1, <1>3 DEF IsSucc
    <1>4. QED
      BY <1>2, <1>3

\* A node stops the walk exactly if it is the last before the key.
Stops(N, l, key, n) == N[n][l] = SlNull \/ N[n][l] >= key

\* Where the walk stops, and that it comes nearer to the key where it goes on.
LEMMA StopsAtLast ==
    ASSUME NEW N, NEW l, NEW A, LevelOK(N, l, A), NEW key \in SlKeys, NEW n \in A \cup {SlHead}, n < key
    PROVE  /\ Stops(N, l, key, n) => IsBefore(A, key, n)
           /\ ~ Stops(N, l, key, n) => N[n][l] \in A /\ N[n][l] < key /\ N[n][l] > n
    <1>1. A \subseteq SlKeys /\ IsSucc(A, n, N[n][l])
      BY DEF LevelOK
    <1>2. n \in Int /\ key \in Int /\ \A k \in A : k \in Int
      BY <1>1, SlTypes
    <1>3. PICK s : s = N[n][l]
      OBVIOUS
    <1>4. ASSUME s = SlNull \/ s >= key, NEW k \in A, k < key
          PROVE  k <= n
      <2>1. k \in Int
        BY <1>2
      <2>2. CASE s = SlNull /\ \A j \in A : ~ (j > n)
        BY <1>2, <2>1, <2>2
      <2>3. CASE s \in A /\ s > n /\ \A j \in A : j > n => s <= j
        <3>1. s \in Int /\ s # SlNull
          BY <1>1, <2>3, SlTypes
        <3>2. s >= key
          BY <1>4, <3>1
        <3>3. k > n => s <= k
          BY <2>3
        <3>4. QED
          BY <1>2, <1>4, <2>1, <3>1, <3>2, <3>3
      <2>4. QED
        BY <1>1, <1>3, <2>2, <2>3 DEF IsSucc
    <1>5. ASSUME ~ (s = SlNull \/ s >= key)
          PROVE  s \in A /\ s < key /\ s > n
      <2>1. s \in A /\ s > n
        BY <1>1, <1>3, <1>5 DEF IsSucc
      <2>2. s \in Int
        BY <1>2, <2>1
      <2>3. QED
        BY <1>2, <1>5, <2>1, <2>2
    <1>6. QED
      BY <1>3, <1>4, <1>5 DEF Stops, IsBefore

\* The walk of LastBefore, for any pointers.
WalkOn(N, l, key) ==
    CHOOSE w : w = [n \in SlNodes |-> IF Stops(N, l, key, n) THEN n ELSE w[N[n][l]]]
IsSlWalk(w, N, l, key) == \A n \in SlNodes : w[n] = IF Stops(N, l, key, n) THEN n ELSE w[N[n][l]]

\* The recursive function solves its equation: the walk goes up the keys, so it ends.
LEMMA SlWalkUnfolds ==
    ASSUME NEW N, NEW l, NEW A, LevelOK(N, l, A), NEW key \in SlKeys
    PROVE  IsSlWalk(WalkOn(N, l, key), N, l, key)
    <1>1. A \subseteq SlKeys
      BY DEF LevelOK
    <1>2. PICK p \in SlNodes : IsBefore(A, key, p)
      BY <1>1, BeforeExists
    <1> DEFINE w == [n \in SlNodes |-> IF Stops(N, l, key, n) THEN n ELSE p]
    <1>3. ASSUME NEW n \in SlNodes
          PROVE  w[n] = IF Stops(N, l, key, n) THEN n ELSE w[N[n][l]]
      <2>1. CASE Stops(N, l, key, n)
        BY <2>1
      <2>2. CASE ~ Stops(N, l, key, n)
        <3>1. n \in A \cup {SlHead}
          BY <2>2, SlTypes DEF LevelOK, Stops
        <3>2. n < key
          <4>1. N[n][l] \in A /\ N[n][l] > n
            BY <2>2, <3>1 DEF LevelOK, IsSucc, Stops
          <4>2. n \in Int /\ key \in Int /\ N[n][l] \in Int
            BY <1>1, <4>1, SlTypes
          <4>3. N[n][l] < key
            BY <2>2, <4>2 DEF Stops
          <4>4. QED
            BY <4>1, <4>2, <4>3
        <3>3. N[n][l] \in A /\ N[n][l] < key
          BY <2>2, <3>1, <3>2, StopsAtLast
        <3>4. PICK m : m = N[n][l]
          OBVIOUS
        <3>5. Stops(N, l, key, m) => m = p
          <4>1. Stops(N, l, key, m) => IsBefore(A, key, m)
            BY <3>3, <3>4, StopsAtLast
          <4>2. QED
            BY <1>1, <1>2, <4>1, BeforeUnique
        <3>6. m \in SlNodes
          BY <1>1, <3>3, <3>4, SlTypes
        <3>7. w[m] = p /\ w[n] = p
          BY <2>2, <3>5, <3>6
        <3>8. QED
          BY <2>2, <3>4, <3>7
      <2>3. QED
        BY <2>1, <2>2
    <1>4. w = [n \in SlNodes |-> IF Stops(N, l, key, n) THEN n ELSE w[N[n][l]]]
      <2>1. PICK u : u = w
        OBVIOUS
      <2>2. \A n \in SlNodes : u[n] = IF Stops(N, l, key, n) THEN n ELSE u[N[n][l]]
        BY <1>3, <2>1
      <2>3. u = [n \in SlNodes |-> IF Stops(N, l, key, n) THEN n ELSE p]
        BY <2>1
      <2>4. u = [n \in SlNodes |-> IF Stops(N, l, key, n) THEN n ELSE u[N[n][l]]]
        BY <2>2, <2>3, Zenon
      <2>5. QED
        BY <2>1, <2>4, Zenon
    <1> HIDE DEF w
    <1>5. \E u : u = [n \in SlNodes |-> IF Stops(N, l, key, n) THEN n ELSE u[N[n][l]]]
      BY <1>4, Zenon
    <1>6. PICK v : v = WalkOn(N, l, key)
      OBVIOUS
    <1>7. v = [n \in SlNodes |-> IF Stops(N, l, key, n) THEN n ELSE v[N[n][l]]]
      BY <1>5, <1>6, Zenon DEF WalkOn
    <1>8. \A n \in SlNodes : v[n] = IF Stops(N, l, key, n) THEN n ELSE v[N[n][l]]
      BY <1>7, Zenon
    <1>9. QED
      BY <1>6, <1>8 DEF IsSlWalk

\* It ends at the last node before the key.
LEMMA WalkEnds ==
    ASSUME NEW N, NEW l, NEW A, LevelOK(N, l, A), NEW key \in SlKeys, NEW p, IsBefore(A, key, p),
           NEW from \in A \cup {SlHead}, from < key
    PROVE  WalkOn(N, l, key)[from] = p
    <1>1. PICK w : w = WalkOn(N, l, key)
      OBVIOUS
    <1>2. \A n \in SlNodes : w[n] = IF Stops(N, l, key, n) THEN n ELSE w[N[n][l]]
      BY <1>1, SlWalkUnfolds DEF IsSlWalk
    <1>3. A \subseteq SlKeys /\ A \cup {SlHead} \subseteq SlNodes /\ A \cup {SlHead} \subseteq Nat /\ key \in Nat
      BY SlTypes DEF LevelOK
    <1> DEFINE Bad == {d \in Nat : \E a \in A \cup {SlHead} : a < key /\ d = key - a /\ w[a] # p}
    <1>4. ASSUME Bad # {}
          PROVE  FALSE
      <2>1. PICK d \in Bad : \A y \in Bad : d <= y
        BY <1>4, LeastElement
      <2>2. PICK a \in A \cup {SlHead} : a < key /\ d = key - a /\ w[a] # p
        BY <2>1
      <2>3. a \in SlNodes /\ a \in Nat
        BY <1>3
      <2>4. CASE Stops(N, l, key, a)
        <3>1. IsBefore(A, key, a)
          BY <2>2, <2>4, StopsAtLast
        <3>2. a = p
          BY <1>3, <3>1, BeforeUnique
        <3>3. QED
          BY <1>2, <2>2, <2>3, <2>4, <3>2
      <2>5. CASE ~ Stops(N, l, key, a)
        <3>1. PICK m : m = N[a][l]
          OBVIOUS
        <3>2. m \in A /\ m < key /\ m > a
          BY <2>2, <2>5, <3>1, StopsAtLast
        <3>3. w[a] = w[m]
          BY <1>2, <2>3, <2>5, <3>1
        <3>4. m \in Nat /\ key - m \in Nat
          BY <1>3, <3>2
        <3>5. key - m \in Bad
          BY <2>2, <3>2, <3>3, <3>4
        <3>6. key - a <= key - m
          BY <2>1, <2>2, <3>5
        <3>7. QED
          BY <1>3, <2>3, <3>2, <3>4, <3>6
      <2>6. QED
        BY <2>4, <2>5
    <1>5. key - from \in Nat
      BY <1>3
    <1>6. QED
      BY <1>1, <1>4, <1>5

-----------------------------------------------------------------------------
\* SkipList: all levels

SlOn(H, l) == {k \in SlKeys : H[k] > l}
LevelsOK(N, H) == \A l \in SlLevels : LevelOK(N, l, SlOn(H, l))
HeightsOK(H) == H \in [SlKeys -> 0..SlMaxHeight]

\* prevs, for any pointers: the descent ends each level where a walk from head_
\* would.
PrevsOn(N, M, key) ==
    CHOOSE g : g = [l \in 0..(M - 1) |-> WalkOn(N, l, key)[IF l = M - 1 THEN SlHead ELSE g[l + 1]]]
IsPrevs(g, N, M, key) ==
    \A l \in 0..(M - 1) : g[l] = WalkOn(N, l, key)[IF l = M - 1 THEN SlHead ELSE g[l + 1]]

\* A level is entered at or before the node the walk is to find.
LEMMA DescentStep ==
    ASSUME NEW N, NEW H, LevelsOK(N, H), HeightsOK(H), NEW M \in 1..SlMaxHeight, NEW key \in SlKeys,
           NEW l \in 0..(M - 1), NEW p, IsBefore(SlOn(H, l), key, p), NEW from,
           from = SlHead \/ IsBefore(SlOn(H, l + 1), key, from)
    PROVE  WalkOn(N, l, key)[from] = p
    <1>1. l \in SlLevels /\ l \in Nat
      BY SlAssumption DEF SlLevels
    <1>2. LevelOK(N, l, SlOn(H, l))
      BY <1>1 DEF LevelsOK
    <1>3. \A k \in SlKeys : H[k] \in Nat /\ (H[k] > l + 1 => H[k] > l)
      BY <1>1, SlAssumption DEF HeightsOK
    <1>4. from \in SlOn(H, l) \cup {SlHead} /\ from < key
      <2>1. CASE from = SlHead
        BY <2>1, SlTypes
      <2>2. CASE IsBefore(SlOn(H, l + 1), key, from)
        BY <1>3, <2>2 DEF SlOn, IsBefore
      <2>3. QED
        BY <2>1, <2>2
    <1>5. QED
      BY <1>2, <1>4, WalkEnds

\* The recursive function of the descent solves its equation.
LEMMA PrevsUnfolds ==
    ASSUME NEW N, NEW H, LevelsOK(N, H), HeightsOK(H), NEW M \in 1..SlMaxHeight, NEW key \in SlKeys
    PROVE  IsPrevs(PrevsOn(N, M, key), N, M, key)
    <1>1. \A l : SlOn(H, l) \in SUBSET SlKeys
      BY DEF SlOn
    <1> DEFINE B(l) == CHOOSE p : IsBefore(SlOn(H, l), key, p)
               g == [l \in 0..(M - 1) |-> B(l)]
    <1>2. \A l : IsBefore(SlOn(H, l), key, B(l))
      <2>1. \A l : \E p : IsBefore(SlOn(H, l), key, p)
        BY <1>1, BeforeExists
      <2>2. QED
        BY <2>1, Zenon
    <1> HIDE DEF B
    <1>3. ASSUME NEW l \in 0..(M - 1)
          PROVE  g[l] = WalkOn(N, l, key)[IF l = M - 1 THEN SlHead ELSE g[l + 1]]
      <2>1. PICK from : from = IF l = M - 1 THEN SlHead ELSE g[l + 1]
        OBVIOUS
      <2>2. l # M - 1 => l + 1 \in 0..(M - 1)
        BY SlAssumption
      <2>3. from = SlHead \/ IsBefore(SlOn(H, l + 1), key, from)
        BY <1>2, <2>1, <2>2
      <2>4. WalkOn(N, l, key)[from] = B(l)
        BY <1>2, <2>3, DescentStep
      <2>5. QED
        BY <2>1, <2>4
    <1>4. \E u : u = [l \in 0..(M - 1) |-> WalkOn(N, l, key)[IF l = M - 1 THEN SlHead ELSE u[l + 1]]]
      <2>1. PICK u : u = g
        OBVIOUS
      <2>2. \A l \in 0..(M - 1) : u[l] = WalkOn(N, l, key)[IF l = M - 1 THEN SlHead ELSE u[l + 1]]
        BY <1>3, <2>1
      <2>3. u = [l \in 0..(M - 1) |-> B(l)]
        BY <2>1
      <2>4. u = [l \in 0..(M - 1) |-> WalkOn(N, l, key)[IF l = M - 1 THEN SlHead ELSE u[l + 1]]]
        BY <2>2, <2>3, Zenon
      <2>5. QED
        BY <2>4, Zenon
    <1>5. PICK v : v = PrevsOn(N, M, key)
      OBVIOUS
    <1>6. v = [l \in 0..(M - 1) |-> WalkOn(N, l, key)[IF l = M - 1 THEN SlHead ELSE v[l + 1]]]
      BY <1>4, <1>5, Zenon DEF PrevsOn
    <1>7. \A l \in 0..(M - 1) : v[l] = WalkOn(N, l, key)[IF l = M - 1 THEN SlHead ELSE v[l + 1]]
      BY <1>6, Zenon
    <1>8. QED
      BY <1>5, <1>7 DEF IsPrevs

\* The descent finds the last node before the key on every level.
LEMMA PrevsAreBefore ==
    ASSUME NEW N, NEW H, LevelsOK(N, H), HeightsOK(H), NEW M \in 1..SlMaxHeight, NEW key \in SlKeys
    PROVE  \A l \in 0..(M - 1) : IsBefore(SlOn(H, l), key, PrevsOn(N, M, key)[l])
    <1>1. PICK g : g = PrevsOn(N, M, key)
      OBVIOUS
    <1>2. \A l \in 0..(M - 1) : g[l] = WalkOn(N, l, key)[IF l = M - 1 THEN SlHead ELSE g[l + 1]]
      BY <1>1, PrevsUnfolds DEF IsPrevs
    <1>3. M \in Nat /\ M >= 1
      BY SlAssumption
    <1> DEFINE Bad == {d \in Nat : \E l \in 0..(M - 1) : d = M - 1 - l /\ ~ IsBefore(SlOn(H, l), key, g[l])}
    <1>4. ASSUME Bad # {}
          PROVE  FALSE
      <2>1. PICK d \in Bad : \A y \in Bad : d <= y
        BY <1>4, LeastElement
      <2>2. PICK l \in 0..(M - 1) : d = M - 1 - l /\ ~ IsBefore(SlOn(H, l), key, g[l])
        BY <2>1
      <2>3. PICK from : from = IF l = M - 1 THEN SlHead ELSE g[l + 1]
        OBVIOUS
      <2>4. from = SlHead \/ IsBefore(SlOn(H, l + 1), key, from)
        <3>1. CASE l = M - 1
          BY <2>3, <3>1
        <3>2. CASE l # M - 1
          <4>1. l + 1 \in 0..(M - 1) /\ M - 1 - (l + 1) \in Nat /\ M - 1 - (l + 1) < d
            BY <1>3, <2>2, <3>2
          <4>2. M - 1 - (l + 1) \notin Bad
            BY <2>1, <4>1
          <4>3. IsBefore(SlOn(H, l + 1), key, g[l + 1])
            BY <4>1, <4>2
          <4>4. QED
            BY <2>3, <3>2, <4>3
        <3>3. QED
          BY <3>1, <3>2
      <2>5. SlOn(H, l) \in SUBSET SlKeys
        BY DEF SlOn
      <2>6. PICK p : IsBefore(SlOn(H, l), key, p)
        BY <2>5, BeforeExists
      <2>7. WalkOn(N, l, key)[from] = p
        BY <2>4, <2>6, DescentStep
      <2>8. g[l] = p
        BY <1>2, <2>3, <2>7
      <2>9. QED
        BY <2>2, <2>6, <2>8
    <1>5. ASSUME NEW l \in 0..(M - 1)
          PROVE  IsBefore(SlOn(H, l), key, g[l])
      <2>1. M - 1 - l \in Nat
        BY <1>3
      <2>2. QED
        BY <1>4, <2>1
    <1>6. QED
      BY <1>1, <1>5

\* Linking a node behind the last one before it, and unlinking it again.
LEMMA LinkLevel ==
    ASSUME NEW N, NEW l, NEW A, LevelOK(N, l, A), NEW key \in SlKeys, key \notin A,
           NEW p, IsBefore(A, key, p), NEW N2,
           \A n \in SlNodes : N2[n][l] = IF n = key THEN N[p][l] ELSE IF n = p THEN key ELSE N[n][l]
    PROVE  LevelOK(N2, l, A \cup {key})
    <1>1. A \subseteq SlKeys /\ (\A n \in A \cup {SlHead} : IsSucc(A, n, N[n][l]))
          /\ \A k \in SlKeys \ A : N[k][l] = SlNull
      BY DEF LevelOK
    <1>2. /\ p \in A \cup {SlHead} /\ p < key /\ \A k \in A : k < key => k <= p
      BY DEF IsBefore
    <1>3. /\ \A k \in A : k \in Int /\ k \in SlNodes /\ k # key
          /\ p \in Int /\ p \in SlNodes /\ key \in Int /\ key \in SlNodes /\ SlHead \in SlNodes /\ SlHead \in Int
          /\ p # key /\ SlHead # key
      BY <1>1, <1>2, SlTypes
    <1>4. IsSucc(A \cup {key}, p, N2[p][l])
      <2>1. N2[p][l] = key /\ key > p
        BY <1>2, <1>3
      <2>2. ASSUME NEW k \in A \cup {key}, k > p
            PROVE  key <= k
        <3>1. k \in Int /\ (k \in A => k >= key)
          BY <1>2, <1>3, <2>2
        <3>2. QED
          BY <1>3, <3>1
      <2>3. QED
        BY <2>1, <2>2 DEF IsSucc
    <1>5. IsSucc(A \cup {key}, key, N2[key][l])
      <2>1. PICK s : s = N[p][l]
        OBVIOUS
      <2>2. N2[key][l] = s
        BY <1>3, <2>1
      <2>3. CASE s = SlNull /\ \A k \in A : ~ (k > p)
        BY <1>2, <1>3, <2>2, <2>3 DEF IsSucc
      <2>4. CASE s \in A /\ s > p /\ \A k \in A : k > p => s <= k
        <3>1. s > key
          BY <1>2, <1>3, <2>4
        <3>2. \A k \in A : k > key => s <= k
          BY <1>2, <1>3, <2>4
        <3>3. ~ (key > key)
          BY <1>3
        <3>4. QED
          BY <2>2, <2>4, <3>1, <3>2, <3>3 DEF IsSucc
      <2>5. QED
        BY <1>1, <1>2, <2>1, <2>3, <2>4 DEF IsSucc
    <1>6. ASSUME NEW n \in A \cup {SlHead}, n # p
          PROVE  IsSucc(A \cup {key}, n, N2[n][l])
      <2>1. n \in Int /\ n # key /\ n \in SlNodes
        BY <1>3
      <2>2. PICK s : s = N[n][l]
        OBVIOUS
      <2>3. N2[n][l] = s
        BY <1>6, <2>1, <2>2
      <2>4. CASE n > key
        <3>1. \A k \in A \cup {key} : k > n => k \in A
          BY <1>3, <2>1, <2>4
        <3>2. QED
          BY <1>1, <2>2, <2>3, <3>1 DEF IsSucc
      <2>5. CASE n < key
        <3>1. n < p
          <4>1. n \in A => n <= p
            BY <1>2, <2>5
          <4>2. n = SlHead => n <= p
            BY <1>1, <1>2, <1>3, SlTypes
          <4>3. QED
            BY <1>3, <1>6, <2>1, <4>1, <4>2
        <3>2. p \in A
          BY <1>1, <1>2, <1>3, <2>1, <3>1, SlTypes
        <3>3. s \in A /\ s > n /\ s <= p /\ \A k \in A : k > n => s <= k
          BY <1>1, <2>2, <3>1, <3>2 DEF IsSucc
        <3>4. s <= key
          <4>1. s \in Int /\ p \in Int /\ key \in Int
            BY <1>3, <3>3
          <4>2. s <= p /\ p < key
            BY <1>2, <3>3
          <4>3. QED
            BY <4>1, <4>2
        <3>5. QED
          BY <2>3, <3>3, <3>4 DEF IsSucc
      <2>6. QED
        BY <1>3, <2>1, <2>4, <2>5
    <1>7. \A k \in SlKeys \ (A \cup {key}) : N2[k][l] = SlNull
      <2>1. ASSUME NEW k \in SlKeys \ (A \cup {key})
            PROVE  N2[k][l] = SlNull
        <3>1. k \in SlNodes /\ k # key /\ k # p
          BY <1>2, SlTypes
        <3>2. QED
          BY <1>1, <3>1
      <2>2. QED
        BY <2>1
    <1>8. QED
      BY <1>1, <1>4, <1>5, <1>6, <1>7 DEF LevelOK

\* Del on one level.
LEMMA UnlinkLevel ==
    ASSUME NEW N, NEW l, NEW A, LevelOK(N, l, A), NEW key \in SlKeys, key \in A,
           NEW p, IsBefore(A, key, p), NEW N2,
           \A n \in SlNodes : N2[n][l] = IF n = key THEN SlNull ELSE IF n = p THEN N[key][l] ELSE N[n][l]
    PROVE  LevelOK(N2, l, A \ {key})
    <1>1. A \subseteq SlKeys /\ (\A n \in A \cup {SlHead} : IsSucc(A, n, N[n][l]))
          /\ \A k \in SlKeys \ A : N[k][l] = SlNull
      BY DEF LevelOK
    <1>2. /\ p \in A \cup {SlHead} /\ p < key /\ \A k \in A : k < key => k <= p
      BY DEF IsBefore
    <1>3. /\ \A k \in A : k \in Int /\ k \in SlNodes
          /\ p \in Int /\ p \in SlNodes /\ key \in Int /\ key \in SlNodes /\ SlHead \in SlNodes /\ SlHead \in Int
          /\ p # key /\ SlHead # key
      BY <1>1, <1>2, SlTypes
    <1>4. IsSucc(A \ {key}, p, N2[p][l])
      <2>1. PICK s : s = N[key][l]
        OBVIOUS
      <2>2. N2[p][l] = s
        BY <1>3, <2>1
      <2>3. \A k \in A \ {key} : k > p <=> k > key
        <3>1. ASSUME NEW k \in A, k # key
              PROVE  k > p <=> k > key
          <4>1. k \in Int
            BY <1>3
          <4>2. k < key => k <= p
            BY <1>2
          <4>3. QED
            BY <1>2, <1>3, <3>1, <4>1, <4>2
        <3>2. QED
          BY <3>1
      <2>4. CASE s = SlNull /\ \A k \in A : ~ (k > key)
        BY <2>2, <2>3, <2>4 DEF IsSucc
      <2>5. CASE s \in A /\ s > key /\ \A k \in A : k > key => s <= k
        <3>1. s # key
          BY <1>3, <2>5
        <3>2. QED
          BY <2>2, <2>3, <2>5, <3>1 DEF IsSucc
      <2>6. QED
        BY <1>1, <2>1, <2>4, <2>5 DEF IsSucc
    <1>5. ASSUME NEW n \in (A \ {key}) \cup {SlHead}, n # p
          PROVE  IsSucc(A \ {key}, n, N2[n][l])
      <2>1. n \in Int /\ n # key /\ n \in SlNodes
        BY <1>3
      <2>2. PICK s : s = N[n][l]
        OBVIOUS
      <2>3. N2[n][l] = s /\ IsSucc(A, n, s)
        BY <1>1, <1>5, <2>1, <2>2
      <2>4. s # key
        <3> SUFFICES ASSUME s = key
                     PROVE  FALSE
          OBVIOUS
        <3>1. key > n /\ \A k \in A : k > n => key <= k
          BY <1>1, <2>3, SlTypes DEF IsSucc
        <3>2. n < p
          <4>1. n \in A => n <= p
            BY <1>2, <1>3, <2>1, <3>1
          <4>2. n = SlHead => n <= p
            BY <1>1, <1>2, <1>3, SlTypes
          <4>3. QED
            BY <1>3, <1>5, <2>1, <4>1, <4>2
        <3>3. p \in A
          BY <1>1, <1>2, <1>3, <2>1, <3>2, <1>5, SlTypes
        <3>4. key <= p
          BY <1>3, <2>1, <3>1, <3>2, <3>3
        <3>5. QED
          BY <1>2, <1>3, <3>4
      <2>5. QED
        BY <2>3, <2>4 DEF IsSucc
    <1>6. \A k \in SlKeys \ (A \ {key}) : N2[k][l] = SlNull
      <2>1. ASSUME NEW k \in SlKeys \ (A \ {key})
            PROVE  N2[k][l] = SlNull
        <3>1. k \in SlNodes /\ (k = key \/ k \notin A)
          BY SlTypes
        <3>2. CASE k = key
          BY <1>3, <3>2
        <3>3. CASE k # key
          <4>1. k # p
            BY <1>2, <3>1, <3>3, SlTypes
          <4>2. QED
            BY <1>1, <3>1, <3>3, <4>1
        <3>4. QED
          BY <3>2, <3>3
      <2>2. QED
        BY <2>1
    <1>7. QED
      BY <1>1, <1>4, <1>5, <1>6 DEF LevelOK

\* A level whose pointers stay is as it was.
LEMMA SameLevel ==
    ASSUME NEW N, NEW l, NEW A, LevelOK(N, l, A), NEW N2, \A n \in SlNodes : N2[n][l] = N[n][l]
    PROVE  LevelOK(N2, l, A)
    <1>1. A \cup {SlHead} \subseteq SlNodes /\ SlKeys \subseteq SlNodes
      BY SlTypes DEF LevelOK
    <1>2. QED
      BY <1>1 DEF LevelOK

\* The levels at the top that are given up: the loop of Shrunk, for any pointers.
ShrinkLoop(N, M) == CHOOSE g : g = [h \in 1..M |-> IF h > 1 /\ N[SlHead][h - 1] = SlNull THEN g[h - 1] ELSE h]
IsTop(N, h, r) == /\ r \in 1..h /\ (r > 1 => N[SlHead][r - 1] # SlNull)
                  /\ \A l \in r..(h - 1) : N[SlHead][l] = SlNull

\* A round of the loop of Shrunk.
LEMMA TopStep ==
    ASSUME NEW N, NEW h \in Nat, h >= 1, NEW r,
           IF h > 1 /\ N[SlHead][h - 1] = SlNull THEN IsTop(N, h - 1, r) ELSE r = h
    PROVE  IsTop(N, h, r)
    <1>1. CASE h > 1 /\ N[SlHead][h - 1] = SlNull
      <2>1. r \in 1..(h - 1) /\ (r > 1 => N[SlHead][r - 1] # SlNull)
            /\ \A l \in r..(h - 1 - 1) : N[SlHead][l] = SlNull
        BY <1>1 DEF IsTop
      <2>2. r \in Nat /\ r \in 1..h /\ \A l \in r..(h - 1) : l = h - 1 \/ l \in r..(h - 1 - 1)
        BY <1>1, <2>1
      <2>3. QED
        BY <1>1, <2>1, <2>2 DEF IsTop
    <1>2. CASE ~ (h > 1 /\ N[SlHead][h - 1] = SlNull)
      <2>1. r = h
        BY <1>2
      <2>2. h \in 1..h /\ h..(h - 1) = {}
        OBVIOUS
      <2>3. QED
        BY <1>2, <2>1, <2>2 DEF IsTop
    <1>3. QED
      BY <1>1, <1>2

\* There is only one height to stop at.
LEMMA TopUnique ==
    ASSUME NEW N, NEW h \in Nat, NEW r, NEW q, IsTop(N, h, r), IsTop(N, h, q)
    PROVE  r = q
    <1>1. r \in Nat /\ q \in Nat /\ r >= 1 /\ q >= 1 /\ r <= h /\ q <= h
      BY DEF IsTop
    <1>2. ~ (r < q)
      <2> SUFFICES ASSUME r < q
                   PROVE  FALSE
        OBVIOUS
      <2>1. q - 1 \in r..(h - 1) /\ q > 1
        BY <1>1
      <2>2. QED
        BY <2>1 DEF IsTop
    <1>3. ~ (q < r)
      <2> SUFFICES ASSUME q < r
                   PROVE  FALSE
        OBVIOUS
      <2>1. r - 1 \in q..(h - 1) /\ r > 1
        BY <1>1
      <2>2. QED
        BY <2>1 DEF IsTop
    <1>4. QED
      BY <1>1, <1>2, <1>3

\* There is one.
LEMMA TopExists ==
    ASSUME NEW N, NEW M \in Nat
    PROVE  \A h \in 1..M : \E r : IsTop(N, h, r)
    <1> DEFINE Bad == {h \in Nat : h \in 1..M /\ ~ \E r : IsTop(N, h, r)}
    <1>1. ASSUME Bad # {}
          PROVE  FALSE
      <2>1. PICK h \in Bad : \A y \in Bad : h <= y
        BY <1>1, LeastElement
      <2>2. h \in Nat /\ h >= 1 /\ h <= M /\ ~ \E r : IsTop(N, h, r)
        BY <2>1
      <2>3. CASE h > 1 /\ N[SlHead][h - 1] = SlNull
        <3>1. h - 1 \in Nat /\ h - 1 \in 1..M /\ h - 1 < h
          BY <2>2, <2>3
        <3>2. h - 1 \notin Bad
          BY <2>1, <3>1
        <3>3. PICK r : IsTop(N, h - 1, r)
          BY <3>1, <3>2
        <3>4. IsTop(N, h, r)
          BY <2>2, <2>3, <3>3, TopStep
        <3>5. QED
          BY <2>2, <3>4
      <2>4. CASE ~ (h > 1 /\ N[SlHead][h - 1] = SlNull)
        <3>1. IsTop(N, h, h)
          BY <2>2, <2>4, TopStep
        <3>2. QED
          BY <2>2, <3>1
      <2>5. QED
        BY <2>3, <2>4
    <1>2. QED
      BY <1>1

\* The loop stops there.
LEMMA ShrinkIsTop ==
    ASSUME NEW N, NEW M \in Nat, M >= 1
    PROVE  IsTop(N, M, ShrinkLoop(N, M)[M])
    <1> DEFINE T(h) == CHOOSE r : IsTop(N, h, r)
               f == [h \in 1..M |-> T(h)]
    <1>1. \A h \in 1..M : IsTop(N, h, T(h))
      BY TopExists, Zenon
    <1> HIDE DEF T
    <1>2. ASSUME NEW h \in 1..M
          PROVE  f[h] = IF h > 1 /\ N[SlHead][h - 1] = SlNull THEN f[h - 1] ELSE h
      <2>1. h \in Nat /\ h >= 1
        OBVIOUS
      <2>2. CASE h > 1 /\ N[SlHead][h - 1] = SlNull
        <3>1. h - 1 \in 1..M
          BY <2>2
        <3>2. IsTop(N, h - 1, T(h - 1)) /\ IsTop(N, h, T(h))
          BY <1>1, <3>1
        <3>3. IsTop(N, h, T(h - 1))
          BY <2>1, <2>2, <3>2, TopStep
        <3>4. T(h) = T(h - 1)
          BY <2>1, <3>2, <3>3, TopUnique
        <3>5. QED
          BY <2>2, <3>1, <3>4
      <2>3. CASE ~ (h > 1 /\ N[SlHead][h - 1] = SlNull)
        <3>1. IsTop(N, h, h)
          BY <2>1, <2>3, TopStep
        <3>2. T(h) = h
          BY <1>1, <2>1, <3>1, TopUnique
        <3>3. QED
          BY <2>3, <3>2
      <2>4. QED
        BY <2>2, <2>3
    <1>3. \E u : u = [h \in 1..M |-> IF h > 1 /\ N[SlHead][h - 1] = SlNull THEN u[h - 1] ELSE h]
      <2>1. PICK u : u = f
        OBVIOUS
      <2>2. \A h \in 1..M : u[h] = IF h > 1 /\ N[SlHead][h - 1] = SlNull THEN u[h - 1] ELSE h
        BY <1>2, <2>1
      <2>3. u = [h \in 1..M |-> T(h)]
        BY <2>1
      <2>4. u = [h \in 1..M |-> IF h > 1 /\ N[SlHead][h - 1] = SlNull THEN u[h - 1] ELSE h]
        BY <2>2, <2>3, Zenon
      <2>5. QED
        BY <2>4, Zenon
    <1>4. PICK g : g = ShrinkLoop(N, M)
      OBVIOUS
    <1>5. g = [h \in 1..M |-> IF h > 1 /\ N[SlHead][h - 1] = SlNull THEN g[h - 1] ELSE h]
      BY <1>3, <1>4, Zenon DEF ShrinkLoop
    <1>6. \A h \in 1..M : g[h] = IF h > 1 /\ N[SlHead][h - 1] = SlNull THEN g[h - 1] ELSE h
      BY <1>5, Zenon
    <1> DEFINE Bad == {h \in Nat : h \in 1..M /\ ~ IsTop(N, h, g[h])}
    <1>7. ASSUME Bad # {}
          PROVE  FALSE
      <2>1. PICK h \in Bad : \A y \in Bad : h <= y
        BY <1>7, LeastElement
      <2>2. h \in Nat /\ h >= 1 /\ h <= M /\ h \in 1..M /\ ~ IsTop(N, h, g[h])
        BY <2>1
      <2>3. CASE h > 1 /\ N[SlHead][h - 1] = SlNull
        <3>1. h - 1 \in Nat /\ h - 1 \in 1..M /\ h - 1 < h
          BY <2>2, <2>3
        <3>2. h - 1 \notin Bad
          BY <2>1, <3>1
        <3>3. IsTop(N, h - 1, g[h - 1]) /\ g[h] = g[h - 1]
          BY <1>6, <2>2, <2>3, <3>1, <3>2
        <3>4. IsTop(N, h, g[h])
          BY <2>2, <2>3, <3>3, TopStep
        <3>5. QED
          BY <2>2, <3>4
      <2>4. CASE ~ (h > 1 /\ N[SlHead][h - 1] = SlNull)
        <3>1. g[h] = h
          BY <1>6, <2>2, <2>4
        <3>2. IsTop(N, h, g[h])
          BY <2>2, <2>4, <3>1, TopStep
        <3>3. QED
          BY <2>2, <3>2
      <2>5. QED
        BY <2>3, <2>4
    <1>8. M \in 1..M
      OBVIOUS
    <1>9. QED
      BY <1>4, <1>7, <1>8

-----------------------------------------------------------------------------
\* SkipList: the inductive invariant

TopOK(H, M) == /\ M > 1 => SlOn(H, M - 1) # {}
               /\ \A l \in M..(SlMaxHeight - 1) : SlOn(H, l) = {}
SlInv == /\ SlTypeOK
         /\ slKeys = SlOn(slHeight, 0)
         /\ LevelsOK(slNext, slHeight)
         /\ TopOK(slHeight, slMaxHeight)

\* The operators of the model in these terms.
LEMMA SlOperators ==
    /\ \A key : Prevs(key) = PrevsOn(slNext, slMaxHeight, key)
    /\ \A N : Shrunk(N) = ShrinkLoop(N, slMaxHeight)[slMaxHeight]
    <1>1. \A l, key, from : LastBefore(l, key, from) = WalkOn(slNext, l, key)[from]
      BY Zenon DEF LastBefore, WalkOn, Stops
    <1>2. \A key : Prevs(key) = PrevsOn(slNext, slMaxHeight, key)
      BY Zenon DEF Prevs, PrevsOn, LastBefore, WalkOn, Stops
    <1>3. \A N : Shrunk(N) = ShrinkLoop(N, slMaxHeight)[slMaxHeight]
      BY Zenon DEF Shrunk, ShrinkLoop
    <1>4. QED
      BY <1>2, <1>3

\* The types, as the proofs use them.
LEMMA SlTyped ==
    ASSUME SlInv
    PROVE  /\ HeightsOK(slHeight) /\ LevelsOK(slNext, slHeight) /\ slMaxHeight \in 1..SlMaxHeight
           /\ slNext \in [SlNodes -> [SlLevels -> SlKeys \cup {SlNull}]]
           /\ \A l : SlOn(slHeight, l) \in SUBSET SlKeys
           /\ \A k \in SlKeys : slHeight[k] \in Nat
           /\ slMaxHeight \in Nat /\ SlMaxHeight \in Nat /\ slMaxHeight >= 1 /\ slMaxHeight <= SlMaxHeight
           /\ 0..(slMaxHeight - 1) \subseteq SlLevels
    BY SlAssumption DEF SlInv, SlTypeOK, HeightsOK, SlOn, SlLevels

\* What the descent finds.
LEMMA DescentFinds ==
    ASSUME SlInv, NEW key \in SlKeys
    PROVE  /\ \A l \in 0..(slMaxHeight - 1) :
                 /\ IsBefore(SlOn(slHeight, l), key, Prevs(key)[l])
                 /\ slNext[Prevs(key)[l]][l] = key <=> key \in SlOn(slHeight, l)
           /\ SlFound(key) <=> key \in slKeys
    <1>1. PICK g : g = Prevs(key)
      OBVIOUS
    <1>2. \A l \in 0..(slMaxHeight - 1) : IsBefore(SlOn(slHeight, l), key, g[l])
      BY <1>1, SlOperators, SlTyped, PrevsAreBefore
    <1>3. ASSUME NEW l \in 0..(slMaxHeight - 1)
          PROVE  slNext[g[l]][l] = key <=> key \in SlOn(slHeight, l)
      <2>1. l \in SlLevels /\ SlOn(slHeight, l) \in SUBSET SlKeys
        BY SlTyped
      <2>2. LevelOK(slNext, l, SlOn(slHeight, l))
        BY <2>1, SlTyped DEF LevelsOK
      <2>3. g[l] \in SlOn(slHeight, l) \cup {SlHead}
        BY <1>2 DEF IsBefore
      <2>4. IsSucc(SlOn(slHeight, l), g[l], slNext[g[l]][l])
        BY <2>2, <2>3 DEF LevelOK
      <2>5. QED
        BY <1>2, <2>1, <2>4, SuccOfBefore
    <1>4. SlFound(key) <=> \E l \in 0..(slMaxHeight - 1) : key \in SlOn(slHeight, l)
      BY <1>1, <1>3 DEF SlFound
    <1>5. (\E l \in 0..(slMaxHeight - 1) : key \in SlOn(slHeight, l)) <=> key \in SlOn(slHeight, 0)
      <2>1. 0 \in 0..(slMaxHeight - 1)
        BY SlTyped
      <2>2. ASSUME NEW l \in 0..(slMaxHeight - 1), key \in SlOn(slHeight, l)
            PROVE  key \in SlOn(slHeight, 0)
        BY <2>2, SlTyped DEF SlOn
      <2>3. QED
        BY <2>1, <2>2
    <1>6. QED
      BY <1>1, <1>2, <1>3, <1>4, <1>5 DEF SlInv

\* The invariant holds in an empty list.
LEMMA SlInitially == SlInit => SlInv
    <1> SUFFICES ASSUME SlInit
                 PROVE  SlInv
      OBVIOUS
    <1>1. SlTypeOK
      BY SlAssumption, SlTypes DEF SlInit, SlTypeOK, SlLevels
    <1>2. ASSUME NEW l \in SlLevels
          PROVE  SlOn(slHeight, l) = {}
      BY SlAssumption DEF SlInit, SlOn, SlLevels
    <1>3. ASSUME NEW l \in SlLevels
          PROVE  LevelOK(slNext, l, SlOn(slHeight, l))
      <2>1. slNext[SlHead][l] = SlNull /\ \A k \in SlKeys : slNext[k][l] = SlNull
        BY SlTypes DEF SlInit
      <2>2. QED
        BY <1>2, <2>1 DEF LevelOK, IsSucc
    <1>4. 0 \in SlLevels /\ \A l \in 1..(SlMaxHeight - 1) : l \in SlLevels
      BY SlAssumption DEF SlLevels
    <1>5. slKeys = SlOn(slHeight, 0)
      BY <1>2, <1>4 DEF SlInit
    <1>6. TopOK(slHeight, slMaxHeight)
      BY <1>2, <1>4 DEF SlInit, TopOK
    <1>7. QED
      BY <1>1, <1>3, <1>5, <1>6 DEF SlInv, LevelsOK

\* Put keeps it.
LEMMA SlPutKeeps ==
    ASSUME SlInv, NEW key \in SlKeys, NEW height \in 1..SlMaxHeight, SlPut(key, height)
    PROVE  SlInv'
    <1>1. PICK N : N = slNext
      OBVIOUS
    <1>2. PICK N2 : N2 = slNext'
      OBVIOUS
    <1>3. PICK H : H = slHeight
      OBVIOUS
    <1>4. PICK H2 : H2 = slHeight'
      OBVIOUS
    <1>5. PICK M : M = slMaxHeight
      OBVIOUS
    <1>6. PICK g : g = Prevs(key)
      OBVIOUS
    <1>7. /\ HeightsOK(H) /\ LevelsOK(N, H) /\ M \in 1..SlMaxHeight
          /\ N \in [SlNodes -> [SlLevels -> SlKeys \cup {SlNull}]]
          /\ M \in Nat /\ SlMaxHeight \in Nat /\ M >= 1 /\ M <= SlMaxHeight
          /\ \A k \in SlKeys : H[k] \in Nat
      BY <1>1, <1>3, <1>5, SlTyped
    <1>8. \A l \in 0..(M - 1) : IsBefore(SlOn(H, l), key, g[l])
      BY <1>3, <1>5, <1>6, DescentFinds
    <1>9. key \notin slKeys
      BY DescentFinds DEF SlPut
    <1>10. H[key] = 0
      BY <1>3, <1>7, <1>9 DEF SlInv, SlOn
    <1>11. H2 = [H EXCEPT ![key] = height]
      BY <1>3, <1>4 DEF SlPut
    <1>12. height \in Nat /\ height >= 1 /\ height <= SlMaxHeight
      BY <1>7
    <1>13. HeightsOK(H2) /\ \A k \in SlKeys : H2[k] = IF k = key THEN height ELSE H[k]
      BY <1>7, <1>11, <1>12 DEF HeightsOK
    <1>14. ASSUME NEW l \in Nat
           PROVE  SlOn(H2, l) = IF l < height THEN SlOn(H, l) \cup {key} ELSE SlOn(H, l)
      <2>1. \A k \in SlKeys : k \in SlOn(H2, l) <=> IF k = key THEN height > l ELSE k \in SlOn(H, l)
        BY <1>13 DEF SlOn
      <2>2. key \notin SlOn(H, l) /\ SlOn(H, l) \subseteq SlKeys /\ SlOn(H2, l) \subseteq SlKeys
        BY <1>10 DEF SlOn
      <2>3. CASE l < height
        <3>1. height > l
          BY <1>12, <2>3
        <3>2. QED
          BY <2>1, <2>2, <2>3, <3>1
      <2>4. CASE ~ (l < height)
        <3>1. ~ (height > l)
          BY <1>12, <2>4
        <3>2. QED
          BY <2>1, <2>2, <2>4, <3>1
      <2>5. QED
        BY <2>3, <2>4
    <1>15. \A l \in M..(SlMaxHeight - 1) : SlOn(H, l) = {}
      BY <1>3, <1>5 DEF SlInv, TopOK
    <1> DEFINE before == [l \in 0..(height - 1) |-> IF l < M THEN g[l] ELSE SlHead]
    <1>16. N2 = [n \in SlNodes |-> [l \in SlLevels |->
                   IF l >= height THEN N[n][l]
                   ELSE IF n = key THEN IF l < M THEN N[before[l]][l] ELSE SlNull
                   ELSE IF n = before[l] THEN key
                   ELSE N[n][l]]]
      BY <1>1, <1>2, <1>5, <1>6 DEF SlPut, Linked
    <1>17. ASSUME NEW l \in SlLevels
           PROVE  /\ l \in Nat /\ l < SlMaxHeight
                  /\ ~ (l < height) => \A n \in SlNodes : N2[n][l] = N[n][l]
                  /\ l < height => \E p : /\ IsBefore(SlOn(H, l), key, p)
                                          /\ \A n \in SlNodes :
                                                N2[n][l] = IF n = key THEN N[p][l] ELSE IF n = p THEN key ELSE N[n][l]
      <2>1. l \in Nat /\ l < SlMaxHeight
        BY <1>7 DEF SlLevels
      <2>2. ASSUME ~ (l < height), NEW n \in SlNodes
            PROVE  N2[n][l] = N[n][l]
        <3>1. l >= height
          BY <1>12, <2>1, <2>2
        <3>2. QED
          BY <1>16, <3>1
      <2>3. ASSUME l < height
            PROVE  \E p : /\ IsBefore(SlOn(H, l), key, p)
                          /\ \A n \in SlNodes :
                                N2[n][l] = IF n = key THEN N[p][l] ELSE IF n = p THEN key ELSE N[n][l]
        <3>1. l \in 0..(height - 1) /\ ~ (l >= height)
          BY <1>12, <2>1, <2>3
        <3>2. PICK p : p = before[l]
          OBVIOUS
        <3>3. p = IF l < M THEN g[l] ELSE SlHead
          BY <3>1, <3>2
        <3>4. \A n \in SlNodes : N2[n][l] = IF n = key THEN IF l < M THEN N[p][l] ELSE SlNull
                                            ELSE IF n = p THEN key ELSE N[n][l]
          BY <1>16, <3>1, <3>2
        <3>5. CASE l < M
          <4>1. l \in 0..(M - 1)
            BY <1>7, <2>1, <3>5
          <4>2. IsBefore(SlOn(H, l), key, p)
            BY <1>8, <3>3, <3>5, <4>1
          <4>3. QED
            BY <3>4, <3>5, <4>2
        <3>6. CASE ~ (l < M)
          <4>1. l \in M..(SlMaxHeight - 1)
            BY <1>7, <2>1, <3>6
          <4>2. SlOn(H, l) = {} /\ p = SlHead
            BY <1>15, <3>3, <3>6, <4>1
          <4>3. IsBefore(SlOn(H, l), key, p)
            BY <4>2, SlTypes DEF IsBefore
          <4>4. N[p][l] = SlNull
            <5>1. LevelOK(N, l, SlOn(H, l))
              BY <1>7 DEF LevelsOK
            <5>2. IsSucc({}, p, N[p][l])
              BY <4>2, <5>1 DEF LevelOK
            <5>3. QED
              BY <5>2 DEF IsSucc
          <4>5. QED
            BY <3>4, <3>6, <4>3, <4>4
        <3>7. QED
          BY <3>5, <3>6
      <2>4. QED
        BY <2>1, <2>2, <2>3
    <1>18. LevelsOK(N2, H2)
      <2> SUFFICES ASSUME NEW l \in SlLevels
                   PROVE  LevelOK(N2, l, SlOn(H2, l))
        BY DEF LevelsOK
      <2>1. l \in Nat /\ LevelOK(N, l, SlOn(H, l)) /\ key \notin SlOn(H, l)
        <3>1. l \in Nat
          BY <1>17
        <3>2. LevelOK(N, l, SlOn(H, l))
          BY <1>7 DEF LevelsOK
        <3>3. key \notin SlOn(H, l)
          BY <1>10, <3>1 DEF SlOn
        <3>4. QED
          BY <3>1, <3>2, <3>3
      <2>2. CASE l < height
        <3>1. PICK p : /\ IsBefore(SlOn(H, l), key, p)
                       /\ \A n \in SlNodes :
                             N2[n][l] = IF n = key THEN N[p][l] ELSE IF n = p THEN key ELSE N[n][l]
          BY <1>17, <2>2
        <3>2. LevelOK(N2, l, SlOn(H, l) \cup {key})
          BY <2>1, <3>1, LinkLevel
        <3>3. QED
          BY <1>14, <2>1, <2>2, <3>2
      <2>3. CASE ~ (l < height)
        <3>1. LevelOK(N2, l, SlOn(H, l))
          BY <1>17, <2>1, <2>3, SameLevel
        <3>2. QED
          BY <1>14, <2>1, <2>3, <3>1
      <2>4. QED
        BY <2>2, <2>3
    <1>19. N2 \in [SlNodes -> [SlLevels -> SlKeys \cup {SlNull}]]
      <2>1. DOMAIN N2 = SlNodes /\ \A n \in SlNodes : DOMAIN N2[n] = SlLevels
        BY <1>16
      <2>2. ASSUME NEW n \in SlNodes, NEW l \in SlLevels
            PROVE  N2[n][l] \in SlKeys \cup {SlNull}
        <3>1. LevelOK(N2, l, SlOn(H2, l)) /\ SlOn(H2, l) \subseteq SlKeys
          BY <1>18 DEF LevelsOK, SlOn
        <3>2. CASE n \in SlOn(H2, l) \cup {SlHead}
          <4>1. IsSucc(SlOn(H2, l), n, N2[n][l])
            BY <3>1, <3>2 DEF LevelOK
          <4>2. QED
            BY <3>1, <4>1 DEF IsSucc
        <3>3. CASE n \notin SlOn(H2, l) \cup {SlHead}
          <4>1. n \in SlKeys \ SlOn(H2, l)
            BY <3>3, SlTypes
          <4>2. QED
            BY <3>1, <4>1 DEF LevelOK
        <3>4. QED
          BY <3>2, <3>3
      <2>3. N2 = [n \in SlNodes |-> N2[n]] /\ \A n \in SlNodes : N2[n] = [l \in SlLevels |-> N2[n][l]]
        BY <1>16
      <2>4. \A n \in SlNodes : N2[n] \in [SlLevels -> SlKeys \cup {SlNull}]
        BY <2>2, <2>3
      <2>5. QED
        BY <2>3, <2>4
    <1>20. PICK M2 : M2 = slMaxHeight'
      OBVIOUS
    <1>21. M2 = (IF height > M THEN height ELSE M) /\ M2 \in 1..SlMaxHeight
      BY <1>5, <1>7, <1>12, <1>20 DEF SlPut
    <1>22. TopOK(H2, M2)
      <2>1. ASSUME NEW l \in M2..(SlMaxHeight - 1)
            PROVE  SlOn(H2, l) = {}
        <3>1. l \in Nat /\ ~ (l < height) /\ l \in M..(SlMaxHeight - 1)
          BY <1>7, <1>12, <1>21
        <3>2. QED
          BY <1>14, <1>15, <3>1
      <2>2. ASSUME M2 > 1
            PROVE  SlOn(H2, M2 - 1) # {}
        <3>1. CASE height > M
          <4>1. M2 - 1 \in Nat /\ M2 - 1 < height
            BY <1>12, <1>21, <3>1
          <4>2. QED
            BY <1>14, <4>1
        <3>2. CASE ~ (height > M)
          <4>1. M2 = M /\ M - 1 \in Nat /\ M > 1
            BY <1>7, <1>21, <2>2, <3>2
          <4>2. SlOn(H, M - 1) # {}
            BY <1>3, <1>5, <4>1 DEF SlInv, TopOK
          <4>3. QED
            BY <1>14, <4>1, <4>2
        <3>3. QED
          BY <3>1, <3>2
      <2>3. QED
        BY <2>1, <2>2 DEF TopOK
    <1>23. slKeys' = SlOn(H2, 0)
      <2>1. slKeys' = slKeys \cup {key} /\ slKeys = SlOn(H, 0)
        BY <1>3 DEF SlPut, SlInv
      <2>2. 0 \in Nat /\ 0 < height
        BY <1>12
      <2>3. QED
        BY <1>14, <2>1, <2>2
    <1>24. SlTypeOK'
      BY <1>2, <1>4, <1>13, <1>19, <1>20, <1>21, <1>23 DEF SlTypeOK, HeightsOK, SlOn
    <1>25. QED
      BY <1>2, <1>4, <1>18, <1>20, <1>22, <1>23, <1>24 DEF SlInv

\* Del keeps it.
LEMMA SlDelKeeps ==
    ASSUME SlInv, NEW key \in SlKeys, SlDel(key)
    PROVE  SlInv'
    <1>1. PICK N : N = slNext
      OBVIOUS
    <1>2. PICK N2 : N2 = slNext'
      OBVIOUS
    <1>3. PICK H : H = slHeight
      OBVIOUS
    <1>4. PICK H2 : H2 = slHeight'
      OBVIOUS
    <1>5. PICK M : M = slMaxHeight
      OBVIOUS
    <1>6. PICK g : g = Prevs(key)
      OBVIOUS
    <1>7. /\ HeightsOK(H) /\ LevelsOK(N, H) /\ M \in 1..SlMaxHeight
          /\ N \in [SlNodes -> [SlLevels -> SlKeys \cup {SlNull}]]
          /\ M \in Nat /\ SlMaxHeight \in Nat /\ M >= 1 /\ M <= SlMaxHeight
          /\ \A k \in SlKeys : H[k] \in Nat
      BY <1>1, <1>3, <1>5, SlTyped
    <1>8. \A l \in 0..(M - 1) : IsBefore(SlOn(H, l), key, g[l])
      BY <1>3, <1>5, <1>6, DescentFinds
    <1>9. \A l \in M..(SlMaxHeight - 1) : SlOn(H, l) = {}
      BY <1>3, <1>5 DEF SlInv, TopOK
    <1>10. H2 = [H EXCEPT ![key] = 0]
      BY <1>3, <1>4 DEF SlDel
    <1>11. HeightsOK(H2) /\ \A k \in SlKeys : H2[k] = IF k = key THEN 0 ELSE H[k]
      BY <1>7, <1>10 DEF HeightsOK
    <1>12. ASSUME NEW l \in Nat
           PROVE  SlOn(H2, l) = SlOn(H, l) \ {key}
      <2>1. \A k \in SlKeys : k \in SlOn(H2, l) <=> k # key /\ k \in SlOn(H, l)
        <3>1. ~ (0 > l)
          OBVIOUS
        <3>2. H2[key] = 0 /\ \A k \in SlKeys : k # key => H2[k] = H[k]
          BY <1>11
        <3>3. QED
          BY <3>1, <3>2, Zenon DEF SlOn
      <2>2. SlOn(H, l) \subseteq SlKeys /\ SlOn(H2, l) \subseteq SlKeys
        BY DEF SlOn
      <2>3. QED
        BY <2>1, <2>2
    <1>13. N2 = [n \in SlNodes |-> [l \in SlLevels |->
                   IF n = key THEN SlNull
                   ELSE IF l < H[key] /\ n = g[l] THEN N[key][l]
                   ELSE N[n][l]]]
      BY <1>1, <1>2, <1>3, <1>6 DEF SlDel, Unlinked
    <1>14. LevelsOK(N2, H2)
      <2> SUFFICES ASSUME NEW l \in SlLevels
                   PROVE  LevelOK(N2, l, SlOn(H2, l))
        BY DEF LevelsOK
      <2>1. l \in Nat /\ l < SlMaxHeight /\ LevelOK(N, l, SlOn(H, l))
        BY <1>7 DEF LevelsOK, SlLevels
      <2>2. \A n \in SlNodes : N2[n][l] = IF n = key THEN SlNull
                                          ELSE IF l < H[key] /\ n = g[l] THEN N[key][l] ELSE N[n][l]
        BY <1>13
      <2>3. CASE l < H[key]
        <3>1. key \in SlOn(H, l)
          BY <1>7, <2>1, <2>3 DEF SlOn
        <3>2. l \in 0..(M - 1)
          <4>1. l \notin M..(SlMaxHeight - 1)
            BY <1>9, <3>1
          <4>2. QED
            BY <1>7, <2>1, <4>1
        <3>3. IsBefore(SlOn(H, l), key, g[l])
          BY <1>8, <3>2
        <3>4. \A n \in SlNodes : N2[n][l] = IF n = key THEN SlNull ELSE IF n = g[l] THEN N[key][l] ELSE N[n][l]
          BY <2>2, <2>3
        <3>5. LevelOK(N2, l, SlOn(H, l) \ {key})
          BY <2>1, <3>1, <3>3, <3>4, UnlinkLevel
        <3>6. QED
          BY <1>12, <2>1, <3>5
      <2>4. CASE ~ (l < H[key])
        <3>1. key \notin SlOn(H, l)
          BY <1>7, <2>1, <2>4 DEF SlOn
        <3>2. N[key][l] = SlNull
          BY <2>1, <3>1 DEF LevelOK
        <3>3. \A n \in SlNodes : N2[n][l] = N[n][l]
          BY <2>2, <2>4, <3>2
        <3>4. LevelOK(N2, l, SlOn(H, l))
          BY <2>1, <3>3, SameLevel
        <3>5. SlOn(H2, l) = SlOn(H, l)
          BY <1>12, <2>1, <3>1
        <3>6. QED
          BY <3>4, <3>5
      <2>5. QED
        BY <2>3, <2>4
    <1>15. N2 \in [SlNodes -> [SlLevels -> SlKeys \cup {SlNull}]]
      BY <1>7, <1>13, SlTypes
    <1>16. PICK r : r = slMaxHeight'
      OBVIOUS
    <1>17. IsTop(N2, M, r)
      <2>1. r = ShrinkLoop(N2, M)[M]
        BY <1>2, <1>5, <1>16, SlOperators DEF SlDel
      <2>2. QED
        BY <1>7, <2>1, ShrinkIsTop
    <1>18. r \in 1..M /\ r \in 1..SlMaxHeight /\ r \in Nat
      BY <1>7, <1>17 DEF IsTop
    <1>19. ASSUME NEW l \in SlLevels
           PROVE  N2[SlHead][l] = SlNull <=> SlOn(H2, l) = {}
      <2>1. SlOn(H2, l) \subseteq SlKeys /\ IsSucc(SlOn(H2, l), SlHead, N2[SlHead][l])
        BY <1>14 DEF LevelsOK, LevelOK
      <2>2. QED
        BY <2>1, SlTypes DEF IsSucc
    <1>20. TopOK(H2, r)
      <2>1. ASSUME NEW l \in r..(SlMaxHeight - 1)
            PROVE  SlOn(H2, l) = {}
        <3>1. l \in Nat /\ l \in SlLevels
          BY <1>7, <1>18 DEF SlLevels
        <3>2. CASE l < M
          <4>1. l \in r..(M - 1)
            BY <1>7, <1>18, <3>1, <3>2
          <4>2. QED
            BY <1>17, <1>19, <3>1, <4>1 DEF IsTop
        <3>3. CASE ~ (l < M)
          <4>1. l \in M..(SlMaxHeight - 1)
            BY <1>7, <1>18, <3>1, <3>3
          <4>2. QED
            BY <1>9, <1>12, <3>1, <4>1
        <3>4. QED
          BY <3>2, <3>3
      <2>2. ASSUME r > 1
            PROVE  SlOn(H2, r - 1) # {}
        <3>1. r - 1 \in SlLevels
          BY <1>7, <1>18, <2>2 DEF SlLevels
        <3>2. QED
          BY <1>17, <1>19, <2>2, <3>1 DEF IsTop
      <2>3. QED
        BY <2>1, <2>2 DEF TopOK
    <1>21. slKeys' = SlOn(H2, 0)
      <2>1. slKeys' = slKeys \ {key} /\ slKeys = SlOn(H, 0)
        BY <1>3 DEF SlDel, SlInv
      <2>2. QED
        BY <1>12, <2>1
    <1>22. SlTypeOK'
      BY <1>2, <1>4, <1>11, <1>15, <1>16, <1>18, <1>21 DEF SlTypeOK, HeightsOK, SlOn
    <1>23. QED
      BY <1>2, <1>4, <1>14, <1>16, <1>20, <1>21, <1>22 DEF SlInv

\* So does every step.
LEMMA SlStep == SlInv /\ [SlNext]_slVars => SlInv'
    <1> SUFFICES ASSUME SlInv, [SlNext]_slVars
                 PROVE  SlInv'
      OBVIOUS
    <1>1. CASE SlNext
      BY <1>1, SlPutKeeps, SlDelKeeps DEF SlNext
    <1>2. CASE UNCHANGED slVars
      BY <1>2 DEF SlInv, SlTypeOK, slVars
    <1>3. QED
      BY <1>1, <1>2

\* The successor, as SkipListExact writes it.
SuccessorIn(A, n) == LET above == {k \in A : k > n}
                     IN  IF above = {} THEN SlNull ELSE CHOOSE k \in above : \A j \in above : k <= j

\* It is the successor.
LEMMA SuccessorIs ==
    ASSUME NEW A \in SUBSET SlKeys, NEW n \in SlNodes, NEW s, IsSucc(A, n, s)
    PROVE  s = SuccessorIn(A, n)
    <1> DEFINE above == {k \in A : k > n}
    <1>1. SuccessorIn(A, n) = IF above = {} THEN SlNull ELSE CHOOSE k \in above : \A j \in above : k <= j
      BY Zenon DEF SuccessorIn
    <1>2. \A k : k \in above <=> k \in A /\ k > n
      OBVIOUS
    <1> HIDE DEF above
    <1>3. \A k \in A : k \in Int /\ k # SlNull
      BY SlTypes
    <1>4. CASE above = {}
      BY <1>2, <1>4, <1>1 DEF IsSucc
    <1>5. CASE above # {}
      <2>1. s \in above /\ \A j \in above : s <= j
        BY <1>2, <1>5 DEF IsSucc
      <2>2. ASSUME NEW k \in above, \A j \in above : k <= j
            PROVE  k = s
        <3>1. k <= s /\ s <= k
          BY <2>1, <2>2
        <3>2. k \in Int /\ s \in Int
          BY <1>2, <1>3, <2>1
        <3>3. QED
          BY <3>1, <3>2
      <2>3. (CHOOSE k \in above : \A j \in above : k <= j) = s
        BY <2>1, <2>2, Zenon
      <2>4. QED
        BY <1>5, <1>1, <2>3
    <1>6. QED
      BY <1>4, <1>5

\* For any keys, any maximum height and any heights drawn by Put: each level of
\* the skip list links in order exactly the nodes that reach it, max_height_ is
\* the height of the highest, and the descent finds exactly the keys that were
\* put and not deleted (SkipList::Put, Get, Del).
THEOREM SkipListStaysExact == SlSpec => []SkipListExact
    <1>1. SlInit => SlInv
      BY SlInitially
    <1>2. SlInv /\ [SlNext]_slVars => SlInv'
      BY SlStep
    <1>3. SlInv => SkipListExact
      <2> SUFFICES ASSUME SlInv
                   PROVE  SkipListExact
        OBVIOUS
      <2>1. ASSUME NEW l \in Nat
            PROVE  OnLevel(l) = SlOn(slHeight, l)
        <3>1. \A k \in SlKeys : slHeight[k] > l => slHeight[k] > 0
          BY SlTyped
        <3>2. QED
          BY <3>1 DEF OnLevel, InList, SlOn
      <2>2. InList = slKeys
        BY DEF InList, SlInv, SlOn
      <2>3. ASSUME NEW l \in SlLevels, NEW n \in OnLevel(l) \cup {SlHead}
            PROVE  slNext[n][l] = Successor(n, l)
        <3>1. l \in Nat
          BY SlAssumption DEF SlLevels
        <3>2. PICK A : A = OnLevel(l)
          OBVIOUS
        <3>3. A = SlOn(slHeight, l) /\ A \in SUBSET SlKeys
          BY <2>1, <3>1, <3>2, SlTyped
        <3>4. LevelOK(slNext, l, A)
          BY <3>3, SlTyped DEF LevelsOK
        <3>5. IsSucc(A, n, slNext[n][l]) /\ n \in SlNodes
          BY <3>2, <3>3, <3>4, SlTypes DEF LevelOK
        <3>6. slNext[n][l] = SuccessorIn(A, n)
          BY <3>3, <3>5, SuccessorIs
        <3>7. Successor(n, l) = SuccessorIn(OnLevel(l), n)
          BY Zenon DEF Successor, SuccessorIn
        <3>8. QED
          BY <3>2, <3>6, <3>7
      <2>4. slMaxHeight > 1 => OnLevel(slMaxHeight - 1) # {}
        <3>1. slMaxHeight - 1 \in Nat
          BY SlTyped
        <3>2. QED
          BY <2>1, <3>1 DEF SlInv, TopOK
      <2>5. ASSUME NEW l \in slMaxHeight..(SlMaxHeight - 1)
            PROVE  OnLevel(l) = {}
        <3>1. l \in Nat
          BY SlTyped
        <3>2. QED
          BY <2>1, <2>5, <3>1 DEF SlInv, TopOK
      <2>6. \A k \in SlKeys : SlFound(k) <=> k \in slKeys
        BY DescentFinds
      <2>7. SlTypeOK
        BY DEF SlInv
      <2>8. QED
        BY <2>2, <2>3, <2>4, <2>5, <2>6, <2>7 DEF SkipListExact
    <1>4. QED
      BY <1>1, <1>2, <1>3, PTL DEF SlSpec
=============================================================================
