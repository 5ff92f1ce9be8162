------------------------------ MODULE LRUCache ------------------------------
(***************************************************************************)
(* store::LRUCache: a map from keys to nodes of a circular doubly linked   *)
(* list whose head is cur_list_.  A node is named by its key.  Every       *)
(* operation holds mu_, so it is one step; Init, which sets the two limits *)
(* without the lock, may be called again at run time.                      *)
(***************************************************************************)
EXTENDS Integers, Sequences, FiniteSets

CONSTANTS LruKeys, LruHead, LruFreed,
          LruLimits,    \* the values of max_num_
          LruInterval,  \* time_interval_, 0: entries do not expire
          LruMaxTime,   \* bound on the clock
          LruWrap       \* 2^64: access times are unsigned

ASSUME LruAssumption == /\ LruHead \notin LruKeys /\ LruFreed \notin LruKeys \cup {LruHead}
                        /\ LruLimits \subseteq Nat /\ LruInterval \in Nat
                        /\ LruMaxTime \in Nat /\ LruWrap > LruMaxTime

VARIABLES lruMap,    \* caches_: the keys in the map
          lruNext, lruPre,
          lruTime,   \* access_time of the nodes
          lruMax,    \* max_num_
          lruClock   \* time(NULL), which may be set back

lruVars == <<lruMap, lruNext, lruPre, lruTime, lruMax, lruClock>>

Nodes == LruKeys \cup {LruHead}
List == [next |-> lruNext, pre |-> lruPre]

LruInit == /\ lruMap = {}
           /\ lruNext = [n \in Nodes |-> IF n = LruHead THEN LruHead ELSE LruFreed]
           /\ lruPre = [n \in Nodes |-> IF n = LruHead THEN LruHead ELSE LruFreed]
           /\ lruTime = [k \in LruKeys |-> 0]
           /\ lruMax \in LruLimits
           /\ lruClock = 0

-----------------------------------------------------------------------------
RemoveHandleNode_NextOnly(l, n) == [l EXCEPT !.next[l.pre[n]] = l.next[n]]
RemoveHandleNode(l, n) == [next |-> [l.next EXCEPT ![l.pre[n]] = l.next[n]],
                           pre |-> [l.pre EXCEPT ![l.next[n]] = l.pre[n]]]

InsertHandleNode(l, n) ==
    LET first == l.next[LruHead]
    IN  [next |-> [l.next EXCEPT ![n] = first, ![LruHead] = n],
         pre |-> [l.pre EXCEPT ![n] = l.pre[first], ![first] = n]]

\* delete: the pointers of the node are not to be used again.
Free(l, n) == [next |-> [l.next EXCEPT ![n] = LruFreed], pre |-> [l.pre EXCEPT ![n] = LruFreed]]
Unlink(l, n) == Free(RemoveHandleNode(l, n), n)

\* RemoveExpiredNodes: while there are more than max_num_ entries the last
\* node of the list goes.
Trimmed_Newest(l, map) ==
    LET first == l.next[LruHead]
    IN  IF lruMax = 0 \/ Cardinality(map) <= lruMax THEN [list |-> l, map |-> map]
        ELSE [list |-> Unlink(l, first), map |-> map \ {first}]
Trimmed(l, map) ==
    LET trim[n \in 0..Cardinality(map)] ==
            IF n = 0 THEN [list |-> l, map |-> map]
            ELSE LET before == trim[n - 1]
                     last == before.list.pre[LruHead]
                 IN  IF lruMax = 0 \/ Cardinality(before.map) <= lruMax THEN before
                     ELSE [list |-> Unlink(before.list, last), map |-> before.map \ {last}]
    IN  trim[Cardinality(map)]

SetList(l) == lruNext' = l.next /\ lruPre' = l.pre

\* Put of a key that is there does not look at the limit.
LruPut(k) ==
    /\ IF k \in lruMap
       THEN /\ SetList(InsertHandleNode(RemoveHandleNode(List, k), k))
            /\ UNCHANGED lruMap
       ELSE LET r == Trimmed(InsertHandleNode(List, k), lruMap \cup {k})
            IN  SetList(r.list) /\ lruMap' = r.map
    /\ lruTime' = [lruTime EXCEPT ![k] = lruClock]
    /\ UNCHANGED <<lruMax, lruClock>>

\* The age is an unsigned difference: with the clock set back it is huge.
Stale(k) == LruInterval # 0 /\ (lruClock - lruTime[k]) % LruWrap > LruInterval

LruGet(k) ==
    LET r == Trimmed(List, lruMap)
    IN  /\ IF k \notin r.map
           THEN SetList(r.list) /\ lruMap' = r.map /\ UNCHANGED lruTime
           ELSE IF Stale(k)
           THEN SetList(Unlink(r.list, k)) /\ lruMap' = r.map \ {k} /\ UNCHANGED lruTime
           ELSE /\ SetList(InsertHandleNode(RemoveHandleNode(r.list, k), k))
                /\ lruMap' = r.map
                /\ lruTime' = [lruTime EXCEPT ![k] = lruClock]
        /\ UNCHANGED <<lruMax, lruClock>>

LruDel(k) == /\ k \in lruMap
             /\ SetList(Unlink(List, k))
             /\ lruMap' = lruMap \ {k}
             /\ UNCHANGED <<lruTime, lruMax, lruClock>>

\* Init called again.
LruSetLimit == /\ lruMax' \in LruLimits
               /\ UNCHANGED <<lruMap, lruNext, lruPre, lruTime, lruClock>>

LruClockMoves == /\ lruClock' \in 0..LruMaxTime
                 /\ UNCHANGED <<lruMap, lruNext, lruPre, lruTime, lruMax>>

LruNextStep == \/ \E k \in LruKeys : LruPut(k) \/ LruGet(k) \/ LruDel(k)
               \/ LruSetLimit \/ LruClockMoves
LruSpec == LruInit /\ [][LruNextStep]_lruVars

-----------------------------------------------------------------------------
LruTypeOK == /\ lruMap \subseteq LruKeys
             /\ lruNext \in [Nodes -> Nodes \cup {LruFreed}]
             /\ lruPre \in [Nodes -> Nodes \cup {LruFreed}]
             /\ lruTime \in [LruKeys -> 0..LruMaxTime]
             /\ lruMax \in LruLimits
             /\ lruClock \in 0..LruMaxTime

\* The keys met when the list is followed from the head, n steps at most.
WalkNext == LET n == Cardinality(lruMap)
                at[i \in 0..n] == IF i = 0 THEN LruHead ELSE lruNext[at[i - 1]]
            IN  [i \in 1..n |-> at[i]]
WalkPre == LET n == Cardinality(lruMap)
               at[i \in 0..n] == IF i = 0 THEN LruHead ELSE lruPre[at[i - 1]]
           IN  [i \in 1..n |-> at[i]]

\* The list is one ring: followed forward it meets every key of the map once
\* and returns to the head, followed backward it meets them in the reverse
\* order, and no pointer of the ring leads to a deleted node.
ListMatchesMap ==
    LET n == Cardinality(lruMap)
    IN  /\ LruTypeOK
        /\ {WalkNext[i] : i \in 1..n} = lruMap
        /\ \A i \in 1..n : WalkPre[i] = WalkNext[n + 1 - i]
        /\ (IF n = 0 THEN lruNext[LruHead] ELSE lruNext[WalkNext[n]]) = LruHead
        /\ (IF n = 0 THEN lruPre[LruHead] ELSE lruPre[WalkPre[n]]) = LruHead

\* The cache is a recency list: whatever the pointers do, the entries are in
\* the order of their last use and the ones evicted are the least recently used.
LruList == INSTANCE RecencyList WITH RlKeys <- LruKeys, order <- WalkNext, limit <- lruMax
LRUCacheImplementsRecencyList == LruList!RlSpec

\* An entry that was just used is not expired by a later Get while less than
\* the interval has passed on a clock that moves either way.
FreshNeverStale == \A k \in lruMap : lruTime[k] > lruClock => ~Stale(k)
=============================================================================
