------------------------------- MODULE HashDB -------------------------------
(***************************************************************************)
(* store::HashDB: a directory of hash slots, each the head of a chain of   *)
(* buckets in the index file, and the records themselves in a data file    *)
(* that only grows.  Positions in the files are indices of hdBuckets and   *)
(* hdData; 0 is the end of a chain.  The comparison of a bucket with a key *)
(* (hash, size, prefix, then the key in the data file) is equality.        *)
(*                                                                         *)
(* Both files are written through stdio.  Every fseek on the index file    *)
(* flushes what was written to it before; the data file is flushed only at *)
(* the end of the call.  A process that dies inside Put therefore leaves,  *)
(* in this order of progress: the new bucket alone ("bucket"), the index   *)
(* pointing to a record that is not there ("pointer"), or everything but   *)
(* the counters ("data").                                                  *)
(***************************************************************************)
EXTENDS Integers, Sequences, FiniteSets

CONSTANTS HdKeys, HdValues, HdNoValue,
          HdSlots, HdSlot,  \* hash_dir and the slot of each key
          HdMaxBuckets, HdMaxData, \* bounds on the two files
          HdWrap            \* 2^32: used_cnt is unsigned

ASSUME HdAssumption == /\ HdSlot \in [HdKeys -> HdSlots]
                       /\ HdMaxBuckets \in Nat /\ HdMaxData \in Nat
                       /\ HdWrap \in Nat /\ HdWrap > HdMaxBuckets

VARIABLES hdUp, hdDir, hdBuckets, hdData,
          hdInfo,  \* used_cnt in the index file
          hdUsed,  \* used_cnt in memory
          hdCut,   \* some call was cut by the end of the process
          hdLost   \* the keys whose record was lost so, with what they had before

hdVars == <<hdUp, hdDir, hdBuckets, hdData, hdInfo, hdUsed, hdCut, hdLost>>

HdRecord == [key : HdKeys, val : HdValues, ver : Nat]
HdBucket == [key : HdKeys, ver : Nat, next : 0..HdMaxBuckets, data : 1..HdMaxData]
NotLost == [val |-> HdNoValue, ver |-> -1]

HdInit == /\ hdUp = TRUE
          /\ hdDir = [s \in HdSlots |-> 0]
          /\ hdBuckets = <<>> /\ hdData = <<>>
          /\ hdInfo = 0 /\ hdUsed = 0
          /\ hdCut = FALSE
          /\ hdLost = [k \in HdKeys |-> NotLost]

-----------------------------------------------------------------------------
\* The walk along a chain: the position after i steps.
NextOf(p) == IF p = 0 THEN 0 ELSE hdBuckets[p].next
ChainAt(s) == LET at[i \in 0..Len(hdBuckets)] == IF i = 0 THEN hdDir[s] ELSE NextOf(at[i - 1])
              IN  at
InChain(s) == LET at == ChainAt(s) IN {at[i] : i \in 0..Len(hdBuckets)} \ {0}

\* What the walk finds: the bucket of the key, the bucket before it, and the
\* last bucket of the chain (0 where there is none).
FoundAt(k) == LET hits == {p \in InChain(HdSlot[k]) : hdBuckets[p].key = k}
              IN  IF hits = {} THEN 0 ELSE CHOOSE p \in hits : TRUE
Before(s, p) == LET pre == {q \in InChain(s) : hdBuckets[q].next = p}
                IN  IF pre = {} THEN 0 ELSE CHOOSE q \in pre : TRUE
\* The record read through a bucket must be there and belong to the key; a
\* short read or a record that does not fit is an error of every call.
Readable(p) == LET d == hdBuckets[p].data
               IN  d <= Len(hdData) /\ hdData[d].key = hdBuckets[p].key

VersionOf(k) == LET p == FoundAt(k) IN IF p = 0 THEN 0 ELSE hdBuckets[p].ver
\* Get: the value and the version of the record.
Lookup(k) == LET p == FoundAt(k)
             IN  IF p = 0 THEN [val |-> HdNoValue, ver |-> 0]
                 ELSE [val |-> hdData[hdBuckets[p].data].val, ver |-> hdData[hdBuckets[p].data].ver]

\* The counters are written last; a call that was cut leaves the old ones in
\* the file, and the next Init reads those.
Counters(used, cut) == IF cut THEN /\ hdUp' = FALSE /\ hdCut' = TRUE
                                   /\ hdUsed' = 0 /\ UNCHANGED hdInfo
                       ELSE /\ hdUsed' = used % HdWrap /\ hdInfo' = hdUsed'
                            /\ UNCHANGED <<hdCut, hdUp>>

\* A directory entry or a bucket is made to point to p.
LinkFrom(k, pre, p) == IF pre = 0 THEN /\ hdDir' = [hdDir EXCEPT ![HdSlot[k]] = p]
                                       /\ UNCHANGED hdBuckets
                       ELSE /\ hdBuckets' = [hdBuckets EXCEPT ![pre].next = p]
                            /\ UNCHANGED hdDir

\* Put on a key that exists: a new record, the bucket rewritten in place.
PutExisting(k, v, version, progress) ==
    LET p == FoundAt(k)
        ver == hdBuckets[p].ver + 1
    IN  /\ p # 0 /\ Readable(p)
        /\ version \in {-1, hdBuckets[p].ver}
        /\ Len(hdData) < HdMaxData
        /\ progress # "bucket"
        /\ hdBuckets' = [hdBuckets EXCEPT ![p].ver = ver, ![p].data = Len(hdData) + 1]
        /\ hdData' = IF progress = "pointer" THEN hdData
                     ELSE Append(hdData, [key |-> k, val |-> v, ver |-> ver])
        /\ hdLost' = IF progress = "pointer" THEN [hdLost EXCEPT ![k] = Lookup(k)] ELSE hdLost
        /\ Counters(hdUsed, progress # "done")
        /\ UNCHANGED hdDir

\* Put on a new key: a new record, a new bucket, linked at the end of the chain.
PutNew_NoWalk(k, v, version, progress) ==
    LET p == Len(hdBuckets) + 1
    IN  /\ version = -1 /\ progress = "done" /\ Len(hdData) < HdMaxData /\ p <= HdMaxBuckets
        /\ hdBuckets' = Append(hdBuckets, [key |-> k, ver |-> 1, next |-> hdDir[HdSlot[k]],
                                           data |-> Len(hdData) + 1])
        /\ hdDir' = [hdDir EXCEPT ![HdSlot[k]] = p]
        /\ hdData' = Append(hdData, [key |-> k, val |-> v, ver |-> 1])
        /\ UNCHANGED hdLost /\ Counters(hdUsed + 1, FALSE)
PutNew(k, v, version, progress) ==
    LET p == Len(hdBuckets) + 1
        bucket == [key |-> k, ver |-> 1, next |-> 0, data |-> Len(hdData) + 1]
        last == Before(HdSlot[k], 0)
    IN  /\ FoundAt(k) = 0
        /\ version \in {-1, 0}
        /\ Len(hdData) < HdMaxData /\ p <= HdMaxBuckets
        /\ hdBuckets' = [i \in 1..p |->
              IF i = p THEN bucket
              ELSE IF i = last /\ progress # "bucket" THEN [hdBuckets[i] EXCEPT !.next = p]
              ELSE hdBuckets[i]]
        /\ hdDir' = IF last = 0 /\ progress # "bucket" THEN [hdDir EXCEPT ![HdSlot[k]] = p]
                    ELSE hdDir
        /\ hdData' = IF progress \in {"bucket", "pointer"} THEN hdData
                     ELSE Append(hdData, [key |-> k, val |-> v, ver |-> 1])
        /\ hdLost' = IF progress = "pointer" THEN [hdLost EXCEPT ![k] = Lookup(k)] ELSE hdLost
        /\ Counters(hdUsed + 1, progress # "done")

HdPut(k, v, version) ==
    /\ hdUp
    /\ \E progress \in {"bucket", "pointer", "data", "done"} :
          PutExisting(k, v, version, progress) \/ PutNew(k, v, version, progress)

\* Del unlinks the bucket, which is never used again.
HdDel_FromHead(k, version) ==
    LET p == FoundAt(k)
    IN  /\ hdUp /\ p # 0 /\ Readable(p) /\ version \in {-1, hdBuckets[p].ver}
        /\ hdDir' = [hdDir EXCEPT ![HdSlot[k]] = hdBuckets[p].next]
        /\ Counters(hdUsed - 1, FALSE)
        /\ UNCHANGED <<hdBuckets, hdData, hdLost>>
HdDel(k, version) ==
    LET p == FoundAt(k)
    IN  /\ hdUp /\ p # 0 /\ Readable(p)
        /\ version \in {-1, hdBuckets[p].ver}
        /\ LinkFrom(k, Before(HdSlot[k], p), hdBuckets[p].next)
        /\ \E cut \in BOOLEAN : Counters(hdUsed - 1, cut)
        /\ UNCHANGED <<hdData, hdLost>>

HdStop == /\ hdUp /\ hdUp' = FALSE /\ hdUsed' = 0
          /\ UNCHANGED <<hdDir, hdBuckets, hdData, hdInfo, hdCut, hdLost>>

\* Init on existing files reads the counters, nothing else.
HdReopen == /\ ~hdUp /\ hdUp' = TRUE /\ hdUsed' = hdInfo
            /\ UNCHANGED <<hdDir, hdBuckets, hdData, hdInfo, hdCut, hdLost>>

HdNext == \/ \E k \in HdKeys : \E version \in {-1, VersionOf(k)} :
                \/ \E v \in HdValues : HdPut(k, v, version)
                \/ HdDel(k, version)
          \/ HdStop \/ HdReopen

HdSpec == HdInit /\ [][HdNext]_hdVars

-----------------------------------------------------------------------------
HdTypeOK == /\ hdUp \in BOOLEAN /\ hdCut \in BOOLEAN
            /\ hdDir \in [HdSlots -> 0..HdMaxBuckets]
            /\ hdBuckets \in Seq(HdBucket) /\ Len(hdBuckets) <= HdMaxBuckets
            /\ hdData \in Seq(HdRecord) /\ Len(hdData) <= HdMaxData
            /\ hdInfo \in 0..(HdWrap - 1) /\ hdUsed \in 0..(HdWrap - 1)
            /\ \A k \in HdKeys : hdLost[k].ver \in Nat \cup {-1}

IsLost(k) == hdLost[k] # NotLost

\* As long as no call was cut, used_cnt is the number of keys in the store.
UsedCountExact == hdUp /\ ~hdCut =>
                     hdUsed = Cardinality(UNION {InChain(s) : s \in HdSlots})

\* The index stays a set of proper chains, wherever the process died: every
\* chain ends, holds only keys of its slot, each key once, and the record of
\* a bucket is the one with its key and version unless a crash lost it; and
\* used_cnt counts the keys.
ChainsProper ==
    /\ HdTypeOK /\ UsedCountExact
    /\ \A s \in HdSlots :
          /\ ChainAt(s)[Len(hdBuckets)] = 0
          /\ \A p \in InChain(s) :
                /\ HdSlot[hdBuckets[p].key] = s
                /\ FoundAt(hdBuckets[p].key) = p
                /\ ~IsLost(hdBuckets[p].key) =>
                      Readable(p) /\ hdData[hdBuckets[p].data].ver = hdBuckets[p].ver

\* HashDB implements DBBase on every key that no crash has lost: a crash hurts
\* at most the key being put, and neither a crash nor a restart changes what
\* Get returns for any other.
HdDB == INSTANCE DBBase WITH DbKeys <- HdKeys, DbValues <- HdValues, DbNoValue <- HdNoValue,
                             cells <- [k \in HdKeys |-> IF IsLost(k) THEN hdLost[k] ELSE Lookup(k)]
HashDBImplementsDBBase == HdDB!DbSpec

\* No key is ever lost.
NoKeyLost == \A k \in HdKeys : ~IsLost(k)
\* used_cnt never exceeds the number of buckets, so it never wrapped.
UsedCountNeverWraps == hdUsed <= HdMaxBuckets
=============================================================================
