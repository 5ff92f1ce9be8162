----------------------------- MODULE MCStores -----------------------------
(***************************************************************************)
(* Finite instances of the data structures and algorithms: the two         *)
(* databases, the LRU cache, the red-black tree, the skip list and the     *)
(* elevator's orders.  Each is checked by itself: the subject is drawn in  *)
(* the initial state and only its component moves.                         *)
(***************************************************************************)
EXTENDS BitCaskDB, HashDB, LRUCache, RbTree, SkipList, Elevator

CONSTANTS k1, k2, k3, v1

\* Two keys share a slot of the directory.
MCSlots == [k \in {k1, k2, k3} |-> IF k = k3 THEN 2 ELSE 1]

VARIABLE subject

Subjects == {"bitcask", "hash", "lru", "rbtree", "skiplist", "elevator"}
storeVars == <<subject, bcVars, hdVars, lruVars, rbVars, slVars, elVars>>

StoreInit == /\ subject \in Subjects
             /\ BcInit /\ HdInit /\ LruInit /\ RbInit /\ SlInit
             /\ subject # "lru" => lruMax = 1
             /\ IF subject = "elevator" THEN ElInit ELSE elArgs = {} /\ elResult = ElNone

StoreNext ==
    /\ UNCHANGED subject
    /\ \/ /\ subject = "bitcask" /\ BcNext
          /\ UNCHANGED <<hdVars, lruVars, rbVars, slVars, elVars>>
       \/ /\ subject = "hash" /\ HdNext
          /\ UNCHANGED <<bcVars, lruVars, rbVars, slVars, elVars>>
       \/ /\ subject = "lru" /\ LruNextStep
          /\ UNCHANGED <<bcVars, hdVars, rbVars, slVars, elVars>>
       \/ /\ subject = "rbtree" /\ RbNext
          /\ UNCHANGED <<bcVars, hdVars, lruVars, slVars, elVars>>
       \/ /\ subject = "skiplist" /\ SlNext
          /\ UNCHANGED <<bcVars, hdVars, lruVars, rbVars, elVars>>
       \/ /\ subject = "elevator" /\ ElNext
          /\ UNCHANGED <<bcVars, hdVars, lruVars, rbVars, slVars>>

StoreSpec == StoreInit /\ [][StoreNext]_storeVars

=============================================================================
