------------------------------ MODULE SkipList ------------------------------
(***************************************************************************)
(* base::SkipList: sorted lists on several levels, each a sublist of the   *)
(* one below.  A node is named by its key, as two nodes never have the     *)
(* same one.  Head_ has a pointer on every level; max_height_, which       *)
(* equals head_->height, says how many are in use.  Values are set by Put  *)
(* and only read after that; they are left out.                            *)
(***************************************************************************)
EXTENDS Integers

CONSTANTS SlKeys,       \* a set of positive integers, compared by cmp_
          SlMaxHeight   \* kMaxHeight

ASSUME SlAssumption == SlKeys \subseteq Nat \ {0} /\ SlMaxHeight \in Nat \ {0}

VARIABLES slNext,       \* next pointers of head_ and of the nodes, per level
          slHeight,     \* height of the node of a key, 0: there is none
          slMaxHeight,  \* max_height_
          slKeys        \* history: the keys put and not deleted

slVars == <<slNext, slHeight, slMaxHeight, slKeys>>

SlHead == 0
SlNull == -1
SlNodes == SlKeys \cup {SlHead}
SlLevels == 0..(SlMaxHeight - 1)
InList == {k \in SlKeys : slHeight[k] > 0}

SlInit == /\ slNext = [n \in SlNodes |-> [l \in SlLevels |-> SlNull]]
          /\ slHeight = [k \in SlKeys |-> 0]
          /\ slMaxHeight = 1
          /\ slKeys = {}

-----------------------------------------------------------------------------
\* The last node on a level whose successor is not below the key.
LastBefore(level, key, from) ==
    LET walk[n \in SlNodes] ==
            LET next == slNext[n][level]
            IN  IF next = SlNull \/ next >= key THEN n ELSE walk[next]
    IN  walk[from]

\* prevs: the walk goes down one level where it stops.
Prevs(key) ==
    LET prevs[l \in 0..(slMaxHeight - 1)] ==
            LastBefore(l, key, IF l = slMaxHeight - 1 THEN SlHead ELSE prevs[l + 1])
    IN  prevs

\* Put and Get stop on the first level that has the key.
SlFound(key) == \E l \in 0..(slMaxHeight - 1) : slNext[Prevs(key)[l]][l] = key

\* The node is linked behind prevs, and behind head_ on the levels that are new.
Linked(key, height) ==
    LET before == [l \in 0..(height - 1) |-> IF l < slMaxHeight THEN Prevs(key)[l] ELSE SlHead]
    IN  [n \in SlNodes |-> [l \in SlLevels |->
            IF l >= height THEN slNext[n][l]
            ELSE IF n = key THEN IF l < slMaxHeight THEN slNext[before[l]][l] ELSE SlNull
            ELSE IF n = before[l] THEN key
            ELSE slNext[n][l]]]

\* kExist changes nothing.
SlPut(key, height) ==
    /\ ~ SlFound(key)
    /\ slNext' = Linked(key, height)
    /\ slHeight' = [slHeight EXCEPT ![key] = height]
    /\ slMaxHeight' = IF height > slMaxHeight THEN height ELSE slMaxHeight
    /\ slKeys' = slKeys \cup {key}

Unlinked_BottomOnly(key) ==
    LET prevs == Prevs(key)
    IN  [slNext EXCEPT ![prevs[0]][0] = slNext[key][0], ![key] = [l \in SlLevels |-> SlNull]]
Unlinked(key) ==
    LET prevs == Prevs(key)
    IN  [n \in SlNodes |-> [l \in SlLevels |->
            IF n = key THEN SlNull
            ELSE IF l < slHeight[key] /\ n = prevs[l] THEN slNext[key][l]
            ELSE slNext[n][l]]]

\* The levels at the top that have become empty are given up.
Shrunk(next) ==
    LET shrink[h \in 1..slMaxHeight] ==
            IF h > 1 /\ next[SlHead][h - 1] = SlNull THEN shrink[h - 1] ELSE h
    IN  shrink[slMaxHeight]

\* kNotFound changes nothing: the bottom list decides.
SlDel(key) ==
    /\ slNext[Prevs(key)[0]][0] = key
    /\ slNext' = Unlinked(key)
    /\ slHeight' = [slHeight EXCEPT ![key] = 0]
    /\ slMaxHeight' = Shrunk(slNext')
    /\ slKeys' = slKeys \ {key}

SlNext == \E key \in SlKeys : \/ \E height \in 1..SlMaxHeight : SlPut(key, height)
                              \/ SlDel(key)

SlSpec == SlInit /\ [][SlNext]_slVars

-----------------------------------------------------------------------------
SlTypeOK == /\ slNext \in [SlNodes -> [SlLevels -> SlKeys \cup {SlNull}]]
            /\ slHeight \in [SlKeys -> 0..SlMaxHeight]
            /\ slMaxHeight \in 1..SlMaxHeight
            /\ slKeys \subseteq SlKeys

\* The nodes a level should link: head_ and the nodes that are high enough.
OnLevel(l) == {k \in InList : slHeight[k] > l}
Successor(n, l) ==
    LET above == {k \in OnLevel(l) : k > n}
    IN  IF above = {} THEN SlNull ELSE CHOOSE k \in above : \A j \in above : k <= j

\* After any sequence of Put, with any heights, and Del, each level links in order
\* exactly the nodes that reach it, max_height_ is the height of the highest, and
\* the descent from the top finds exactly the keys that were put and not deleted
\* (SkipList::Put, Get, Del).
SkipListExact ==
    /\ SlTypeOK
    /\ InList = slKeys
    /\ \A l \in SlLevels : \A n \in OnLevel(l) \cup {SlHead} : slNext[n][l] = Successor(n, l)
    /\ slMaxHeight > 1 => OnLevel(slMaxHeight - 1) # {}
    /\ \A l \in slMaxHeight..(SlMaxHeight - 1) : OnLevel(l) = {}
    /\ \A k \in SlKeys : SlFound(k) <=> k \in slKeys

=============================================================================
