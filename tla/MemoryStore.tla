---------------------------- MODULE MemoryStore ----------------------------
(***************************************************************************)
(* MemoryStore, the long-term memories of the agent over LevelDB: an item  *)
(* and an index entry for each memory, whose key holds the time of its     *)
(* creation and so never changes.  An operation holds mu_ to its end; a    *)
(* crash leaves the first of its writes.                                   *)
(*                                                                         *)
(* A text is what Normalize makes of it (MmNorms) and how it was spelled   *)
(* (MmSpellings): two texts are the same memory when their norms agree.    *)
(***************************************************************************)
EXTENDS Integers, FiniteSets

CONSTANTS MmMaxItems, MmNorms, MmSpellings

ASSUME MmAssumption == MmMaxItems \in Nat /\ "none" \notin MmNorms

VARIABLES mmItems,   \* mem:item:{id}
          mmIdx,     \* the ids of the mem:idx keys
          mmMade,    \* ids given out
          mmPatched  \* memories whose text was changed

mmVars == <<mmItems, mmIdx, mmMade, mmPatched>>

MmIds == 1..MmMaxItems
Texts == [norm : MmNorms, spelling : MmSpellings]
NoItem == [norm |-> "none", spelling |-> "none"]
Stored(id) == mmItems[id] # NoItem

MmInit == mmItems = [id \in MmIds |-> NoItem] /\ mmIdx = {} /\ mmMade = 0 /\ mmPatched = {}

\* Create returns kExist for a text that an indexed memory has.  Otherwise the item is
\* put, and then its index entry: n of the two writes are done.
MemoryCreate(text) ==
    LET id == mmMade + 1
    IN  /\ id \in MmIds
        /\ ~ \E e \in mmIdx : Stored(e) /\ mmItems[e].norm = text.norm
        /\ mmMade' = id
        /\ \E n \in 1..2 : /\ mmItems' = [mmItems EXCEPT ![id] = text]
                           /\ mmIdx' = IF n = 2 THEN mmIdx \cup {id} ELSE mmIdx
        /\ UNCHANGED mmPatched

\* Patch does not look for another memory with the new text.
MemoryPatch(id, text) ==
    /\ Stored(id)
    /\ mmItems' = [mmItems EXCEPT ![id] = text]
    /\ mmPatched' = mmPatched \cup {id}
    /\ UNCHANGED <<mmIdx, mmMade>>

\* Delete: the index entry, then the item.
MemoryDelete_ItemFirst(id) ==
    /\ Stored(id)
    /\ \E n \in 1..2 : /\ mmItems' = [mmItems EXCEPT ![id] = NoItem]
                       /\ mmIdx' = IF n = 2 THEN mmIdx \ {id} ELSE mmIdx
    /\ UNCHANGED <<mmMade, mmPatched>>
MemoryDelete(id) ==
    /\ Stored(id)
    /\ \E n \in 1..2 : /\ mmIdx' = mmIdx \ {id}
                       /\ mmItems' = IF n = 2 THEN [mmItems EXCEPT ![id] = NoItem] ELSE mmItems
    /\ UNCHANGED <<mmMade, mmPatched>>

MmNext == \/ \E text \in Texts : MemoryCreate(text)
          \/ \E id \in MmIds : MemoryDelete(id) \/ \E text \in Texts : MemoryPatch(id, text)
MmSpec == MmInit /\ [][MmNext]_mmVars

-----------------------------------------------------------------------------
\* Every variable keeps its type.
MmTypeOK == /\ mmItems \in [MmIds -> Texts \cup {NoItem}]
            /\ mmIdx \subseteq MmIds /\ mmPatched \subseteq MmIds
            /\ mmMade \in 0..MmMaxItems

\* Wherever a crash cuts an operation, every index entry has its item, so List misses
\* none it announces; and two listed memories have the same text, up to Normalize,
\* only if one of them was patched.
MemoriesConsistent ==
    /\ MmTypeOK
    /\ \A id \in mmIdx : Stored(id)
    /\ \A i, j \in mmIdx \ mmPatched : mmItems[i].norm = mmItems[j].norm => i = j

=============================================================================
