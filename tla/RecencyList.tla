---------------------------- MODULE RecencyList ----------------------------
(***************************************************************************)
(* What a cache that evicts the least recently used entry promises: its    *)
(* keys in the order of their last use, the latest first, each once.  A    *)
(* use moves a key to the front; an insertion or a lookup cuts the list to *)
(* the limit, from the end; a deletion or an expiry takes one key out.     *)
(***************************************************************************)
EXTENDS Integers, Sequences

CONSTANT RlKeys

VARIABLES order, limit   \* limit 0: no limit on the number of entries

RlIn(s, k) == \E i \in DOMAIN s : s[i] = k
RlWithout(s, k) == LET p == CHOOSE i \in DOMAIN s : s[i] = k
                   IN  IF RlIn(s, k) THEN [j \in 1..(Len(s) - 1) |-> s[IF j < p THEN j ELSE j + 1]]
                       ELSE s
RlTrim(s) == IF limit # 0 /\ Len(s) > limit THEN SubSeq(s, 1, limit) ELSE s

RlInit == order = <<>>
RlOverwrite(k) == RlIn(order, k) /\ order' = <<k>> \o RlWithout(order, k)
RlInsert(k) == ~RlIn(order, k) /\ order' = RlTrim(<<k>> \o order)
RlLookup(k) == LET s == RlTrim(order)
               IN  order' = IF RlIn(s, k) THEN <<k>> \o RlWithout(s, k) ELSE s
RlRemove(k) == order' = RlWithout(RlTrim(order), k) \/ order' = RlWithout(order, k)

RlNext == \E k \in RlKeys : \/ RlOverwrite(k) \/ RlInsert(k) \/ RlLookup(k) \/ RlRemove(k)
RlSpec == RlInit /\ [][RlNext]_order
=============================================================================
