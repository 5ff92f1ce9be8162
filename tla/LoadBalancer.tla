---------------------------- MODULE LoadBalancer ----------------------------
(***************************************************************************)
(* base::LoadBalancer: the four strategies that choose among the           *)
(* candidates ServiceManager::Pick has collected.  Pick runs under the     *)
(* entry's mutex, so it is one step; between two picks the candidates may  *)
(* change, since instances are ejected, restored, added and removed, and   *)
(* the cursor, a uint32_t, is not reset.                                   *)
(***************************************************************************)
EXTENDS Integers, Sequences

CONSTANTS LbLists,    \* the lists of candidates, sequences of instances
          LbWeight,   \* Endpoint::weight of each instance; 0 counts as 1
          LbHashes,   \* the hash values of the callers' keys
          LbWrap      \* 2^32: the width of cursor_

LbInstances == DOMAIN LbWeight

ASSUME LbAssumption == /\ LbLists \subseteq Seq(LbInstances)
                       /\ LbWeight \in [LbInstances -> Nat]
                       /\ LbHashes \subseteq Nat /\ LbWrap \in Nat \ {0}

VARIABLES lbStrategy,    \* LbStrategy
          lbCandidates,  \* what ServiceManager::Pick passes
          lbCursor,      \* cursor_
          lbSince        \* history: picks since an instance was picked or the list changed

lbVars == <<lbStrategy, lbCandidates, lbCursor, lbSince>>

LbStrategies == {"kLbRoundRobin", "kLbRandom", "kLbWeight", "kLbHash"}
UsesCursor == lbStrategy \in {"kLbRoundRobin", "kLbWeight"}

\* Round robin is the weighted strategy with equal weights.
WeightOf(e) == IF lbStrategy = "kLbWeight" /\ LbWeight[e] > 0 THEN LbWeight[e] ELSE 1

\* acc after the first i candidates; the last one is total_weight.
Acc(i) == LET acc[j \in 0..i] == IF j = 0 THEN 0 ELSE acc[j - 1] + WeightOf(lbCandidates[j])
          IN  acc[i]
TotalWeight == Acc(Len(lbCandidates))

-----------------------------------------------------------------------------
\* CreateLoadBalancer
LbInit == /\ lbStrategy \in LbStrategies
          /\ lbCandidates \in LbLists
          /\ lbCursor = 0
          /\ lbSince = [e \in LbInstances |-> 0]

\* The first candidate whose range of weights holds pos.
WeightedIndex_AtMost(pos) == CHOOSE i \in DOMAIN lbCandidates :
                                 pos <= Acc(i) /\ \A j \in 1..(i - 1) : Acc(j) < pos
WeightedIndex(pos) == CHOOSE i \in DOMAIN lbCandidates :
                          pos < Acc(i) /\ \A j \in 1..(i - 1) : Acc(j) <= pos

Indices == CASE UsesCursor -> {WeightedIndex(lbCursor % TotalWeight)}
             [] lbStrategy = "kLbRandom" -> DOMAIN lbCandidates
             [] lbStrategy = "kLbHash" -> {(h % Len(lbCandidates)) + 1 : h \in LbHashes}

\* Without candidates Pick returns kNotFound and changes nothing.
LbPick == /\ lbCandidates # <<>>
          /\ \E i \in Indices :
                lbSince' = IF ~ UsesCursor THEN lbSince
                           ELSE [e \in LbInstances |->
                                    IF lbCandidates[i] # e /\ \E j \in DOMAIN lbCandidates : lbCandidates[j] = e
                                    THEN lbSince[e] + 1 ELSE 0]
          /\ lbCursor' = IF UsesCursor THEN (lbCursor + 1) % LbWrap ELSE lbCursor
          /\ UNCHANGED <<lbStrategy, lbCandidates>>

\* The next Pick of the manager finds other candidates.
LbChange == /\ lbCandidates' \in LbLists \ {lbCandidates}
            /\ lbSince' = [e \in LbInstances |-> 0]
            /\ UNCHANGED <<lbStrategy, lbCursor>>

LbNext == LbPick \/ LbChange

LbSpec == LbInit /\ [][LbNext]_lbVars

-----------------------------------------------------------------------------
LbTypeOK == /\ lbStrategy \in LbStrategies /\ lbCandidates \in LbLists
            /\ lbCursor \in 0..(LbWrap - 1) /\ lbSince \in [LbInstances -> Nat]

\* While the candidates stay, the cursor strategies come back to each of them: one
\* turn of the cursor leaves an instance out for total_weight less its own
\* weight, and twice that where the uint32_t wraps in the middle of a turn or the
\* list has just changed under the cursor (RoundRobinLoadBalancer::Pick,
\* WeightedLoadBalancer::Pick).  This is what the fairness of picks in
\* ServiceManager rests on.
NoStarvation ==
    /\ LbTypeOK
    /\ UsesCursor => \A i \in DOMAIN lbCandidates :
           lbSince[lbCandidates[i]] <= 2 * (TotalWeight - WeightOf(lbCandidates[i]))

\* An instance waits for one turn at most: does not hold where cursor_ wraps.
OneTurn ==
    UsesCursor => \A i \in DOMAIN lbCandidates :
        lbSince[lbCandidates[i]] <= TotalWeight - WeightOf(lbCandidates[i])

=============================================================================
