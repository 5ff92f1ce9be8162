----------------------------- MODULE EventPoll -----------------------------
(***************************************************************************)
(* EventLoop over EventPoll, the back end used where there is no epoll: an *)
(* array of descriptors handed to poll, in which Del leaves a hole and     *)
(* Balance moves the holes to the end; GetEvents walks the same array      *)
(* while the callbacks of the events it reports add, change and delete     *)
(* descriptors, also ones that are closed and used again in between.       *)
(* One thread runs the loop and all the callbacks.                         *)
(***************************************************************************)
EXTENDS Integers, Sequences, FiniteSets

CONSTANTS EpFds,
          EpSize    \* all_num_of_pfds_

ASSUME EpAssumption == EpFds \subseteq Nat /\ EpSize \in Nat \ {0}

VARIABLES epSlots,   \* pfds_: the descriptor, -1 for a hole, and whether revents # 0
          epUsed, epDel,      \* used_num_of_pfds_, del_num_of_pfds_
          epEvents, epTaken, epAt,  \* evt_num_, cur_evt_num_, cur_idx_of_pfds_
          epActions, \* the descriptors of actions_
          epPc,      \* outside a callback: "wait", "events"; inside one: "callback"
          epOut,     \* the descriptor last reported
          epPolled   \* descriptors watched since before the last poll

epVars == <<epSlots, epUsed, epDel, epEvents, epTaken, epAt, epActions, epPc, epOut, epPolled>>

\* memset(-1): no descriptor, and every bit of revents
Hole == [fd |-> -1, ready |-> TRUE]
EpIdx == 0..(EpSize - 1)
InUse == {i \in EpIdx : i < epUsed}
SlotsOf(fd) == {i \in InUse : epSlots[i].fd = fd}

\* EventPoll::Create; descriptors are added before the loop runs.
EpInit == /\ epSlots = [i \in EpIdx |-> Hole]
          /\ epUsed = 0 /\ epDel = 0 /\ epEvents = 0 /\ epTaken = 0 /\ epAt = 0
          /\ epActions = {} /\ epPc = "callback" /\ epOut = -1 /\ epPolled = {}

-----------------------------------------------------------------------------
\* Balance: holes from the front are swapped with descriptors from the back.  The
\* swapped slots keep their revents.  A round of its loop swaps one pair, and
\* nothing once every hole is behind every descriptor.
BalanceRound(slots, used) ==
    LET holes == {i \in 0..(used - 1) : slots[i].fd = -1}
        full == {i \in 0..(used - 1) : slots[i].fd # -1}
        lo == CHOOSE i \in holes : \A j \in holes : i <= j
        hi == CHOOSE i \in full : \A j \in full : i >= j
    IN  IF holes = {} \/ full = {} THEN slots
        ELSE IF lo > hi THEN slots
        ELSE [slots EXCEPT ![lo] = slots[hi], ![hi] = slots[lo]]
Swapped(slots, used) ==
    LET after[n \in 0..used] == IF n = 0 THEN slots ELSE BalanceRound(after[n - 1], used)
    IN  after[used]

\* EventPoll::Add, after the scan for the descriptor: a table that is full of holes
\* is balanced, the new slot has no event yet.
NewSlot_KeepsRevents(old, fd) == [fd |-> fd, ready |-> old.ready]
NewSlot(old, fd) == [fd |-> fd, ready |-> FALSE]
\* Balance leaves no hole in the part in use.
HolesLeft(balance) == IF balance THEN 0 ELSE epDel
EpAdd(fd) ==
    LET balance == epDel > 0 /\ epUsed >= EpSize
        slots == IF balance THEN Swapped(epSlots, epUsed) ELSE epSlots
        used == IF balance THEN epUsed - epDel ELSE epUsed
        room == used < EpSize
    IN  /\ epPc = "callback"
        /\ SlotsOf(fd) = {}
        /\ epSlots' = IF room THEN [slots EXCEPT ![used] = NewSlot(@, fd)] ELSE slots
        /\ epUsed' = IF room THEN used + 1 ELSE used
        /\ epDel' = HolesLeft(balance)
        /\ epActions' = IF room THEN epActions \cup {fd} ELSE epActions
        /\ UNCHANGED <<epEvents, epTaken, epAt, epPc, epOut, epPolled>>

\* EventLoop::Del: EventPoll::Del makes the first slot of the descriptor a hole, then
\* the action is forgotten.
EpDelete(fd) ==
    /\ epPc = "callback" /\ SlotsOf(fd) # {}
    /\ LET i == CHOOSE i \in SlotsOf(fd) : \A j \in SlotsOf(fd) : i <= j
       IN  epSlots' = [epSlots EXCEPT ![i].fd = -1]
    /\ epDel' = epDel + 1
    /\ epActions' = epActions \ {fd}
    /\ epPolled' = epPolled \ {fd}
    /\ UNCHANGED <<epUsed, epEvents, epTaken, epAt, epPc, epOut>>

\* The callback returns to EventLoop::Run.
EpReturn == /\ epPc = "callback"
            /\ epPc' = IF epOut = -1 THEN "wait" ELSE "events"
            /\ UNCHANGED <<epSlots, epUsed, epDel, epEvents, epTaken, epAt, epActions, epOut, epPolled>>

\* EventPoll::Wait: the table is balanced and polled; poll writes revents of every
\* slot.  Without events, or after an error, Run waits again.
EpWait ==
    LET slots == IF epDel > 0 THEN Swapped(epSlots, epUsed) ELSE epSlots
        used == epUsed - epDel
    IN  /\ epPc = "wait"
        /\ epDel' = 0 /\ epUsed' = used
        /\ \E ready \in SUBSET {slots[i].fd : i \in {j \in EpIdx : j < used}} :
              /\ epSlots' = [i \in EpIdx |-> IF i < used THEN [slots[i] EXCEPT !.ready = slots[i].fd \in ready]
                                             ELSE slots[i]]
              /\ epEvents' = Cardinality(ready)
              /\ IF ready = {} THEN UNCHANGED <<epTaken, epAt, epPc>>
                               ELSE epTaken' = 0 /\ epAt' = 0 /\ epPc' = "events"
        /\ epPolled' = {slots[i].fd : i \in {j \in EpIdx : j < used}}
        /\ UNCHANGED <<epActions, epOut>>

\* EventPoll::GetEvents: the next slot with an event, up to the number poll counted.
NextReady(i) == {j \in InUse : j >= i /\ epSlots[j].fd # -1 /\ epSlots[j].ready}
EpGetEvents ==
    LET found == IF epTaken < epEvents THEN NextReady(epAt) ELSE {}
        i == CHOOSE i \in found : \A j \in found : i <= j
    IN  /\ epPc = "events"
        /\ IF found = {}
             THEN /\ epPc' = "wait"
                  /\ epAt' = IF epTaken < epEvents /\ epAt < epUsed THEN epUsed ELSE epAt
                  /\ UNCHANGED <<epTaken, epOut>>
             ELSE /\ epOut' = epSlots[i].fd
                  /\ epAt' = i + 1 /\ epTaken' = epTaken + 1
                  /\ epPc' = IF epSlots[i].fd \in epActions THEN "callback" ELSE "events"
        /\ UNCHANGED <<epSlots, epUsed, epDel, epEvents, epActions, epPolled>>

EpNext == \/ \E fd \in EpFds : EpAdd(fd) \/ EpDelete(fd)
          \/ EpReturn \/ EpWait \/ EpGetEvents
EpSpec == EpInit /\ [][EpNext]_epVars

-----------------------------------------------------------------------------
\* Every variable keeps its type, and the counters stay within the array.
EpTypeOK ==
    /\ epSlots \in [EpIdx -> [fd : EpFds \cup {-1}, ready : BOOLEAN]]
    /\ epUsed \in 0..EpSize /\ epDel \in 0..epUsed
    /\ epEvents \in 0..EpSize /\ epTaken \in 0..EpSize /\ epAt \in 0..EpSize
    /\ epActions \subseteq EpFds /\ epPolled \subseteq EpFds
    /\ epPc \in {"wait", "events", "callback"} /\ epOut \in EpFds \cup {-1}

\* The array holds every descriptor of actions_ once and no other, and as many holes
\* as del_num_of_pfds_ says, although both are changed while the array is walked.
TableExact ==
    /\ {epSlots[i].fd : i \in InUse} \ {-1} = epActions
    /\ \A i, j \in InUse : (i # j /\ epSlots[i].fd # -1) => epSlots[i].fd # epSlots[j].fd
    /\ Cardinality(SlotsOf(-1)) = epDel

\* An event that is reported is one that poll saw on the descriptor as it is now
\* registered: never the event of a descriptor with the same number that was deleted
\* by an earlier callback of the round, nor one left in a slot that is used again;
\* and the table stays exact meanwhile.
NoStaleEvent == [][/\ EpTypeOK' /\ TableExact'
                   /\ epTaken' > epTaken => epOut' \in epPolled]_epVars

=============================================================================
