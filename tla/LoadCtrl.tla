----------------------------- MODULE LoadCtrl -----------------------------
(***************************************************************************)
(* LoadCtrl, the flow control of a server's worker: requests are counted   *)
(* in a ring of grids of LcUnit each, and a request is refused while the   *)
(* ring, which spans LcTotal, counts more than LcMax.  The caller reads    *)
(* the clock before it asks; the answer is given under mu_.                *)
(* The time that has passed is truncated to an int: LcWrap values.         *)
(***************************************************************************)
EXTENDS Integers, Sequences, FiniteSets

CONSTANTS LcCallers, LcUnit, LcTotal, LcMax,
          LcMaxTime,   \* how long the clock runs
          LcWrap       \* 2^32 microseconds

ASSUME LcAssumption == /\ LcUnit \in Nat \ {0} /\ LcTotal \in Nat \ {0} /\ LcMax \in Nat \ {0}
                       /\ LcWrap \in Nat \ {0} /\ LcMaxTime \in Nat

LcTimes == 0..LcMaxTime
LcNum == (LcTotal + LcUnit - 1) \div LcUnit    \* grids_num_
LcGrids == 0..(LcNum - 1)
NoCall == -1

VARIABLES lcClock, lcStart, lcGrid, lcAt,
          lcSum,       \* cur_num_of_all_spin_
          lcNow,       \* the time each caller has read, or NoCall
          lcAdmitted,  \* history: the readings with which requests were admitted
          lcRefused    \* the reading with which the last request was refused, or NoCall

lcVars == <<lcClock, lcStart, lcGrid, lcAt, lcSum, lcNow, lcAdmitted, lcRefused>>

\* The constructor and Init.
LcInit == /\ lcClock = 0 /\ lcStart = 0
          /\ lcGrid = [g \in LcGrids |-> 0] /\ lcAt = 0 /\ lcSum = 0
          /\ lcNow = [c \in LcCallers |-> NoCall]
          /\ lcAdmitted = <<>>
          /\ lcRefused = NoCall

LcTick == /\ lcClock < LcMaxTime
          /\ lcClock' = lcClock + 1
          /\ UNCHANGED <<lcStart, lcGrid, lcAt, lcSum, lcNow, lcAdmitted, lcRefused>>

LcAsk(c) == /\ lcNow[c] = NoCall
            /\ lcNow' = [lcNow EXCEPT ![c] = lcClock]
            /\ UNCHANGED <<lcClock, lcStart, lcGrid, lcAt, lcSum, lcAdmitted, lcRefused>>

-----------------------------------------------------------------------------
\* move_us, an int.
Moved(now) == ((now - lcStart + LcWrap \div 2) % LcWrap) - LcWrap \div 2

\* move_num, and one round of the loop: the next grid is emptied and becomes the current one.
Moves_OneMore(moved) == IF moved > LcUnit THEN moved \div LcUnit + 1 ELSE 0
Moves(moved) == IF moved > LcUnit THEN moved \div LcUnit ELSE 0
NextGrid(ring) == LET at == (ring.at + 1) % LcNum
                  IN  [grid |-> [ring.grid EXCEPT ![at] = 0], at |-> at, sum |-> ring.sum - ring.grid[at]]

\* UpdateGrids: the ring it leaves, and start_time_.  Grids that have passed are
\* emptied, and all of them when the whole span has passed or the clock is behind
\* start_time_.
Shifted(moves) ==
    LET after[i \in 0..moves] ==
            IF i = 0 THEN [grid |-> lcGrid, at |-> lcAt, sum |-> lcSum] ELSE NextGrid(after[i - 1])
    IN  after[moves]
Restarts(now) == Moved(now) < 0 \/ Moved(now) >= LcTotal
UpdateGrids(now) == IF Restarts(now) THEN [grid |-> [g \in LcGrids |-> 0], at |-> 0, sum |-> 0]
                    ELSE Shifted(Moves(Moved(now)))
StartAfter(now) == IF Restarts(now) THEN lcClock ELSE lcStart + Moves(Moved(now)) * LcUnit

\* CheckFlow: at most LcMax may be counted when a request is admitted.
CheckFlow(c) ==
    LET now == lcNow[c]
        u == UpdateGrids(now)
        refused == u.sum > LcMax
    IN  /\ now # NoCall
        /\ lcStart' = StartAfter(now) /\ lcAt' = u.at
        /\ lcGrid' = IF refused THEN u.grid ELSE [u.grid EXCEPT ![u.at] = @ + 1]
        /\ lcSum' = IF refused THEN u.sum ELSE u.sum + 1
        /\ lcAdmitted' = IF refused THEN lcAdmitted ELSE Append(lcAdmitted, now)
        /\ lcRefused' = IF refused THEN now ELSE NoCall
        /\ lcNow' = [lcNow EXCEPT ![c] = NoCall]
        /\ UNCHANGED lcClock

LcNext == LcTick \/ \E c \in LcCallers : LcAsk(c) \/ CheckFlow(c)
LcSpec == LcInit /\ [][LcNext]_lcVars

-----------------------------------------------------------------------------
\* Every variable keeps its type.
LcTypeOK == /\ lcClock \in LcTimes /\ lcStart \in LcTimes
            /\ lcGrid \in [LcGrids -> 0..(LcMax + 1)] /\ lcAt \in LcGrids
            /\ lcSum \in 0..(LcMax + 1)
            /\ lcNow \in [LcCallers -> LcTimes \cup {NoCall}]
            /\ lcAdmitted \in Seq(LcTimes) /\ lcRefused \in LcTimes \cup {NoCall}

AdmittedIn(from, to) == Cardinality({i \in DOMAIN lcAdmitted : from <= lcAdmitted[i] /\ lcAdmitted[i] <= to})

\* The sum of all grids.
SumOf(grid) == LET sum[n \in 0..LcNum] == IF n = 0 THEN 0 ELSE sum[n - 1] + grid[n - 1]
               IN  sum[LcNum]

\* With one caller: a stretch of the span less one grid never sees more than LcMax + 1
\* requests admitted, across every reset and every move of the ring; a request is
\* refused only when LcMax were admitted within the whole span (LcMax + 1, save that
\* the first after a reset counts from when it was checked); and the running sum is
\* the sum of the grids.
FlowWindow ==
    /\ LcTypeOK
    /\ \A t \in LcTimes : AdmittedIn(t, t + LcTotal - LcUnit - 1) <= LcMax + 1
    /\ lcRefused # NoCall => AdmittedIn(lcRefused - LcNum * LcUnit, lcRefused) >= LcMax
    /\ lcSum = SumOf(lcGrid)

=============================================================================
