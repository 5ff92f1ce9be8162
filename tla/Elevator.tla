------------------------------ MODULE Elevator ------------------------------
(***************************************************************************)
(* base/elevator: six orders in which to serve requests for floors, and    *)
(* the distance each one travels.  They are functions of their arguments:  *)
(* the initial states are the arguments, one step computes one result.     *)
(***************************************************************************)
EXTENDS Integers, Sequences, FiniteSets
LOCAL INSTANCE SequencesExt

CONSTANTS ElTop,    \* the highest floor of a request
          ElMaxReq  \* bound on the number of requests

ASSUME ElAssumption == ElTop \in Nat \ {0} /\ ElMaxReq \in Nat

VARIABLES elArgs,   \* current_floor, direction, requests, max_floor
          elResult  \* serve_order and total_distance, with the algorithm's name

elVars == <<elArgs, elResult>>

ElFloors == 0..ElTop
ElRequests == UNION {[1..n -> ElFloors] : n \in 0..ElMaxReq}
ElNone == [by |-> "none", order |-> <<>>, distance |-> 0]

ElInit == /\ elArgs \in [current : ElFloors, up : BOOLEAN, requests : ElRequests,
                         max : {ElTop - 1, ElTop}]
          /\ elResult = ElNone

-----------------------------------------------------------------------------
AbsDiff(a, b) == IF a > b THEN a - b ELSE b - a

\* The distance of a path that starts at pos, and where it ends.
Travel(pos, path) ==
    LET d[i \in 0..Len(path)] ==
            IF i = 0 THEN 0
            ELSE d[i - 1] + AbsDiff(IF i = 1 THEN pos ELSE path[i - 1], path[i])
    IN  d[Len(path)]
EndOf(pos, path) == IF path = <<>> THEN pos ELSE path[Len(path)]

\* sorted_req, split at current_floor
SortedReq == SortSeq(elArgs.requests, LAMBDA a, b : a < b)
IsLower(f) == f < elArgs.current
IsUpper(f) == f >= elArgs.current
Lower == SelectSeq(SortedReq, IsLower)
Upper == SelectSeq(SortedReq, IsUpper)

\* The half served first and the half served second, in the order of the first
\* direction; where the algorithm turns, and where a circular one starts again.
FirstHalf == IF elArgs.up THEN Upper ELSE Reverse(Lower)
OtherHalf == IF elArgs.up THEN Lower ELSE Reverse(Upper)
FarEnd == IF elArgs.up THEN elArgs.max ELSE 0
NearEnd == IF elArgs.up THEN 0 ELSE elArgs.max

Serve(by, order, distance) == /\ elResult = ElNone
                              /\ elResult' = [by |-> by, order |-> order, distance |-> distance]
                              /\ UNCHANGED elArgs

ElevatorFCFS == Serve("FCFS", elArgs.requests, Travel(elArgs.current, elArgs.requests))

\* The nearest request that is left; of two, the earlier.
Nearest(pos, left) ==
    LET dist(i) == AbsDiff(pos, elArgs.requests[i])
    IN  CHOOSE i \in left : \A j \in left : dist(i) < dist(j) \/ (dist(i) = dist(j) /\ i <= j)
Sstf[n \in 0..ElMaxReq] ==
    IF n = 0 THEN <<>>
    ELSE LET done == Sstf[n - 1]
             pos == IF done = <<>> THEN elArgs.current ELSE elArgs.requests[done[n - 1]]
             left == DOMAIN elArgs.requests \ {done[i] : i \in DOMAIN done}
         IN  Append(done, Nearest(pos, left))
ElevatorSSTF ==
    LET served == Sstf[Len(elArgs.requests)]
        order == [i \in DOMAIN served |-> elArgs.requests[served[i]]]
    IN  Serve("SSTF", order, Travel(elArgs.current, order))

\* To the end of the building, if there is something to come back for; the
\* end is taken out of the result again unless somebody asked for that floor.
ElevatorSCAN ==
    LET path == IF OtherHalf = <<>> THEN FirstHalf
                ELSE FirstHalf \o <<FarEnd>> \o Reverse(OtherHalf)
        isRealRequest(f) == \E i \in DOMAIN elArgs.requests : elArgs.requests[i] = f
    IN  /\ elArgs.current <= elArgs.max
        /\ Serve("SCAN", SelectSeq(path, isRealRequest), Travel(elArgs.current, path))

ElevatorLOOK ==
    LET path == FirstHalf \o Reverse(OtherHalf)
    IN  Serve("LOOK", path, Travel(elArgs.current, path))

ElevatorCSCAN ==
    /\ elArgs.current <= elArgs.max
    /\ Serve("CSCAN", FirstHalf \o OtherHalf,
             Travel(elArgs.current, FirstHalf) +
             IF OtherHalf = <<>> THEN 0
             ELSE AbsDiff(EndOf(elArgs.current, FirstHalf), FarEnd) + Travel(NearEnd, OtherHalf))

\* The jump to the other side is not counted.
JumpTo_Walks == EndOf(elArgs.current, FirstHalf)
JumpTo == OtherHalf[1]
ElevatorCLOOK ==
    Serve("CLOOK", FirstHalf \o OtherHalf,
          Travel(elArgs.current, FirstHalf) +
          IF OtherHalf = <<>> THEN 0 ELSE Travel(JumpTo, OtherHalf))

ElNext == ElevatorFCFS \/ ElevatorSSTF \/ ElevatorSCAN \/ ElevatorLOOK \/ ElevatorCSCAN \/ ElevatorCLOOK

ElSpec == ElInit /\ [][ElNext]_elVars

-----------------------------------------------------------------------------
Asked == {elArgs.requests[i] : i \in DOMAIN elArgs.requests}
Times(f, s) == Cardinality({i \in DOMAIN s : s[i] = f})

\* The floors between two floors, and those a set of requests spans from a floor on.
Highest(S) == CHOOSE f \in S : \A g \in S : g <= f
Lowest(S) == CHOOSE f \in S : \A g \in S : f <= g
Ahead == {f \in Asked : IF elArgs.up THEN IsUpper(f) ELSE IsLower(f)}
Behind == Asked \ Ahead
Reach(S) == Highest(S) - Lowest(S)

\* What the documentation of each algorithm says it travels.
Reference(by) ==
    LET turn == Ahead \cup {elArgs.current}
        end == {FarEnd, elArgs.current}
    IN  IF Behind = {} THEN Reach(turn)
        ELSE CASE by = "LOOK" -> Reach(turn) + Reach(Behind \cup
                                 {IF elArgs.up THEN Highest(turn) ELSE Lowest(turn)})
               [] by = "SCAN" -> Reach(end) + Reach(Behind \cup {FarEnd})
               [] by = "CLOOK" -> Reach(turn) + Reach(Behind)
               [] by = "CSCAN" -> Reach(end) + Reach(Behind \cup {NearEnd})

\* Every algorithm serves every request once, duplicates included, and nothing else
\* (SCAN: unless the end it turns at is asked for, see ScanServesOnce); the sweeps
\* travel what their documentation says, for floors within the building; and
\* the nearest-first order never passes over a nearer request.
EachServedOnce ==
    LET r == elResult
        path == <<elArgs.current>> \o r.order
    IN  r.by # "none" =>
            /\ ~ (r.by = "SCAN" /\ FarEnd \in Asked) =>
                  \A f \in ElFloors : Times(f, r.order) = Times(f, elArgs.requests)
            /\ r.by \notin {"FCFS", "SSTF"} /\ (\A f \in Asked \cup {elArgs.current} : f <= elArgs.max) =>
                  r.distance = Reference(r.by)
            /\ r.by = "SSTF" => \A i \in DOMAIN r.order : \A j \in i..Len(r.order) :
                  AbsDiff(path[i], r.order[i]) <= AbsDiff(path[i], r.order[j])

\* The auxiliary end is not a request and is taken out of SCAN's result: does not
\* hold when the end is also asked for, which is then served twice.
ScanServesOnce ==
    elResult.by = "SCAN" => \A f \in ElFloors : Times(f, elResult.order) = Times(f, elArgs.requests)

=============================================================================
