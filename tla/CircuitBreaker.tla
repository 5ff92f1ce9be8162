--------------------------- MODULE CircuitBreaker ---------------------------
(***************************************************************************)
(* What passive health checking promises for one instance, in terms of     *)
(* what was reported about it and of the time that really passed: it is    *)
(* ejected only after FailThreshold failures in a row, probed only after   *)
(* the cooldown, back in service only after HalfOpenSuccess successes in a *)
(* row since it is probed, and ejected again by a failure while probed.    *)
(* Whether it is ejected after enough failures is left open: the share of  *)
(* healthy instances may forbid it.                                        *)
(***************************************************************************)
EXTENDS Integers

CONSTANTS FailThreshold, HalfOpenSuccess, Cooldown

VARIABLES
  state,   \* "Healthy", "HalfOpen" or "Ejected"
  bad,     \* failures reported in a row, up to FailThreshold
  good,    \* successes reported in a row while half open, up to HalfOpenSuccess
  waited   \* time since the ejection, up to Cooldown

vars == <<state, bad, good, waited>>

UpTo(n, max) == IF n > max THEN max ELSE n

Init == state = "Healthy" /\ bad = 0 /\ good = 0 /\ waited = 0

Success ==
  /\ bad' = 0
  /\ IF state = "HalfOpen"
       THEN /\ good' = UpTo(good + 1, HalfOpenSuccess)
            /\ state' = IF good' >= HalfOpenSuccess THEN "Healthy" ELSE state
       ELSE UNCHANGED <<good, state>>
  /\ UNCHANGED waited

Failure ==
  /\ bad' = UpTo(bad + 1, FailThreshold)
  /\ good' = 0
  /\ \/ /\ state = "HalfOpen" \/ (state = "Healthy" /\ bad' >= FailThreshold)
        /\ state' = "Ejected"
        /\ waited' = 0
     \/ state # "HalfOpen" /\ UNCHANGED <<state, waited>>

TimePasses ==
  /\ state = "Ejected"
  /\ waited' = UpTo(waited + 1, Cooldown)
  /\ UNCHANGED <<state, bad, good>>

Probe ==
  /\ state = "Ejected"
  /\ waited >= Cooldown
  /\ state' = "HalfOpen"
  /\ good' = 0
  /\ UNCHANGED <<bad, waited>>

\* The instance is taken off the list; when it is listed again it is new.
Forget == state' = "Healthy" /\ bad' = 0 /\ good' = 0 /\ waited' = 0

Next == Success \/ Failure \/ TimePasses \/ Probe \/ Forget

Spec == Init /\ [][Next]_vars
=============================================================================
