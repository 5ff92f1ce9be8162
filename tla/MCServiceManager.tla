-------------------------- MODULE MCServiceManager --------------------------
(* Instances of ServiceManager for TLC. *)
EXTENDS ServiceManager, TLC

CONSTANTS a1, a2, a3, t1, t2

TwoAddrs == {a1, a2}
ThreeAddrs == {a1, a2, a3}
OneThread == {t1}
TwoThreads == {t1, t2}

Changing == {<<a1, a2>>, <<a2>>}
FixedTwo == {<<a1, a2>>}
FixedThree == {<<a1, a2, a3>>}
OneListed == {<<a1>>}
Twice == {<<a1, a1, a2>>}

ThreadSymmetry == Permutations(Threads)
=============================================================================
