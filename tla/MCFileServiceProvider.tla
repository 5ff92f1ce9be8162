----------------------- MODULE MCFileServiceProvider -----------------------
(* Instances of FileServiceProvider for TLC. *)
EXTENDS FileServiceProvider, TLC

CONSTANTS s1, s2, p, c

OneService == {s1}
TwoServices == {s1, s2}
NoCallers == {}
OneCaller == {c}
=============================================================================
