---------------------------- MODULE MCEventHistory ----------------------------
(* Instances of EventHistory for TLC: first pages and limits out of range.   *)
EXTENDS EventHistory

SomePages == {-1, 1}
SomeLimits == {0, 2, 7}
=============================================================================
