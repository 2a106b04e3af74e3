--------------------------- MODULE MCCloneControl ---------------------------
(* Two workers and two monitor windows.                                     *)
EXTENDS CloneControl, TLC

CONSTANTS w1, w2, m1, m2
MCWorkers == {w1, w2}
MCMonitors == {m1, m2}
Symmetric == Permutations(MCWorkers) \cup Permutations(MCMonitors)
=============================================================================
