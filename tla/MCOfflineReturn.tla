--------------------------- MODULE MCOfflineReturn --------------------------
(* Two starts of the runner for one job; one of them may be cut off.        *)
EXTENDS OfflineReturn

CONSTANTS r1, r2
MCRunners == {r1, r2}
=============================================================================
