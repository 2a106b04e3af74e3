--------------------------- MODULE MCRuntimeInstall ---------------------------
(* Instances of RuntimeInstall for TLC. *)
EXTENDS RuntimeInstall

CONSTANTS i1, i2, w1, w2, nothing

TwoInstallers == {i1, i2}
OneWorker == {w1}
TwoWorkers == {w1, w2}
==============================================================================
