----------------------------- MODULE MCDataClone -----------------------------
(* Instances of DataClone for TLC: the owner's processes are interchangeable,
   and so are the volumes and the recovery processes. *)
EXTENDS DataClone, TLC

CONSTANTS j1, j2, v1, v2, r1, r2, nobody

OneJob == {j1}
TwoJobs == {j1, j2}
OneVolume == {v1}
TwoVolumes == {v1, v2}
NoRecoverer == {}
OneRecoverer == {r1}
TwoRecoverers == {r1, r2}

(* accepted is a history variable that no action reads. *)
WithoutHistory ==
  <<appVars, canceller, gateVars, active, lock, workVars, diskVars, recoverer, crashes, vssVars>>

Interchangeable == Permutations(Jobs) \cup Permutations(Volumes) \cup Permutations(Recoverers)
==============================================================================
