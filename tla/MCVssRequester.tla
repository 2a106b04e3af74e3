---------------------------- MODULE MCVssRequester ----------------------------
(* The snapshot helper alone: two jobs, three source volumes. *)
EXTENDS VssRequester

CONSTANTS j1, j2, v1, v2, v3

TwoJobs == {j1, j2}
ThreeVolumes == {v1, v2, v3}
==============================================================================
