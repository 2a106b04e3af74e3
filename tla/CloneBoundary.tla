---------------------------- MODULE CloneBoundary ----------------------------
(***************************************************************************)
(* What the data clone promises about cancellation, without any of its     *)
(* machinery: for each job the owner's cancellation and the step that      *)
(* starts preparing the target disk are decided once, in one order.  If    *)
(* the cancellation wins, the target disk is never erased for that job.    *)
(***************************************************************************)
CONSTANT Jobs

VARIABLES status,   \* status[j]: what has been decided for job j
          erased    \* the jobs for which the target disk has been cleared

Statuses == {"open", "cancelled", "preparing"}

TypeOK == status \in [Jobs -> Statuses] /\ erased \subseteq Jobs

Init == status = [j \in Jobs |-> "open"] /\ erased = {}

(* The owner's cancellation is accepted while nothing is decided. *)
Cancel(j) ==
  /\ status[j] = "open"
  /\ status' = [status EXCEPT ![j] = "cancelled"]
  /\ UNCHANGED erased

(* The worker makes the start of the preparation known. *)
Prepare(j) ==
  /\ status[j] = "open"
  /\ status' = [status EXCEPT ![j] = "preparing"]
  /\ UNCHANGED erased

(* The target disk is cleared, for a job whose preparation was decided. *)
Erase(j) ==
  /\ status[j] = "preparing"
  /\ erased' = erased \cup {j}
  /\ UNCHANGED status

Next == \E j \in Jobs : Cancel(j) \/ Prepare(j) \/ Erase(j)

Spec == Init /\ [][Next]_<<status, erased>>
==============================================================================
