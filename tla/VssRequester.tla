----------------------------- MODULE VssRequester -----------------------------
(***************************************************************************)
(* The native VSS requester (native/vss_snapshot): a helper process that   *)
(* takes one snapshot per source volume of a clone job and keeps, in a     *)
(* journal file of the job, the identifiers of the snapshots it has        *)
(* registered.  Whoever has to clean up after the helper deletes only what *)
(* the journal names, so a snapshot the journal does not name is never     *)
(* removed.  A snapshot is identified by its job and its volume.           *)
(***************************************************************************)
EXTENDS FiniteSets

CONSTANTS Jobs,      \* clone jobs (32-digit random identifiers)
          Volumes    \* the source volumes every job takes a snapshot of

ASSUME VolumesAssumption == Volumes # {} /\ IsFiniteSet(Volumes)

VARIABLES journal,   \* journal[j]: the job's journal file and the identifiers in it
          snaps,     \* snaps[j]: the volumes with an existing snapshot of job j
          helper     \* helper[j]: where the helper process of job j stands

vssVars == <<journal, snaps, helper>>

HelperStates == {"idle", "opening", "writing", "registering", "registered", "created",
                 "rolling", "clearing", "done", "failed"}

(* The helper process exists and has not ended. *)
HelperLive(j) == helper[j] \notin {"idle", "done", "failed"}

VssTypeOK ==
  /\ journal \in [Jobs -> [file : {"absent", "empty", "valid"}, ids : SUBSET Volumes]]
  /\ snaps \in [Jobs -> SUBSET Volumes]
  /\ helper \in [Jobs -> HelperStates]

VssInit ==
  /\ journal = [j \in Jobs |-> [file |-> "absent", ids |-> {}]]
  /\ snaps = [j \in Jobs |-> {}]
  /\ helper = [j \in Jobs |-> "idle"]

HelperMove(j, from, to) ==
  helper[j] = from /\ helper' = [helper EXCEPT ![j] = to]

------------------------------------------------------------------------------
(* "snapshot --journal J --volume V ...": the process is started. *)
HelperSpawn(j) == HelperMove(j, "idle", "opening") /\ UNCHANGED <<journal, snaps>>

(* The journal is created exclusively, and then written and synced with an
   empty list, before VSS is touched: in between the file is not readable. *)
HelperCreateJournal(j) ==
  /\ journal[j].file = "absent"
  /\ HelperMove(j, "opening", "writing")
  /\ journal' = [journal EXCEPT ![j].file = "empty"]
  /\ UNCHANGED snaps

HelperWriteJournal(j) ==
  /\ HelperMove(j, "writing", "registering")
  /\ journal' = [journal EXCEPT ![j].file = "valid"]
  /\ UNCHANGED snaps

(* AddToSnapshotSet returned an identifier; it is journaled before the next
   VSS call, and the set is complete when every volume has one. *)
HelperRegister(j, v) ==
  /\ helper[j] = "registering" /\ v \notin journal[j].ids
  /\ journal' = [journal EXCEPT ![j].ids = @ \cup {v}]
  /\ helper' = [helper EXCEPT ![j] =
                  IF journal[j].ids \cup {v} = Volumes THEN "registered" ELSE @]
  /\ UNCHANGED snaps

(* An error before DoSnapshotSet (an existing or unwritable journal, a VSS
   writer, the deadline): no snapshot can exist, nothing is rolled back. *)
HelperFailEarly(j) ==
  /\ \E at \in {"opening", "writing", "registering", "registered"} : HelperMove(j, at, "failed")
  /\ UNCHANGED <<journal, snaps>>

(* DoSnapshotSet created the whole set. *)
HelperCreateSet(j) ==
  /\ HelperMove(j, "registered", "created")
  /\ snaps' = [snaps EXCEPT ![j] = Volumes]
  /\ UNCHANGED journal

(* Mutant of HelperCreateSetFails: the deadline of DoSnapshotSet is taken for
   its success. *)
CreateSetFailsUnnoticed(j) ==
  /\ HelperMove(j, "registered", "created")
  /\ \E left \in SUBSET Volumes : snaps' = [snaps EXCEPT ![j] = left]
  /\ UNCHANGED journal

(* DoSnapshotSet failed or passed the deadline and left some of the set. *)
HelperCreateSetFails(j) ==
  /\ HelperMove(j, "registered", "rolling")
  /\ \E left \in SUBSET Volumes : snaps' = [snaps EXCEPT ![j] = left]
  /\ UNCHANGED journal

(* A check after DoSnapshotSet failed: writer status, BackupComplete, the
   properties of a snapshot. *)
HelperFailLate(j) == HelperMove(j, "created", "rolling") /\ UNCHANGED <<journal, snaps>>

(* Mutant of HelperRollBack: the journal is cleared although a deletion failed. *)
RollBackIgnoringFailures(j) ==
  \E kept \in SUBSET snaps[j] :
    /\ snaps' = [snaps EXCEPT ![j] = kept]
    /\ HelperMove(j, "rolling", "clearing")
    /\ UNCHANGED journal

(* Mutant of HelperRollBack: it is repeated until every deletion succeeds. *)
RollBackUntilSuccess(j) ==
  \E kept \in SUBSET snaps[j] :
    /\ snaps' = [snaps EXCEPT ![j] = kept]
    /\ HelperMove(j, "rolling",
                  IF kept = {} /\ snaps[j] = Volumes THEN "clearing" ELSE "rolling")
    /\ UNCHANGED journal

(* Every registered snapshot is deleted, one by one, an error not stopping
   the others.  A snapshot that does not exist is an error as well, so the
   roll-back only succeeds when the whole set existed and is gone. *)
HelperRollBack(j) ==
  \E kept \in SUBSET snaps[j] :
    /\ snaps' = [snaps EXCEPT ![j] = kept]
    /\ HelperMove(j, "rolling",
                  IF kept = {} /\ snaps[j] = Volumes THEN "clearing" ELSE "failed")
    /\ UNCHANGED journal

(* The identifiers are cleared only after the roll-back succeeded; failing to
   clear them leaves the old journal.  The helper reports an error anyway. *)
HelperClearJournal(j) ==
  /\ HelperMove(j, "clearing", "failed")
  /\ \E cleared \in BOOLEAN :
       journal' = IF cleared THEN [journal EXCEPT ![j].ids = {}] ELSE journal
  /\ UNCHANGED snaps

(* The identities are printed and the process exits with code zero. *)
HelperSucceed(j) == HelperMove(j, "created", "done") /\ UNCHANGED <<journal, snaps>>

(* The process is ended from outside, at any point. *)
HelperKill(j) ==
  /\ HelperLive(j)
  /\ helper' = [helper EXCEPT ![j] = "failed"]
  /\ UNCHANGED <<journal, snaps>>

HelperStep(j) ==
  \/ HelperCreateJournal(j) \/ HelperWriteJournal(j)
  \/ \E v \in Volumes : HelperRegister(j, v) \/ HelperFailEarly(j)
  \/ HelperCreateSet(j) \/ HelperCreateSetFails(j) \/ HelperFailLate(j)
  \/ HelperRollBack(j) \/ HelperClearJournal(j) \/ HelperSucceed(j)

(* "cleanup --snapshot-id ID" for each of some identifiers: a snapshot is
   deleted or, when its deletion fails, stays. *)
DeleteSnapshots(j, ids) ==
  \E gone \in SUBSET (snaps[j] \cap ids) : snaps' = [snaps EXCEPT ![j] = @ \ gone]

------------------------------------------------------------------------------
(* The requester on its own: a supervisor starts helpers, may end them, and
   cleans up once they have ended. *)
VssNext ==
  \E j \in Jobs :
    \/ HelperSpawn(j) \/ HelperStep(j) \/ HelperKill(j)
    \/ ~HelperLive(j) /\ DeleteSnapshots(j, journal[j].ids) /\ UNCHANGED <<journal, helper>>

VssSpec == VssInit /\ [][VssNext]_vssVars /\ \A j \in Jobs : WF_vssVars(HelperStep(j))

(* Whenever a snapshot of a job exists, the job's journal on disk names it: a
   helper that dies between any two steps leaves nothing a clean-up that
   trusts the journal alone could miss. *)
JournalCoversSnapshots == \A j \in Jobs : snaps[j] \subseteq journal[j].ids

(* A helper that reports success leaves the whole set of snapshots and every
   identifier in the journal until the supervisor deletes them. *)
SuccessMeansWholeSet ==
  [][\A j \in Jobs : helper[j] # "done" /\ helper'[j] = "done"
        => snaps'[j] = Volumes /\ journal'[j].ids = Volumes]_vssVars

(* A started helper ends, by itself or by being ended. *)
HelperEnds == \A j \in Jobs : HelperLive(j) ~> ~HelperLive(j)
==============================================================================
