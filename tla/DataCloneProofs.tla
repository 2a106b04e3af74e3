--------------------------- MODULE DataCloneProofs ---------------------------
(***************************************************************************)
(* Proofs about the snapshot helper and about the data clone that runs it, *)
(* for any number of jobs, volumes, recovery processes and crashes.  One   *)
(* inductive invariant carries the theorems about the clone; it is built   *)
(* in two layers, who may write what (CloneInv) and what is told (Told).   *)
(***************************************************************************)
EXTENDS DataClone, TLAPS

------------------------------------------------------------------------------
(* The snapshot helper.  The lemmas are stated per action, for the steps that
   the helpers of the data clone take are these. *)

(* Why every existing snapshot is journaled: the set can only be created once
   every volume is registered, and the journal is only cleared of snapshots
   that are gone. *)
VssInv ==
  /\ JournalCoversSnapshots
  /\ \A j \in Jobs :
       /\ helper[j] \in {"registered", "created", "rolling"} => journal[j].ids = Volumes
       /\ helper[j] = "clearing" => snaps[j] = {}

VssGood == VssTypeOK /\ VssInv

LEMMA VssInitGood == VssInit => VssGood
BY DEF VssInit, VssGood, VssTypeOK, VssInv, JournalCoversSnapshots, HelperStates

LEMMA HelperSpawnGood ==
  ASSUME VssGood, NEW j \in Jobs, HelperSpawn(j) PROVE VssGood'
BY DEF VssGood, VssTypeOK, VssInv, JournalCoversSnapshots, HelperStates, HelperSpawn,
   HelperMove

LEMMA HelperKillGood ==
  ASSUME VssGood, NEW j \in Jobs, HelperKill(j) PROVE VssGood'
BY DEF VssGood, VssTypeOK, VssInv, JournalCoversSnapshots, HelperStates, HelperKill

LEMMA DeleteSnapshotsGood ==
  ASSUME VssGood, NEW j \in Jobs, NEW ids, DeleteSnapshots(j, ids), UNCHANGED <<journal, helper>>
  PROVE  VssGood'
BY DEF VssGood, VssTypeOK, VssInv, JournalCoversSnapshots, HelperStates, DeleteSnapshots

LEMMA HelperStepGood ==
  ASSUME VssGood, NEW j \in Jobs, HelperStep(j) PROVE VssGood'
<1> USE DEF VssGood, VssTypeOK, VssInv, JournalCoversSnapshots, HelperStates, HelperMove
<1>1. CASE HelperCreateJournal(j)
  BY <1>1 DEF HelperCreateJournal
<1>2. CASE HelperWriteJournal(j)
  BY <1>2 DEF HelperWriteJournal
<1>3. ASSUME NEW v \in Volumes, HelperRegister(j, v) PROVE VssGood'
  BY <1>3 DEF HelperRegister
<1>4. CASE HelperFailEarly(j)
  BY <1>4 DEF HelperFailEarly
<1>5. CASE HelperCreateSet(j)
  BY <1>5 DEF HelperCreateSet
<1>6. CASE HelperCreateSetFails(j)
  BY <1>6 DEF HelperCreateSetFails
<1>7. CASE HelperFailLate(j)
  BY <1>7 DEF HelperFailLate
<1>8. CASE HelperRollBack(j)
  BY <1>8 DEF HelperRollBack
<1>9. CASE HelperClearJournal(j)
  BY <1>9 DEF HelperClearJournal
<1>10. CASE HelperSucceed(j)
  BY <1>10 DEF HelperSucceed
<1> QED BY <1>1, <1>2, <1>3, <1>4, <1>5, <1>6, <1>7, <1>8, <1>9, <1>10 DEF HelperStep

LEMMA VssStepGood == VssGood /\ [VssNext]_vssVars => VssGood'
<1> SUFFICES ASSUME VssGood, [VssNext]_vssVars PROVE VssGood'
  OBVIOUS
<1>1. CASE UNCHANGED vssVars
  BY <1>1 DEF vssVars, VssGood, VssTypeOK, VssInv, JournalCoversSnapshots
<1>2. ASSUME NEW j \in Jobs,
             \/ HelperSpawn(j) \/ HelperStep(j) \/ HelperKill(j)
             \/ ~HelperLive(j) /\ DeleteSnapshots(j, journal[j].ids) /\ UNCHANGED <<journal, helper>>
      PROVE VssGood'
  BY <1>2, HelperSpawnGood, HelperStepGood, HelperKillGood, DeleteSnapshotsGood
<1> QED BY <1>1, <1>2 DEF VssNext

(* The helper's variables keep their types: the journal of every job is absent,
   empty or a readable list of that job's volumes. *)
THEOREM VssTypeCorrect == VssSpec => []VssTypeOK
<1>1. VssGood => VssTypeOK BY DEF VssGood
<1> QED BY <1>1, VssInitGood, VssStepGood, PTL DEF VssSpec

(* The journal names every snapshot that exists, whenever the helper is ended
   and whatever its roll-back could not delete: a clean-up that trusts only the
   journal reaches all of them. *)
THEOREM JournalIsComplete == VssSpec => []JournalCoversSnapshots
<1>1. VssGood => JournalCoversSnapshots BY DEF VssGood, VssInv
<1> QED BY <1>1, VssInitGood, VssStepGood, PTL DEF VssSpec

(* On its own, without a clean-up that runs beside it, the helper also finds the
   whole set when it reports it: nobody deletes a snapshot of a live helper. *)
CreatedIsWhole == \A j \in Jobs : helper[j] = "created" => snaps[j] = Volumes

LEMMA VssStepWhole ==
  VssGood /\ CreatedIsWhole /\ [VssNext]_vssVars => CreatedIsWhole'
<1> SUFFICES ASSUME VssTypeOK, CreatedIsWhole, [VssNext]_vssVars PROVE CreatedIsWhole'
  BY DEF VssGood
<1> USE DEF VssTypeOK, CreatedIsWhole, HelperMove
<1>1. CASE UNCHANGED vssVars
  BY <1>1 DEF vssVars
<1>2. ASSUME NEW j \in Jobs, HelperSpawn(j) \/ HelperKill(j) PROVE CreatedIsWhole'
  BY <1>2 DEF HelperSpawn, HelperKill
<1>3. ASSUME NEW j \in Jobs, HelperStep(j) PROVE CreatedIsWhole'
  BY <1>3 DEF HelperStep, HelperCreateJournal, HelperWriteJournal, HelperRegister,
     HelperFailEarly,
     HelperCreateSet, HelperCreateSetFails, HelperFailLate, HelperRollBack, HelperClearJournal,
     HelperSucceed
<1>4. ASSUME NEW j \in Jobs, ~HelperLive(j), DeleteSnapshots(j, journal[j].ids), UNCHANGED helper
      PROVE CreatedIsWhole'
  BY <1>4 DEF HelperLive, DeleteSnapshots
<1> QED BY <1>1, <1>2, <1>3, <1>4 DEF VssNext

(* A helper that exits with success leaves the whole set of snapshots, and the
   journal names all of it. *)
THEOREM SuccessIsWhole == VssSpec => SuccessMeansWholeSet
<1>1. VssInit => VssGood /\ CreatedIsWhole
  BY VssInitGood DEF VssInit, CreatedIsWhole
<1>2. VssGood /\ CreatedIsWhole /\ [VssNext]_vssVars => (VssGood /\ CreatedIsWhole)'
  BY VssStepGood, VssStepWhole
<1> DEFINE Reported == \A j \in Jobs : helper[j] # "done" /\ helper'[j] = "done"
                         => snaps'[j] = Volumes /\ journal'[j].ids = Volumes
<1>3. VssGood /\ CreatedIsWhole /\ [VssNext]_vssVars => [Reported]_vssVars
  <2> SUFFICES ASSUME VssGood, CreatedIsWhole, VssNext PROVE Reported
    OBVIOUS
  <2>1. ASSUME NEW j \in Jobs, helper[j] # "done", helper'[j] = "done" PROVE HelperSucceed(j)
    BY <2>1 DEF VssGood, VssTypeOK, VssNext, HelperSpawn, HelperKill, HelperStep,
       HelperCreateJournal, HelperWriteJournal, HelperRegister, HelperFailEarly, HelperCreateSet,
       HelperCreateSetFails, HelperFailLate, HelperRollBack, HelperClearJournal, HelperSucceed,
       HelperMove
  <2> QED BY <2>1 DEF HelperSucceed, HelperMove, VssGood, VssInv, CreatedIsWhole
<1> QED BY <1>1, <1>2, <1>3, PTL DEF VssSpec, SuccessMeansWholeSet

------------------------------------------------------------------------------
(* The data clone: who may write what. *)

(* Who is busy is busy with a job. *)
JobsKnown ==
  /\ launch.pc # "idle" => launch.job \in Jobs
  /\ canceller.pc # "idle" => canceller.job \in Jobs
  /\ pending.state = "starting" => pending.job \in Jobs
  /\ active.job = NoJob => active.state = "none"
  /\ \A r \in Recoverers : RecovererLive(r) => recoverer[r].job \in Jobs

(* A process between taking and removing worker.lock is named by it, and the
   record is that of the process that may write it. *)
LockHolders == WorkerStates \ {"none", "spawned", "gated", "ended", "crashed"}

LockNames ==
  /\ \A j \in Jobs : worker[j] \in LockHolders => lock = j
  /\ \A r \in Recoverers :
       recoverer[r].pc \in {"begin", "delete", "confirm", "release"} => lock = r

(* The boundary: the worker decides under the mutex, nobody signals the event
   of a job while its worker does, and before the worker is started only the
   launch knows the job. *)
BoundaryGuarded ==
  /\ \A j \in Jobs : worker[j] \in {"decide", "publish"} <=> mutex[j] = "worker"
  /\ canceller.pc \in {"locked", "signal"} => mutex[canceller.job] = "app"
  /\ \A j \in Jobs : worker[j] = "publish" => ~event[j]
  /\ launch.pc \in {"staging", "gated"} => worker[launch.job] = "none"
  /\ launch.pc # "idle" => launch.job \notin fresh
  /\ \A j \in fresh : worker[j] = "none"

CloneInv == CloneTypeOK /\ JobsKnown /\ LockNames /\ RecordIsOwned /\ BoundaryGuarded

USE ProcessAssumption DEF
  vssVars, cloneVars, appVars, cancelVars, gateVars, workVars, diskVars, elsewhere,
  notRecovering

(* The states in which the record is the worker's own, the mutex aside. *)
RecordOwners == LockHolders \ {"locked", "release", "decide", "publish"}

(* A worker that owns the record writes its fields and moves on: most of its
   steps are of this form. *)
LEMMA OwnerWrites ==
  ASSUME CloneInv, NEW j \in Jobs,
         NEW to \in RecordOwners \cup {"release"}, worker[j] \in RecordOwners,
         worker' = [worker EXCEPT ![j] = to],
         active' \in JobRecords, active'.job = active.job, active'.pid = active.pid,
         exc' \in [Jobs -> Exceptions], clean' \in [Jobs -> Cleanups],
         script' \in [Jobs -> ScriptStates],
         UNCHANGED <<elsewhere, gateVars, lock, marked, erased>>
  PROVE  CloneInv'
<1> USE DEF CloneInv, RecordOwners, LockHolders, WorkerStates
<1>1. active.job = j /\ worker' \in [Jobs -> WorkerStates]
  BY DEF RecordIsOwned, CloneTypeOK
<1>2. CloneTypeOK'
  BY <1>1 DEF CloneTypeOK
<1>3. JobsKnown'
  BY <1>1 DEF JobsKnown, RecovererLive
<1>4. LockNames'
  BY <1>1 DEF LockNames, CloneTypeOK
<1>5. RecordIsOwned'
  BY <1>1 DEF RecordIsOwned, CloneTypeOK
<1>6. BoundaryGuarded'
  BY <1>1 DEF BoundaryGuarded, CloneTypeOK
<1> QED BY <1>2, <1>3, <1>4, <1>5, <1>6

(* A write that leaves the record typed and its job and process named. *)
SameOwner(r, q) == r \in JobRecords /\ r.job = q.job /\ r.pid = q.pid

(* The worker's steps that write the record, or nothing but its own place. *)
OwnerStep(j) ==
  \/ WPrecheck(j) \/ WPrecheckFails(j) \/ WAnnounceHelper(j) \/ WHelperDone(j)
  \/ WHelperFails(j) \/ WJournalMissing(j) \/ WJournalRead(j) \/ WMapped(j)
  \/ WMappingFails(j) \/ WScanCancelled(j) \/ WScanFails(j) \/ WScanned(j) \/ WStartScript(j)
  \/ WPrepared(j) \/ WPrepareFails(j) \/ WPrepareTimeout(j) \/ WCopy(j) \/ WCopied(j)
  \/ WCopyFails(j) \/ WVerifyCancelled(j) \/ WVerifyDiffers(j) \/ WVerified(j)
  \/ WAttributesCleared(j) \/ WDelete(j) \/ WConfirm(j) \/ WConfirmFails(j) \/ WHandle(j)

LEMMA OwnerStepKeeps ==
  ASSUME CloneInv, NEW j \in Jobs, OwnerStep(j) PROVE CloneInv'
<1> USE DEF RecordOwners, LockHolders, WorkerStates, Exceptions, Cleanups
<1>0. /\ active \in JobRecords /\ script \in [Jobs -> ScriptStates]
      /\ exc \in [Jobs -> Exceptions] /\ clean \in [Jobs -> Cleanups]
  BY DEF CloneInv, CloneTypeOK
<1>1. CASE WPrecheck(j)
  <2>1. SameOwner(active', active)
    BY <1>0, <1>1 DEF WPrecheck, SameOwner, JobRecords, States, ActiveStates, Phases,
       VssPhases
  <2> QED BY <1>0, <1>1, <2>1, OwnerWrites DEF WPrecheck, Step, SameOwner
<1>2. CASE WPrecheckFails(j)
  <2>1. exc' \in [Jobs -> Exceptions]
    BY <1>0, <1>2 DEF WPrecheckFails, Raise
  <2> QED BY <1>0, <1>2, <2>1, OwnerWrites DEF WPrecheckFails, Step
<1>3. CASE WAnnounceHelper(j)
  <2>1. SameOwner(active', active)
    BY <1>0, <1>3 DEF WAnnounceHelper, SameOwner, JobRecords, States, ActiveStates, Phases,
      VssPhases
  <2> QED BY <1>0, <1>3, <2>1, OwnerWrites DEF WAnnounceHelper, Step, SameOwner
<1>4. CASE WHelperDone(j)
  BY <1>0, <1>4, OwnerWrites DEF WHelperDone, Step
<1>5. CASE WHelperFails(j)
  <2>1. exc' \in [Jobs -> Exceptions]
    BY <1>0, <1>5 DEF WHelperFails, Raise
  <2> QED BY <1>0, <1>5, <2>1, OwnerWrites DEF WHelperFails, Step
<1>6. CASE WJournalMissing(j)
  <2>1. SameOwner(active', active)
    <3>1. CASE active' = [active EXCEPT !.confirmed = "yes", !.recovery = FALSE]
      BY <1>0, <3>1 DEF SameOwner, JobRecords
    <3>2. CASE active' = [active EXCEPT !.confirmed = "no", !.recovery = TRUE]
      BY <1>0, <3>2 DEF SameOwner, JobRecords
    <3>3. CASE active' = active
      BY <1>0, <3>3 DEF SameOwner
    <3> QED BY <1>6, <3>1, <3>2, <3>3 DEF WJournalMissing
  <2> QED BY <1>0, <1>6, <2>1, OwnerWrites DEF WJournalMissing, Step, SameOwner
<1>7. CASE WJournalRead(j)
  <2>1. SameOwner(active', active)
    BY <1>0, <1>7 DEF WJournalRead, SameOwner, JobRecords, States, ActiveStates, Phases,
      VssPhases
  <2> QED BY <1>0, <1>7, <2>1, OwnerWrites DEF WJournalRead, CleanUp, Step, SameOwner
<1>8. CASE WMapped(j)
  BY <1>0, <1>8, OwnerWrites DEF WMapped, Step
<1>9. CASE WMappingFails(j)
  <2>1. exc' \in [Jobs -> Exceptions]
    BY <1>0, <1>9 DEF WMappingFails, Raise
  <2> QED BY <1>0, <1>9, <2>1, OwnerWrites DEF WMappingFails, CleanUp, Step
<1>10. CASE WScanCancelled(j)
  <2>1. SameOwner(active', active)
    <3>1. ASSUME NEW p \in {"SNAPSHOT", "PRECHECK"},
                 active' = [active EXCEPT !.state = "cancelled", !.phase = p]
          PROVE  SameOwner(active', active)
      BY <1>0, <3>1 DEF SameOwner, JobRecords, States, Phases, VssPhases
    <3>2. CASE active' = active
      BY <1>0, <3>2 DEF SameOwner
    <3> QED BY <1>10, <3>1, <3>2 DEF WScanCancelled
  <2>2. exc' \in [Jobs -> Exceptions]
    BY <1>0, <1>10 DEF WScanCancelled, Raise
  <2> QED BY <1>0, <1>10, <2>1, <2>2, OwnerWrites DEF WScanCancelled, CleanUp, Step,
     SameOwner
<1>11. CASE WScanFails(j)
  <2>1. exc' \in [Jobs -> Exceptions]
    BY <1>0, <1>11 DEF WScanFails, Raise
  <2> QED BY <1>0, <1>11, <2>1, OwnerWrites DEF WScanFails, CleanUp, Step
<1>12. CASE WScanned(j)
  BY <1>0, <1>12, OwnerWrites DEF WScanned, Step
<1>13. CASE WStartScript(j)
  BY <1>0, <1>13, OwnerWrites DEF WStartScript, ScriptMove, Step, ScriptStates
<1>14. CASE WPrepared(j)
  <2>1. SameOwner(active', active)
    BY <1>0, <1>14 DEF WPrepared, SameOwner, JobRecords, States, ActiveStates, Phases,
       VssPhases
  <2> QED BY <1>0, <1>14, <2>1, OwnerWrites DEF WPrepared, Step, SameOwner
<1>15. CASE WPrepareFails(j)
  BY <1>0, <1>15, OwnerWrites DEF WPrepareFails, CleanUp, Raise, Step
<1>16. CASE WPrepareTimeout(j)
  BY <1>0, <1>16, OwnerWrites DEF WPrepareTimeout, CleanUp, Raise, Step, ScriptStates
<1>17. CASE WCopy(j)
  <2>1. SameOwner(active', active)
    BY <1>0, <1>17 DEF WCopy, SameOwner, JobRecords, States, ActiveStates, Phases, VssPhases
  <2> QED BY <1>0, <1>17, <2>1, OwnerWrites DEF WCopy, Step, SameOwner
<1>18. CASE WCopied(j)
  <2>1. SameOwner(active', active)
    BY <1>0, <1>18 DEF WCopied, SameOwner, JobRecords, States, ActiveStates, Phases,
       VssPhases
  <2> QED BY <1>0, <1>18, <2>1, OwnerWrites DEF WCopied, Step, SameOwner
<1>19. CASE WCopyFails(j)
  <2>1. exc' \in [Jobs -> Exceptions]
    BY <1>0, <1>19 DEF WCopyFails, Raise
  <2> QED BY <1>0, <1>19, <2>1, OwnerWrites DEF WCopyFails, CleanUp, Step
<1>20. CASE WVerifyCancelled(j)
  BY <1>0, <1>20, OwnerWrites DEF WVerifyCancelled, CleanUp, Raise, Step
<1>21. CASE WVerifyDiffers(j)
  <2>1. SameOwner(active', active)
    BY <1>0, <1>21 DEF WVerifyDiffers, SameOwner, JobRecords, States, ActiveStates, Phases,
      VssPhases
  <2> QED BY <1>0, <1>21, <2>1, OwnerWrites DEF WVerifyDiffers, CleanUp, Step, SameOwner
<1>22. CASE WVerified(j)
  <2>1. SameOwner(active', active)
    BY <1>0, <1>22 DEF WVerified, SameOwner, JobRecords, States, ActiveStates, Phases,
       VssPhases
  <2> QED BY <1>0, <1>22, <2>1, OwnerWrites DEF WVerified, Step, SameOwner
<1>23. CASE WAttributesCleared(j)
  BY <1>0, <1>23, OwnerWrites DEF WAttributesCleared, CleanUp, Step
<1>24. CASE WDelete(j)
  BY <1>0, <1>24, OwnerWrites DEF WDelete, Step
<1>25. CASE WConfirm(j)
  <2>1. SameOwner(active', active)
    <3>1. CASE active' = [active EXCEPT !.confirmed = "yes", !.recovery = FALSE]
      BY <1>0, <3>1 DEF SameOwner, JobRecords
    <3>2. CASE active' = [active EXCEPT !.confirmed = "yes", !.recovery = FALSE,
      !.helper = FALSE]
      BY <1>0, <3>2 DEF SameOwner, JobRecords
    <3>3. CASE active' = [active EXCEPT !.confirmed = "yes", !.recovery = FALSE,
      !.helper = FALSE,
                                        !.state = "complete", !.phase = "COMPLETE"]
      BY <1>0, <3>3 DEF SameOwner, JobRecords, States, Phases
    <3> QED BY <1>25, <3>1, <3>2, <3>3 DEF WConfirm
  <2> QED BY <1>0, <1>25, <2>1, OwnerWrites DEF WConfirm, CleanedUp, Step, SameOwner
<1>26. CASE WConfirmFails(j)
  <2>1. SameOwner(active', active)
    <3>1. CASE active' = [active EXCEPT !.confirmed = "no", !.recovery = TRUE]
      BY <1>0, <3>1 DEF SameOwner, JobRecords
    <3>2. CASE active' = [active EXCEPT !.confirmed = "no", !.recovery = TRUE, !.helper = TRUE]
      BY <1>0, <3>2 DEF SameOwner, JobRecords
    <3>3. ASSUME NEW s \in States,
                 active' = [active EXCEPT !.confirmed = "no", !.recovery = TRUE,
      !.helper = TRUE,
                                          !.state = s, !.phase = "CLEANUP"]
          PROVE  SameOwner(active', active)
      BY <1>0, <3>3 DEF SameOwner, JobRecords, Phases, VssPhases
    <3>4. Incomplete(active) \in States
      BY DEF Incomplete, States
    <3> QED BY <1>26, <3>1, <3>2, <3>3, <3>4 DEF WConfirmFails
  <2> QED BY <1>0, <1>26, <2>1, OwnerWrites DEF WConfirmFails, CleanedUp, Step, SameOwner
<1>27. CASE WHandle(j)
  <2> DEFINE s == Outcome(exc[j], active)
  <2>1. s \in States
    <3>1. exc[j] \in Exceptions /\ Incomplete(active) \in {"partial", "failed"}
      BY <1>0 DEF Incomplete
    <3>2. s \in {"partial", "failed", "blocked", "cancelled"} \cup (Exceptions \ {"roles", "internal"})
      BY <3>1 DEF Outcome
    <3> QED BY <3>2 DEF States
  <2>2. active' = [active EXCEPT !.state = s]
    BY <1>27 DEF WHandle
  <2> HIDE DEF s
  <2>3. SameOwner(active', active)
    BY <1>0, <2>1, <2>2 DEF SameOwner, JobRecords
  <2> QED BY <1>0, <1>27, <2>3, OwnerWrites DEF WHandle, Step, SameOwner
<1> QED BY <1>1, <1>2, <1>3, <1>4, <1>5, <1>6, <1>7, <1>8, <1>9, <1>10, <1>11, <1>12, <1>13,
      <1>14, <1>15, <1>16, <1>17, <1>18, <1>19, <1>20, <1>21, <1>22, <1>23, <1>24, <1>25,
      <1>26, <1>27 DEF OwnerStep

LEMMA WorkerStepKeeps ==
  ASSUME CloneInv, NEW j \in Jobs, WorkerStep(j) PROVE CloneInv'
<1> USE DEF CloneInv, CloneTypeOK, JobsKnown, LockNames, RecordIsOwned, BoundaryGuarded,
    Processes, WorkerStates, LockHolders, WorkerLive, RecovererLive, Step
<1>1. CASE WOpenGate(j)
  BY <1>1 DEF WOpenGate
<1>2. CASE WLock(j)
  BY <1>2 DEF WLock, ProcessLive
<1>3. CASE WClaim(j)
  <2>1. NewRecord(j) \in JobRecords /\ NewRecord(j).job = j /\ NewRecord(j).pid = j
    BY DEF NewRecord, NoRecord, JobRecords, States, ActiveStates, Phases, VssPhases
  <2>2. active' = active \/ active' = NewRecord(j)
    BY <1>3 DEF WClaim
  <2>3. CloneTypeOK'
    BY <1>3, <2>1, <2>2 DEF WClaim
  <2>4. JobsKnown'
    BY <1>3, <2>1, <2>2 DEF WClaim
  <2>5. LockNames'
    BY <1>3, <2>1, <2>2 DEF WClaim
  <2>6. RecordIsOwned'
    BY <1>3, <2>1 DEF WClaim
  <2>7. BoundaryGuarded'
    BY <1>3 DEF WClaim
  <2> QED BY <2>3, <2>4, <2>5, <2>6, <2>7
<1>4. CASE WStartHelper(j)
  BY <1>4 DEF WStartHelper
<1>5. CASE WBoundaryLock(j)
  BY <1>5 DEF WBoundaryLock
<1>6. CASE WBoundaryCancelled(j)
  <2>1. SameOwner(active', active)
    BY <1>6 DEF WBoundaryCancelled, SameOwner, JobRecords, States, Phases
  <2>2. CloneTypeOK'
    BY <1>6, <2>1 DEF WBoundaryCancelled, CleanUp, SameOwner, Cleanups
  <2>3. JobsKnown'
    BY <1>6, <2>1 DEF WBoundaryCancelled, CleanUp, SameOwner
  <2>4. LockNames'
    BY <1>6, <2>1 DEF WBoundaryCancelled, CleanUp, SameOwner
  <2>5. RecordIsOwned'
    BY <1>6, <2>1 DEF WBoundaryCancelled, CleanUp, SameOwner
  <2>6. BoundaryGuarded'
    BY <1>6 DEF WBoundaryCancelled, CleanUp
  <2> QED BY <2>2, <2>3, <2>4, <2>5, <2>6
<1>7. CASE WBoundaryOpen(j)
  BY <1>7 DEF WBoundaryOpen
<1>8. CASE WBoundaryInsecure(j)
  BY <1>8 DEF WBoundaryInsecure, CleanUp, Raise, Exceptions, Cleanups
<1>9. CASE WPublish(j)
  <2>1. SameOwner(active', active)
    BY <1>9 DEF WPublish, SameOwner, JobRecords, States, ActiveStates, Phases, VssPhases
  <2>2. CloneTypeOK'
    BY <1>9, <2>1 DEF WPublish, SameOwner, ScriptStates
  <2>3. JobsKnown'
    BY <1>9, <2>1 DEF WPublish, SameOwner
  <2>4. LockNames'
    BY <1>9, <2>1 DEF WPublish, SameOwner
  <2>5. RecordIsOwned'
    BY <1>9, <2>1 DEF WPublish, SameOwner
  <2>6. BoundaryGuarded'
    BY <1>9 DEF WPublish
  <2> QED BY <2>2, <2>3, <2>4, <2>5, <2>6
<1>10. CASE WRelease(j)
  BY <1>10 DEF WRelease, LocalsGone, Exceptions, Cleanups
<1>11. CASE OwnerStep(j)
  BY <1>11, OwnerStepKeeps
<1> QED BY <1>1, <1>2, <1>3, <1>4, <1>5, <1>6, <1>7, <1>8, <1>9, <1>10, <1>11
      DEF WorkerStep, OwnerStep

LEMMA ScriptStepKeeps ==
  ASSUME CloneInv, NEW j \in Jobs, ScriptStep(j) PROVE CloneInv'
BY DEF CloneInv, CloneTypeOK, JobsKnown, LockNames, RecordIsOwned, BoundaryGuarded,
      ScriptStates,
    RecovererLive, ScriptStep, ScriptMark, ScriptClear, ScriptEnds, ScriptMove

LEMMA WorkerCrashKeeps ==
  ASSUME CloneInv, NEW j \in Jobs, WorkerCrash(j) PROVE CloneInv'
BY DEF CloneInv, CloneTypeOK, JobsKnown, LockNames, RecordIsOwned, BoundaryGuarded,
      WorkerStates,
    Exceptions, Cleanups, CrashCounts, LockHolders, WorkerLive, RecovererLive, WorkerCrash,
    LocalsGone

Recovering == {"begin", "delete", "confirm", "release"}

(* What a recovery does once it is past the lock: it moves on, keeping its job
   until it ends, may write the record, but not its job, while it holds the
   lock, and drops the lock as it ends. *)
RecovererWrites(r) ==
  /\ recoverer' \in [Recoverers -> Recoveries]
  /\ \A q \in Recoverers \ {r} : recoverer'[q] = recoverer[q]
  /\ recoverer'[r].pc \in {"delete", "confirm", "release", "ended", "crashed"}
  /\ recoverer'[r].pc \in Recovering =>
       recoverer'[r].job = recoverer[r].job /\ recoverer[r].pc \in Recovering
  /\ recoverer'[r].pc \in {"delete", "confirm"} =>
       active.job = recoverer[r].job /\ active'.pid = r
  /\ active' \in JobRecords /\ active'.job = active.job
  /\ active' # active => recoverer[r].pc \in Recovering /\ active.job \in Jobs
  /\ lock' # lock => lock = r /\ recoverer'[r].pc = "ended" /\ lock' = NoJob
  /\ crashes' \in CrashCounts
  /\ UNCHANGED <<appVars, cancelVars, gateVars, workVars, diskVars>>

LEMMA RecovererMoves ==
  ASSUME CloneInv, NEW r \in Recoverers, RecovererWrites(r) PROVE CloneInv'
<1> USE DEF CloneInv, RecovererWrites
<1>1. CloneTypeOK'
  BY DEF CloneTypeOK, Processes
<1>2. JobsKnown'
  BY DEF JobsKnown, CloneTypeOK, RecovererLive, Recovering
<1>3. LockNames'
  BY DEF LockNames, CloneTypeOK, LockHolders, Recovering
<1>4. RecordIsOwned'
  BY DEF RecordIsOwned, LockNames, CloneTypeOK, WorkerStates, Recovering
<1>5. BoundaryGuarded'
  BY DEF BoundaryGuarded
<1> QED BY <1>1, <1>2, <1>3, <1>4, <1>5

Moved(r, to) ==
  /\ recoverer' \in [Recoverers -> Recoveries]
  /\ \A q \in Recoverers \ {r} : recoverer'[q] = recoverer[q]
  /\ recoverer'[r].pc = to
  /\ to \notin {"ended", "crashed"} => recoverer'[r].job = recoverer[r].job

LEMMA RecovererStepKeeps ==
  ASSUME VssTypeOK, CloneInv, NEW r \in Recoverers, RecovererStep(r) \/ RecovererCrash(r)
  PROVE  CloneInv'
<1>0. /\ recoverer \in [Recoverers -> Recoveries] /\ active \in JobRecords
      /\ RecovererLive(r) => recoverer[r].job \in Jobs
      /\ recoverer[r].pc \in {"delete", "confirm"} =>
           active.job = recoverer[r].job /\ active.pid = r
      /\ recoverer[r].pc \in Recovering => lock = r
      /\ crashes \in CrashCounts
  BY DEF CloneInv, CloneTypeOK, JobsKnown, LockNames, RecordIsOwned, Recovering
<1>a. ASSUME NEW from, NEW to \in {"begin", "confirm", "release"}, RStep(r, from, to)
      PROVE  Moved(r, to) /\ recoverer[r].pc = from
  BY <1>0, <1>a DEF RStep, Moved, Recoveries, RecovererStates
<1>b. ASSUME NEW how \in {"ended", "crashed"}, recoverer' = [recoverer EXCEPT ![r] = Ended(how)]
      PROVE  Moved(r, how)
  BY <1>0, <1>b DEF Ended, Moved, Recoveries, RecovererStates
<1>1. CASE RLock(r)
  <2>0. recoverer[r].pc = "spawned"
    BY <1>1 DEF RLock, RStep
  <2>1. CASE RStep(r, "spawned", "begin") /\ lock' = r /\ (lock = NoJob \/ ~ProcessLive(lock))
    <3>1. Moved(r, "begin")
      BY <1>a, <2>1
    <3>3. \A j \in Jobs : worker[j] \notin LockHolders
      BY <2>1 DEF CloneInv, LockNames, LockHolders, ProcessLive, WorkerLive
    <3>4. \A q \in Recoverers : recoverer[q].pc \notin Recovering
      BY <2>1 DEF CloneInv, LockNames, ProcessLive, RecovererLive, Recovering
    <3>5. CloneTypeOK'
      BY <1>1, <2>1, <3>1 DEF RLock, CloneInv, CloneTypeOK, Processes, Moved
    <3>6. JobsKnown'
      BY <1>1, <1>0, <2>0, <3>1 DEF RLock, CloneInv, JobsKnown, RecovererLive, Moved
    <3>7. LockNames'
      BY <1>1, <2>1, <3>1, <3>3, <3>4 DEF RLock, LockNames, Moved, Recovering
    <3>8. RecordIsOwned'
      BY <1>1, <3>1, <3>3, <3>4 DEF RLock, CloneInv, CloneTypeOK, RecordIsOwned,
         LockHolders,
        WorkerStates, Moved, Recovering
    <3>9. BoundaryGuarded'
      BY <1>1 DEF RLock, CloneInv, BoundaryGuarded
    <3> QED BY <3>5, <3>6, <3>7, <3>8, <3>9 DEF CloneInv
  <2>2. CASE recoverer' = [recoverer EXCEPT ![r] = Ended("ended")] /\ lock' = lock
    <3>1. Moved(r, "ended")
      BY <1>b, <2>2
    <3>w. RecovererWrites(r)
      BY <1>0, <1>1, <2>2, <3>1 DEF RLock, Recovering, RecovererWrites, Moved
    <3> QED BY <3>w, RecovererMoves
  <2> QED BY <1>1, <2>1, <2>2 DEF RLock
<1>2. CASE RBegin(r)
  <2>1. active.job = recoverer[r].job /\ active.job \in Jobs /\ recoverer[r].pc = "begin"
    BY <1>0, <1>2 DEF RBegin, RecovererLive
  <2>2. journal[active.job].ids \subseteq Volumes
    BY <2>1 DEF VssTypeOK
  <2>3. Moved(r, "delete")
    BY <1>0, <1>2, <2>1, <2>2 DEF RBegin, Moved, Recoveries, RecovererStates
  <2>4. active' \in JobRecords /\ active'.job = active.job /\ active'.pid = r
    BY <1>0, <1>2 DEF RBegin, JobRecords, States, ActiveStates, Phases, VssPhases, Processes
  <2>w. RecovererWrites(r)
    BY <1>0, <1>2, <2>1, <2>3, <2>4 DEF RBegin, Recovering, RecovererWrites, Moved
  <2> QED BY <2>w, RecovererMoves
<1>3. ASSUME NEW from \in {"begin", "confirm"}, RStep(r, from, "release"), StillPending(r),
             UNCHANGED <<notRecovering, lock>>
      PROVE  CloneInv'
  <2>1. Moved(r, "release") /\ recoverer[r].pc = from /\ recoverer[r].job \in Jobs
    BY <1>0, <1>a, <1>3 DEF RecovererLive
  <2>2. active' \in JobRecords /\ active'.job = active.job /\ (active' # active => active.job \in Jobs)
    <3>1. CASE active' = active
      BY <1>0, <3>1
    <3>2. ASSUME NEW i \in States, active.job = recoverer[r].job,
                 active' = [active EXCEPT !.state = i, !.phase = "CLEANUP", !.pid = r,
                                          !.confirmed = "no", !.recovery = TRUE]
          PROVE  active' \in JobRecords /\ active'.job = active.job /\ active.job \in Jobs
      BY <1>0, <2>1, <3>2 DEF JobRecords, Phases, VssPhases, Processes
    <3>3. Incomplete(active) \in States
      BY DEF Incomplete, States
    <3> QED BY <1>3, <3>1, <3>2, <3>3 DEF StillPending
  <2>w. RecovererWrites(r)
    BY <1>0, <1>3, <2>1, <2>2 DEF Recovering, RecovererWrites, Moved
  <2> QED BY <2>w, RecovererMoves
<1>4. CASE RRefuse(r)
  BY <1>3, <1>4 DEF RRefuse
<1>5. CASE RConfirmFails(r)
  BY <1>3, <1>5 DEF RConfirmFails
<1>6. CASE RDelete(r)
  <2>1. Moved(r, "confirm") /\ recoverer[r].pc = "delete"
    BY <1>a, <1>6 DEF RDelete
  <2>w. RecovererWrites(r)
    BY <1>0, <1>6, <2>1 DEF RDelete, Recovering, RecovererWrites, Moved
  <2> QED BY <2>w, RecovererMoves
<1>7. CASE RConfirm(r)
  <2>1. Moved(r, "release") /\ recoverer[r].pc = "confirm"
    BY <1>a, <1>7 DEF RConfirm
  <2>2. active.job \in Jobs
    BY <1>0, <2>1 DEF RecovererLive
  <2> DEFINE i == Incomplete(active)
  <2>3. i \in States
    BY DEF Incomplete, States
  <2>4. active' = [active EXCEPT !.state = i, !.phase = "CLEANUP", !.pid = r,
                                 !.confirmed = "yes", !.recovery = FALSE, !.helper = FALSE]
    BY <1>7 DEF RConfirm
  <2> HIDE DEF i
  <2>5. active' \in JobRecords /\ active'.job = active.job
    BY <1>0, <2>3, <2>4 DEF JobRecords, Phases, VssPhases, Processes
  <2>w. RecovererWrites(r)
    BY <1>0, <1>7, <2>1, <2>2, <2>5 DEF RConfirm, Recovering, RecovererWrites, Moved
  <2> QED BY <2>w, RecovererMoves
<1>8. CASE RRelease(r)
  <2>1. Moved(r, "ended")
    BY <1>b, <1>8 DEF RRelease
  <2>w. RecovererWrites(r)
    BY <1>0, <1>8, <2>1 DEF RRelease, Recovering, RecovererWrites, Moved
  <2> QED BY <2>w, RecovererMoves
<1>9. CASE RecovererCrash(r)
  <2>1. crashes' \in CrashCounts
    BY <1>0, <1>9 DEF RecovererCrash, CrashCounts
  <2>2. Moved(r, "crashed")
    BY <1>b, <1>9 DEF RecovererCrash
  <2>w. RecovererWrites(r)
    BY <1>0, <1>9, <2>1, <2>2 DEF RecovererCrash, Recovering, RecovererWrites, Moved
  <2> QED BY <2>w, RecovererMoves
<1> QED BY <1>1, <1>2, <1>4, <1>5, <1>6, <1>7, <1>8, <1>9 DEF RecovererStep

(* monitor() leaves the launch state it was given, or none. *)
LEMMA ObserveTyped ==
  ASSUME NEW p \in PendingStates, NEW c \in BOOLEAN, NEW g \in Jobs \cup {NoJob},
         Observe(p, c, g)
  PROVE  /\ pending' \in PendingStates /\ cancelPending' \in BOOLEAN
         /\ appGate' \in Jobs \cup {NoJob}
         /\ pending' = p \/ pending'.state = "none"
BY DEF Observe, NoPending, PendingStates

LEMMA LaunchEndsTyped ==
  ASSUME NEW result \in {"blocked", "cancelled"}, NEW c \in BOOLEAN,
         NEW g \in Jobs \cup {NoJob}, launch.job \in Jobs, LaunchEnds(result, c, g)
  PROVE  /\ launch' = Idle /\ pending' \in PendingStates /\ cancelPending' \in BOOLEAN
         /\ appGate' \in Jobs \cup {NoJob} /\ pending'.state # "starting"
<1> DEFINE p == [job |-> launch.job, state |-> result]
<1>1. p \in PendingStates /\ p.state # "starting" /\ launch' = Idle
  BY DEF PendingStates, LaunchEnds
<1>2. CASE Observe(p, c, g)
  BY <1>1, <1>2, ObserveTyped
<1>3. CASE pending' = p /\ cancelPending' = c /\ appGate' = g
  BY <1>1, <1>3
<1> QED BY <1>2, <1>3 DEF LaunchEnds

(* What the app does to the rest of the system: it signals events and takes and
   leaves mutexes no worker holds, and keeps to its own variables otherwise. *)
AppWrites ==
  /\ fresh' \subseteq fresh /\ accepted' \subseteq Jobs
  /\ launch' \in Launches /\ pending' \in PendingStates /\ cancelPending' \in BOOLEAN
  /\ appGate' \in Jobs \cup {NoJob} /\ canceller' \in Cancellers
  /\ event' \in [Jobs -> BOOLEAN] /\ mutex' \in [Jobs -> {"free", "app", "worker"}]
  /\ crashes' \in CrashCounts
  /\ launch'.pc # "idle" => launch'.job \in Jobs /\ launch'.job \notin fresh'
  /\ canceller'.pc # "idle" => canceller'.job \in Jobs
  /\ pending'.state = "starting" => pending'.job \in Jobs
  /\ \A j \in Jobs : mutex'[j] = "worker" <=> mutex[j] = "worker"
  /\ \A j \in Jobs : mutex[j] = "worker" /\ ~event[j] => ~event'[j]
  /\ canceller'.pc \in {"locked", "signal"} => mutex'[canceller'.job] = "app"
  /\ launch'.pc \in {"staging", "gated"} => worker[launch'.job] = "none"
  /\ UNCHANGED <<active, lock, workVars, diskVars, recoverer>>

LEMMA AppMoves ==
  ASSUME CloneInv, AppWrites PROVE CloneInv'
<1> USE DEF CloneInv, AppWrites
<1>1. CloneTypeOK'
  BY DEF CloneTypeOK
<1>2. JobsKnown'
  BY DEF JobsKnown, RecovererLive
<1>3. LockNames'
  BY DEF LockNames
<1>4. RecordIsOwned'
  BY DEF RecordIsOwned
<1>5. BoundaryGuarded'
  BY DEF BoundaryGuarded, CloneTypeOK
<1> QED BY <1>1, <1>2, <1>3, <1>4, <1>5

LEMMA AppStepKeeps ==
  ASSUME CloneInv, AppNext PROVE CloneInv'
<1>0. /\ fresh \subseteq Jobs /\ accepted \subseteq Jobs
      /\ launch \in Launches /\ pending \in PendingStates /\ cancelPending \in BOOLEAN
      /\ appGate \in Jobs \cup {NoJob} /\ canceller \in Cancellers
      /\ launch.pc # "idle" => launch.job \in Jobs /\ launch.job \notin fresh
      /\ canceller.pc # "idle" => canceller.job \in Jobs
      /\ pending.state = "starting" => pending.job \in Jobs
      /\ event \in [Jobs -> BOOLEAN] /\ mutex \in [Jobs -> {"free", "app", "worker"}]
      /\ \A j \in Jobs : worker[j] = "none" => mutex[j] # "worker"
      /\ canceller.pc \in {"locked", "signal"} => mutex[canceller.job] = "app"
      /\ launch.pc \in {"staging", "gated"} => worker[launch.job] = "none"
      /\ \A j \in fresh : worker[j] = "none"
      /\ active.job \in Jobs \cup {NoJob} /\ (active.job = NoJob => active.state = "none")
      /\ recoverer \in [Recoverers -> Recoveries] /\ crashes \in CrashCounts
  BY DEF CloneInv, CloneTypeOK, JobsKnown, BoundaryGuarded, JobRecords
<1>i. Idle \in Launches /\ Idle \in Cancellers /\ Idle.pc = "idle" /\ NoPending \in PendingStates
        /\ NoPending.state = "none"
  BY DEF Idle, NoPending, Launches, Cancellers, PendingStates
<1>1. ASSUME NEW j \in Jobs, LaunchBegin(j) PROVE CloneInv'
  <2>1. launch' \in Launches /\ launch'.job = j /\ launch'.pc = "staging"
    BY <1>1 DEF LaunchBegin, Launches
  <2>2. pending' \in PendingStates /\ pending'.job = j
    BY <1>1 DEF LaunchBegin, PendingStates
  <2>z. AppWrites
    BY <1>0, <1>1, <2>1, <2>2 DEF LaunchBegin, AppWrites
  <2> QED BY <2>z, AppMoves
<1>2. CASE Monitor
  <2>1. /\ pending' \in PendingStates /\ cancelPending' \in BOOLEAN
        /\ appGate' \in Jobs \cup {NoJob} /\ (pending' = pending \/ pending'.state = "none")
    BY <1>0, <1>2, ObserveTyped DEF Monitor
  <2>z. AppWrites
    BY <1>0, <1>2, <2>1 DEF Monitor, AppWrites
  <2> QED BY <2>z, AppMoves
<1>3. CASE LaunchStops
  <2>1. /\ launch' = Idle /\ pending' \in PendingStates /\ cancelPending' \in BOOLEAN
        /\ appGate' \in Jobs \cup {NoJob} /\ pending'.state # "starting"
    BY <1>0, <1>3, LaunchEndsTyped DEF LaunchStops
  <2>z. AppWrites
    BY <1>0, <1>i, <1>3, <2>1 DEF LaunchStops, AppWrites
  <2> QED BY <2>z, AppMoves
<1>4. CASE LaunchCreateGate
  <2>1. launch' \in Launches /\ launch'.job = launch.job /\ launch'.pc = "gated" /\ launch.job \in Jobs
    BY <1>0, <1>4 DEF LaunchCreateGate, Launches
  <2>z. AppWrites
    BY <1>0, <1>4, <2>1 DEF LaunchCreateGate, AppWrites
  <2> QED BY <2>z, AppMoves
<1>5. CASE LaunchCancelled
  <2>1. /\ launch' = Idle /\ pending' \in PendingStates /\ cancelPending' \in BOOLEAN
        /\ appGate' \in Jobs \cup {NoJob} /\ pending'.state # "starting"
    BY <1>0, <1>5, LaunchEndsTyped DEF LaunchCancelled
  <2>z. AppWrites
    BY <1>0, <1>i, <1>5, <2>1 DEF LaunchCancelled, AppWrites
  <2> QED BY <2>z, AppMoves
<1>6. CASE LaunchWorker
  <2>1. launch' \in Launches /\ launch'.job = launch.job /\ launch'.pc = "waiting"
          /\ launch.job \in Jobs /\ launch.job \notin fresh /\ worker[launch.job] = "none"
    BY <1>0, <1>6 DEF LaunchWorker, Launches
  <2>2. CloneTypeOK'
    BY <1>6, <2>1 DEF LaunchWorker, CloneInv, CloneTypeOK, WorkerStates
  <2>3. JobsKnown'
    BY <1>6, <2>1 DEF LaunchWorker, CloneInv, JobsKnown, RecovererLive
  <2>4. LockNames' /\ RecordIsOwned'
    BY <1>6, <2>1 DEF LaunchWorker, CloneInv, CloneTypeOK, LockNames, RecordIsOwned,
       LockHolders
  <2>5. BoundaryGuarded'
    BY <1>6, <2>1 DEF LaunchWorker, CloneInv, CloneTypeOK, BoundaryGuarded
  <2> QED BY <2>2, <2>3, <2>4, <2>5 DEF CloneInv
<1>7. CASE LaunchAcknowledged
  <2>1. /\ pending' \in PendingStates /\ cancelPending' \in BOOLEAN
        /\ appGate' \in Jobs \cup {NoJob} /\ (pending' = pending \/ pending'.state = "none")
    BY <1>0, <1>7, ObserveTyped DEF LaunchAcknowledged
  <2>z. AppWrites
    BY <1>0, <1>i, <1>7, <2>1 DEF LaunchAcknowledged, AppWrites
  <2> QED BY <2>z, AppMoves
<1>8. CASE LaunchFails
  <2>1. /\ launch' = Idle /\ pending' \in PendingStates /\ cancelPending' \in BOOLEAN
        /\ appGate' \in Jobs \cup {NoJob} /\ pending'.state # "starting"
    BY <1>0, <1>8, LaunchEndsTyped DEF LaunchFails
  <2>z. AppWrites
    BY <1>0, <1>i, <1>8, <2>1 DEF LaunchFails, AppWrites
  <2> QED BY <2>z, AppMoves
<1>9. CASE CancelPending
  <2>1. canceller' \in Cancellers /\ (canceller'.pc # "idle" => canceller'.job \in Jobs)
          /\ canceller'.pc \notin {"locked", "signal"}
    BY <1>0, <1>9 DEF CancelPending, Cancellers
  <2>z. AppWrites
    BY <1>0, <1>9, <2>1 DEF CancelPending, AppWrites
  <2> QED BY <2>z, AppMoves
<1>10. CASE CancelEarlySignal
  <2>1. canceller.job \in Jobs
    BY <1>0, <1>10 DEF CancelEarlySignal
  <2>2. accepted' \subseteq Jobs /\ event' \in [Jobs -> BOOLEAN]
          /\ \A j \in Jobs : mutex[j] = "worker" => event'[j] = event[j]
    <3>1. CASE appGate = canceller.job
      <4>1. /\ event' = [event EXCEPT ![canceller.job] = TRUE]
            /\ mutex[canceller.job] = "free"
            /\ accepted' \in {accepted, accepted \cup {canceller.job}}
        BY <1>10, <3>1 DEF CancelEarlySignal
      <4> QED BY <1>0, <2>1, <4>1
    <3>2. CASE appGate # canceller.job
      BY <1>0, <1>10, <3>2 DEF CancelEarlySignal
    <3> QED BY <3>1, <3>2
  <2>z. AppWrites
    BY <1>0, <1>i, <1>10, <2>2 DEF CancelEarlySignal, AppWrites
  <2> QED BY <2>z, AppMoves
<1>11. CASE CancelOpen
  <2>1. active.job \in Jobs
    BY <1>0, <1>11 DEF CancelOpen, ActiveStates
  <2>2. canceller' \in Cancellers /\ canceller'.job = active.job /\ canceller'.pc = "opened"
    BY <1>0, <1>11, <2>1 DEF CancelOpen, Cancellers
  <2>z. AppWrites
    BY <1>0, <1>11, <2>1, <2>2 DEF CancelOpen, AppWrites
  <2> QED BY <2>z, AppMoves
<1>12. CASE CancelLock
  <2>1. canceller' \in Cancellers /\ canceller'.job = canceller.job /\ canceller.job \in Jobs
    BY <1>0, <1>12 DEF CancelLock, Cancellers
  <2>z. AppWrites
    BY <1>0, <1>12, <2>1 DEF CancelLock, AppWrites
  <2> QED BY <2>z, AppMoves
<1>13. CASE CancelCheck
  <2>1. CASE canceller' = [canceller EXCEPT !.pc = "signal"] /\ UNCHANGED mutex
    <3>1. canceller' \in Cancellers /\ canceller'.job = canceller.job /\ canceller.job \in Jobs
      BY <1>0, <1>13, <2>1 DEF CancelCheck, Cancellers
    <3>z. AppWrites
      BY <1>0, <1>13, <2>1, <3>1 DEF CancelCheck, AppWrites
    <3> QED BY <3>z, AppMoves
  <2>2. CASE canceller' = Idle /\ mutex' = [mutex EXCEPT ![canceller.job] = "free"]
    <3>z. AppWrites
      BY <1>0, <1>i, <1>13, <2>2 DEF CancelCheck, AppWrites
    <3> QED BY <3>z, AppMoves
  <2> QED BY <1>13, <2>1, <2>2 DEF CancelCheck
<1>14. CASE CancelSignal
  <2>1. /\ pending' \in PendingStates /\ cancelPending' \in BOOLEAN
        /\ appGate' \in Jobs \cup {NoJob} /\ (pending' = pending \/ pending'.state = "none")
    BY <1>0, <1>14, ObserveTyped DEF CancelSignal
  <2>2. canceller.job \in Jobs /\ mutex[canceller.job] = "app"
    BY <1>0, <1>14 DEF CancelSignal
  <2>z. AppWrites
    BY <1>0, <1>i, <1>14, <2>1, <2>2 DEF CancelSignal, AppWrites
  <2> QED BY <2>z, AppMoves
<1>15. CASE AppCrash
  <2>1. crashes' \in CrashCounts
    BY <1>0, <1>15 DEF AppCrash, CrashCounts
  <2>z. AppWrites
    BY <1>0, <1>i, <1>15, <2>1 DEF AppCrash, AppWrites
  <2> QED BY <2>z, AppMoves
<1>16. ASSUME NEW r \in Recoverers, RecoverRequest(r) PROVE CloneInv'
  <2>1. /\ pending' \in PendingStates /\ cancelPending' \in BOOLEAN
        /\ appGate' \in Jobs \cup {NoJob} /\ (pending' = pending \/ pending'.state = "none")
    BY <1>0, <1>16, ObserveTyped DEF RecoverRequest
  <2>2. /\ recoverer' \in [Recoverers -> Recoveries]
        /\ \A q \in Recoverers \ {r} : recoverer'[q] = recoverer[q]
        /\ recoverer'[r].pc = "spawned" /\ recoverer'[r].job = active.job /\ active.job \in Jobs
    BY <1>0, <1>16 DEF RecoverRequest, Recoveries, RecovererStates
  <2>3. CloneTypeOK'
    BY <1>0, <1>16, <2>1, <2>2 DEF RecoverRequest, CloneInv, CloneTypeOK
  <2>4. JobsKnown'
    BY <1>16, <2>1, <2>2 DEF RecoverRequest, CloneInv, JobsKnown, RecovererLive
  <2>5. LockNames' /\ RecordIsOwned' /\ BoundaryGuarded'
    BY <1>16, <2>2 DEF RecoverRequest, CloneInv, LockNames, RecordIsOwned, BoundaryGuarded
  <2> QED BY <2>3, <2>4, <2>5 DEF CloneInv
<1> QED BY <1>1, <1>2, <1>3, <1>4, <1>5, <1>6, <1>7, <1>8, <1>9, <1>10, <1>11, <1>12, <1>13,
           <1>14, <1>15, <1>16 DEF AppNext, LaunchStep, CancelStep

LEMMA InitGood == Init => VssGood /\ CloneInv
<1> SUFFICES ASSUME Init PROVE VssGood /\ CloneInv
  OBVIOUS
<1>1. VssGood
  BY VssInitGood DEF Init
<1>2. NoRecord \in JobRecords
  BY DEF NoRecord, JobRecords, States, Phases
<1>3. Idle \in Launches /\ Idle \in Cancellers /\ NoPending \in PendingStates
  BY DEF Idle, NoPending, Launches, Cancellers, PendingStates
<1>4. recoverer \in [Recoverers -> Recoveries] /\ crashes \in CrashCounts
  BY DEF Init, Recoveries, RecovererStates, CrashCounts
<1>5. CloneTypeOK
  BY <1>2, <1>3, <1>4 DEF Init, CloneTypeOK, WorkerStates, Exceptions, Cleanups,
     ScriptStates
<1>6. JobsKnown /\ LockNames /\ RecordIsOwned /\ BoundaryGuarded
  BY DEF Init, Idle, NoPending, NoRecord, JobsKnown, LockNames, LockHolders, RecordIsOwned,
         BoundaryGuarded, RecovererLive
<1> QED BY <1>1, <1>5, <1>6 DEF CloneInv

(* The journal and the snapshots change only in steps of the helper and in
   clean-ups, wherever they are taken. *)
LEMMA StepKeepsVss ==
  ASSUME VssGood, CloneInv, Next PROVE VssGood'
<1>1. CASE UNCHANGED vssVars
  BY <1>1 DEF VssGood, VssTypeOK, VssInv, JournalCoversSnapshots
<1>2. ASSUME NEW j \in Jobs, HelperStep(j) \/ HelperSpawn(j) \/ HelperKill(j) PROVE VssGood'
  BY <1>2, HelperStepGood, HelperSpawnGood, HelperKillGood
<1>3. ASSUME NEW j \in Jobs, NEW ids, DeleteSnapshots(j, ids), UNCHANGED <<journal, helper>>
      PROVE VssGood'
  BY <1>3, DeleteSnapshotsGood
<1>4. CASE AppNext
  BY <1>1, <1>4 DEF AppNext, Monitor, LaunchBegin, LaunchStep, LaunchStops,
     LaunchCreateGate,
     LaunchCancelled, LaunchWorker, LaunchAcknowledged, LaunchFails, CancelStep, CancelPending,
     CancelEarlySignal, CancelOpen, CancelLock, CancelCheck, CancelSignal, RecoverRequest, AppCrash
<1>5. ASSUME NEW j \in Jobs, WorkerStep(j) PROVE VssGood'
  <2>1. CASE WStartHelper(j)
    BY <1>2, <2>1 DEF WStartHelper
  <2>2. CASE WHelperFails(j)
    BY <1>1, <1>2, <2>2 DEF WHelperFails
  <2>3. CASE WDelete(j)
    BY <1>3, <2>3 DEF WDelete
  <2>4. CASE UNCHANGED vssVars
    BY <1>1, <2>4
  <2> QED BY <1>5, <2>1, <2>2, <2>3, <2>4 DEF WorkerStep, WOpenGate, WLock, WClaim,
     WPrecheck,
      WPrecheckFails, WAnnounceHelper, WHelperDone, WJournalMissing, WJournalRead, WMapped,
      WMappingFails, WScanCancelled, WScanFails, WScanned, WBoundaryLock, WBoundaryCancelled,
      WBoundaryOpen, WBoundaryInsecure, WPublish, WStartScript, WPrepared, WPrepareFails,
      WPrepareTimeout, WCopy, WCopied, WCopyFails, WVerifyCancelled, WVerifyDiffers, WVerified,
      WAttributesCleared, WConfirm, WConfirmFails, WHandle, WRelease
<1>6. ASSUME NEW j \in Jobs, HelperRuns(j) \/ ScriptStep(j) \/ WorkerCrash(j) PROVE VssGood'
  BY <1>1, <1>2, <1>6 DEF HelperRuns, ScriptStep, ScriptMark, ScriptClear, ScriptEnds,
     WorkerCrash
<1>7. ASSUME NEW r \in Recoverers, RecovererStep(r) \/ RecovererCrash(r) PROVE VssGood'
  <2>1. recoverer[r].pc = "delete" => recoverer[r].job \in Jobs
    BY DEF CloneInv, JobsKnown, RecovererLive
  <2>2. CASE RDelete(r)
    BY <1>3, <2>1, <2>2 DEF RDelete, RStep
  <2>3. CASE UNCHANGED vssVars
    BY <1>1, <2>3
  <2> QED BY <1>7, <2>2, <2>3 DEF RecovererStep, RLock, RBegin, RRefuse, RConfirm,
     RConfirmFails,
      RRelease, RecovererCrash
<1> QED BY <1>4, <1>5, <1>6, <1>7 DEF Next

LEMMA StepKeeps == VssGood /\ CloneInv /\ [Next]_vars => VssGood' /\ CloneInv'
<1> SUFFICES ASSUME VssGood, CloneInv, [Next]_vars PROVE VssGood' /\ CloneInv'
  OBVIOUS
<1>1. CASE UNCHANGED vars
  BY <1>1 DEF vars, VssGood, VssTypeOK, VssInv, JournalCoversSnapshots, CloneInv,
     CloneTypeOK,
     JobsKnown, LockNames, RecordIsOwned, BoundaryGuarded, RecovererLive
<1>2. CASE Next
  <2>1. VssGood'
    BY <1>2, StepKeepsVss
  <2>2. CASE AppNext
    BY <2>1, <2>2, AppStepKeeps
  <2>3. ASSUME NEW j \in Jobs, WorkerStep(j) \/ HelperRuns(j) \/ ScriptStep(j) \/ WorkerCrash(j)
        PROVE  CloneInv'
    <3>1. CASE HelperRuns(j)
      BY <3>1 DEF HelperRuns, CloneInv, CloneTypeOK, JobsKnown, LockNames, RecordIsOwned,
         BoundaryGuarded, RecovererLive
    <3> QED BY <2>3, <3>1, WorkerStepKeeps, ScriptStepKeeps, WorkerCrashKeeps
  <2>4. ASSUME NEW r \in Recoverers, RecovererStep(r) \/ RecovererCrash(r) PROVE CloneInv'
    BY <2>4, RecovererStepKeeps DEF VssGood
  <2> QED BY <1>2, <2>1, <2>2, <2>3, <2>4 DEF Next
<1> QED BY <1>1, <1>2

LEMMA Invariance == Spec => [](VssGood /\ CloneInv)
BY InitGood, StepKeeps, PTL DEF Spec

(* Every variable of the data clone keeps its type, however many jobs, volumes
   and recovery processes there are and whichever of the processes crash. *)
THEOREM TypeCorrect == Spec => []TypeOK
<1>1. VssGood /\ CloneInv => TypeOK
  BY DEF VssGood, CloneInv, TypeOK
<1> QED BY <1>1, Invariance, PTL

(* Between its claim of active.json and the release of worker.lock a worker
   finds the record as it left it: no other worker and no recovery writes it,
   even after crashes that leave the lock file behind. *)
THEOREM RecordOwned == Spec => []RecordIsOwned
<1>1. VssGood /\ CloneInv => RecordIsOwned
  BY DEF CloneInv
<1> QED BY <1>1, Invariance, PTL

(* Within the whole system, too, each existing snapshot is named by its job's
   journal, which is all that a clean-up after a crash has to go by. *)
THEOREM AllSnapshotsJournaled == Spec => []SnapshotsJournaled
<1>1. VssGood /\ CloneInv => SnapshotsJournaled
  BY DEF VssGood, VssInv, SnapshotsJournaled
<1> QED BY <1>1, Invariance, PTL

(* What the boundary specification sees of the data clone. *)
Decided == [j \in Jobs |-> IF script[j] # "idle" THEN "preparing"
                           ELSE IF event[j] THEN "cancelled" ELSE "open"]

BoundaryStep == [Boundary!Next]_<<Decided, erased>>

LEMMA SignalRefines ==
  ASSUME CloneInv, NEW j \in Jobs, event' = [event EXCEPT ![j] = TRUE],
         UNCHANGED <<script, erased>>
  PROVE  BoundaryStep
<1>0. event \in [Jobs -> BOOLEAN] /\ script \in [Jobs -> ScriptStates]
  BY DEF CloneInv, CloneTypeOK
<1>1. CASE script[j] # "idle" \/ event[j]
  <2>1. Decided' = Decided
    BY <1>0, <1>1 DEF Decided
  <2> QED BY <2>1 DEF BoundaryStep
<1>2. CASE script[j] = "idle" /\ ~event[j]
  <2>1. Decided[j] = "open" /\ Decided' = [Decided EXCEPT ![j] = "cancelled"]
    BY <1>0, <1>2 DEF Decided
  <2> QED BY <2>1 DEF BoundaryStep, Boundary!Next, Boundary!Cancel, Decided
<1> QED BY <1>1, <1>2

LEMMA ScriptRefines ==
  ASSUME CloneInv, NEW j \in Jobs, NEW s \in ScriptStates, s # "idle", script[j] # "idle",
         script' = [script EXCEPT ![j] = s], UNCHANGED event,
         erased' \in {erased, erased \cup {j}}
  PROVE  BoundaryStep
<1>0. event \in [Jobs -> BOOLEAN] /\ script \in [Jobs -> ScriptStates]
  BY DEF CloneInv, CloneTypeOK
<1>1. Decided' = Decided /\ Decided[j] = "preparing"
  BY <1>0 DEF Decided
<1> QED BY <1>1 DEF BoundaryStep, Boundary!Next, Boundary!Erase, Decided

LEMMA PublishRefines ==
  ASSUME CloneInv, NEW j \in Jobs, WPublish(j) PROVE BoundaryStep
<1>0. event \in [Jobs -> BOOLEAN] /\ script \in [Jobs -> ScriptStates] /\ ~event[j]
        /\ script' = [script EXCEPT ![j] = "authorized"] /\ event' = event /\ erased' = erased
  BY DEF CloneInv, CloneTypeOK, BoundaryGuarded, WPublish, Step
<1>1. CASE script[j] # "idle"
  BY <1>0, <1>1, ScriptRefines DEF ScriptStates
<1>2. CASE script[j] = "idle"
  <2>1. Decided[j] = "open" /\ Decided' = [Decided EXCEPT ![j] = "preparing"]
    BY <1>0, <1>2 DEF Decided
  <2> QED BY <1>0, <2>1 DEF BoundaryStep, Boundary!Next, Boundary!Prepare, Decided
<1> QED BY <1>1, <1>2

LEMMA StepRefines ==
  ASSUME CloneInv, [Next]_vars PROVE BoundaryStep
<1>1. CASE UNCHANGED <<event, script, erased>>
  BY <1>1 DEF BoundaryStep, Decided
<1>2. CASE UNCHANGED vars
  BY <1>1, <1>2 DEF vars
<1>3. CASE AppNext
  <2>1. launch.pc # "idle" => launch.job \in Jobs
    BY DEF CloneInv, JobsKnown
  <2>2. canceller.pc # "idle" => canceller.job \in Jobs
    BY DEF CloneInv, JobsKnown
  <2>3. CASE LaunchCancelled
    BY <2>1, <2>3, SignalRefines DEF LaunchCancelled
  <2>4. CASE LaunchFails
    BY <2>1, <2>4, SignalRefines DEF LaunchFails
  <2>5. CASE CancelEarlySignal
    BY <1>1, <2>2, <2>5, SignalRefines DEF CancelEarlySignal
  <2>6. CASE CancelSignal
    BY <2>2, <2>6, SignalRefines DEF CancelSignal
  <2> QED BY <1>1, <1>3, <2>3, <2>4, <2>5, <2>6 DEF AppNext, Monitor, LaunchBegin,
     LaunchStep,
      LaunchStops, LaunchCreateGate, LaunchWorker, LaunchAcknowledged, CancelStep, CancelPending,
      CancelOpen, CancelLock, CancelCheck, RecoverRequest, AppCrash
<1>4. ASSUME NEW j \in Jobs, WorkerStep(j) PROVE BoundaryStep
  <2>1. CASE WPublish(j)
    BY <2>1, PublishRefines
  <2>2. CASE WStartScript(j)
    BY <2>2, ScriptRefines DEF WStartScript, ScriptMove, ScriptStates
  <2>3. CASE WPrepareTimeout(j)
    BY <2>3, ScriptRefines DEF WPrepareTimeout, ScriptLive, ScriptStates
  <2> QED BY <1>1, <1>4, <2>1, <2>2, <2>3 DEF WorkerStep, WOpenGate, WLock, WClaim,
     WPrecheck,
      WPrecheckFails, WAnnounceHelper, WStartHelper, WHelperDone, WHelperFails, WJournalMissing,
      WJournalRead, WMapped, WMappingFails, WScanCancelled, WScanFails, WScanned, WBoundaryLock,
      WBoundaryCancelled, WBoundaryOpen, WBoundaryInsecure, WPrepared, WPrepareFails,
      WCopy, WCopied, WCopyFails, WVerifyCancelled, WVerifyDiffers, WVerified,
      WAttributesCleared, WDelete, WConfirm, WConfirmFails, WHandle, WRelease
<1>5. ASSUME NEW j \in Jobs, ScriptStep(j) PROVE BoundaryStep
  <2>1. CASE ScriptMark(j)
    BY <2>1, ScriptRefines DEF ScriptMark, ScriptMove, ScriptStates
  <2>2. CASE ScriptClear(j)
    BY <2>2, ScriptRefines DEF ScriptClear, ScriptMove, ScriptStates
  <2>3. CASE ScriptEnds(j)
    BY <2>3, ScriptRefines DEF ScriptEnds, ScriptMove, ScriptStates
  <2> QED BY <1>5, <2>1, <2>2, <2>3 DEF ScriptStep
<1>6. ASSUME NEW j \in Jobs, HelperRuns(j) \/ WorkerCrash(j) PROVE BoundaryStep
  BY <1>1, <1>6 DEF HelperRuns, WorkerCrash
<1>7. ASSUME NEW r \in Recoverers, RecovererStep(r) \/ RecovererCrash(r) PROVE BoundaryStep
  BY <1>1, <1>7 DEF RecovererStep, RLock, RBegin, RRefuse, RDelete, RConfirm, RConfirmFails,
     RRelease, RecovererCrash
<1> QED BY <1>2, <1>3, <1>4, <1>5, <1>6, <1>7 DEF Next

(* The data clone implements the boundary: the owner's cancellation and the
   start of the preparation of a job are decided once and in one order, and the
   target is erased only for a job whose preparation came first, whatever
   crashes, times out or is cancelled when. *)
THEOREM BoundaryHolds == Spec => BoundaryKept
<1>1. Init => Boundary!Init
  BY DEF Init, Boundary!Init
<1>2. CloneInv /\ [Next]_vars => BoundaryStep
  BY StepRefines
<1> QED BY <1>1, <1>2, Invariance, PTL DEF Spec, BoundaryKept, Boundary!Spec,
   BoundaryStep, Decided

------------------------------------------------------------------------------
(* What the helper, its worker and a clean-up know of the snapshots. *)

(* The places of a worker, by what has happened to its snapshots. *)
BeforeHelper == {"none", "spawned", "gated", "locked", "precheck", "announced"}
Reading == {"mapping", "scan", "boundary", "decide", "publish", "prepare", "preparing",
            "prepared", "copy", "verify", "attributes"}

(* The helper runs only while its worker waits for it, or after the worker was
   killed; once it has created the set nobody deletes from it before the worker
   itself does. *)
HelperSupervised ==
  \A j \in Jobs :
    /\ HelperLive(j) => worker[j] \in {"helper", "crashed"}
    /\ worker[j] \in BeforeHelper => helper[j] = "idle"
    /\ worker[j] \in Reading \/ (worker[j] = "helper" /\ helper[j] \in {"created", "done"})
         => snaps[j] = Volumes /\ journal[j].ids = Volumes

(* A worker that moves on while its helper and its snapshots stay as they are. *)
LEMMA MoveKeepsSupervised ==
  ASSUME CloneTypeOK, HelperSupervised, NEW j \in Jobs, NEW to,
         worker' = [worker EXCEPT ![j] = to], UNCHANGED vssVars,
         worker[j] # "crashed",
         worker[j] = "helper" /\ to # "crashed" => ~HelperLive(j),
         to = "helper" => worker[j] \in BeforeHelper,
         to \in BeforeHelper => worker[j] \in BeforeHelper,
         to \in Reading => worker[j] \in Reading \/ (worker[j] = "helper" /\ helper[j] = "done")
  PROVE  HelperSupervised'
BY DEF CloneTypeOK, HelperSupervised, BeforeHelper, Reading, HelperLive, WorkerStates

LEMMA WorkerKeepsSupervised ==
  ASSUME VssTypeOK, CloneTypeOK, HelperSupervised, NEW j \in Jobs, WorkerStep(j)
  PROVE  HelperSupervised'
<1> USE DEF Step, BeforeHelper, Reading
<1>1. CASE WOpenGate(j)
  <2>1. \E to \in {"gated", "ended"} : Step(j, "spawned", to) /\ UNCHANGED vssVars
    BY <1>1 DEF WOpenGate
  <2> QED BY <2>1, MoveKeepsSupervised
<1>2. CASE WLock(j)
  BY <1>2, MoveKeepsSupervised DEF WLock
<1>3. CASE WClaim(j)
  BY <1>3, MoveKeepsSupervised DEF WClaim
<1>4. CASE WPrecheck(j)
  BY <1>4, MoveKeepsSupervised DEF WPrecheck
<1>5. CASE WAnnounceHelper(j)
  BY <1>5, MoveKeepsSupervised DEF WAnnounceHelper
<1>6. CASE WStartHelper(j)
  BY <1>6 DEF WStartHelper, HelperSpawn, HelperMove, HelperSupervised, HelperLive, VssTypeOK
<1>7. CASE WHelperDone(j)
  BY <1>7, MoveKeepsSupervised DEF WHelperDone, HelperLive
<1>8. CASE WHelperFails(j)
  <2>1. CASE HelperLive(j)
    BY <1>8, <2>1 DEF WHelperFails, HelperKill, HelperSupervised, HelperLive, VssTypeOK,
       CloneTypeOK
  <2>2. CASE ~HelperLive(j)
    BY <1>8, <2>2, MoveKeepsSupervised DEF WHelperFails
  <2> QED BY <2>1, <2>2
<1>9. CASE WJournalRead(j) \/ WJournalMissing(j)
  BY <1>9, MoveKeepsSupervised DEF WJournalRead, WJournalMissing, CleanUp
<1>10. CASE WMapped(j) \/ WScanned(j) \/ WBoundaryLock(j) \/ WBoundaryOpen(j) \/ WPublish(j)
            \/ WStartScript(j) \/ WPrepared(j) \/ WCopy(j) \/ WCopied(j) \/ WVerified(j)
  BY <1>10, MoveKeepsSupervised DEF WMapped, WScanned, WBoundaryLock, WBoundaryOpen,
     WPublish,
     WStartScript, WPrepared, WCopy, WCopied, WVerified
<1>11. CASE WPrecheckFails(j) \/ WMappingFails(j) \/ WScanCancelled(j) \/ WScanFails(j)
            \/ WBoundaryCancelled(j) \/ WBoundaryInsecure(j) \/ WPrepareFails(j)
            \/ WPrepareTimeout(j) \/ WCopyFails(j) \/ WVerifyCancelled(j) \/ WVerifyDiffers(j)
            \/ WAttributesCleared(j)
  BY <1>11, MoveKeepsSupervised DEF WPrecheckFails, WMappingFails, WScanCancelled,
     WScanFails,
     WBoundaryCancelled, WBoundaryInsecure, WPrepareFails, WPrepareTimeout, WCopyFails,
     WVerifyCancelled, WVerifyDiffers, WAttributesCleared, CleanUp
<1>12. CASE WDelete(j)
  BY <1>12 DEF WDelete, DeleteSnapshots, HelperSupervised, HelperLive, VssTypeOK,
     CloneTypeOK
<1>13. CASE WConfirm(j) \/ WConfirmFails(j)
  BY <1>13, MoveKeepsSupervised DEF WConfirm, WConfirmFails, CleanedUp
<1>14. CASE WHandle(j) \/ WRelease(j)
  BY <1>14, MoveKeepsSupervised DEF WHandle, WRelease
<1> QED BY <1>1, <1>2, <1>3, <1>4, <1>5, <1>6, <1>7, <1>8, <1>9, <1>10, <1>11, <1>12, <1>13,
           <1>14 DEF WorkerStep

(* What the steps of the helper itself do to the set of snapshots. *)
LEMMA HelperKeepsSupervised ==
  ASSUME VssGood, CloneTypeOK, HelperSupervised, NEW j \in Jobs, HelperRuns(j)
  PROVE  HelperSupervised'
<1>1. /\ HelperStep(j) /\ UNCHANGED worker
      /\ journal \in [Jobs -> [file : {"absent", "empty", "valid"}, ids : SUBSET Volumes]]
      /\ snaps \in [Jobs -> SUBSET Volumes] /\ helper \in [Jobs -> HelperStates]
      /\ helper[j] \in {"registered", "created", "rolling"} => journal[j].ids = Volumes
  BY DEF HelperRuns, VssGood, VssTypeOK, VssInv
<1>2. HelperLive(j)
  BY <1>1 DEF HelperStep, HelperLive, HelperCreateJournal, HelperWriteJournal,
     HelperRegister,
     HelperFailEarly, HelperCreateSet, HelperCreateSetFails, HelperFailLate, HelperRollBack,
     HelperClearJournal, HelperSucceed, HelperMove
<1>3. /\ \A i \in Jobs \ {j} : journal'[i] = journal[i] /\ snaps'[i] = snaps[i] /\ helper'[i] = helper[i]
      /\ helper'[j] # "idle"
      /\ helper'[j] \in {"created", "done"} => helper[j] \in {"created", "registered"}
      /\ helper'[j] = "done" => helper[j] = "created" /\ UNCHANGED <<journal, snaps>>
      /\ helper'[j] = "created" => snaps'[j] = Volumes /\ journal' = journal
  BY <1>1 DEF HelperStep, HelperCreateJournal, HelperWriteJournal, HelperRegister,
     HelperFailEarly, HelperCreateSet, HelperCreateSetFails, HelperFailLate, HelperRollBack,
     HelperClearJournal, HelperSucceed, HelperMove, HelperStates
<1> QED BY <1>1, <1>2, <1>3 DEF HelperSupervised, HelperLive, BeforeHelper, Reading

LEMMA RecovererKeepsSupervised ==
  ASSUME VssTypeOK, CloneInv, HelperSupervised, NEW r \in Recoverers,
         RecovererStep(r) \/ RecovererCrash(r)
  PROVE  HelperSupervised'
<1>1. CASE RDelete(r)
  <2>1. recoverer[r].pc = "delete" /\ recoverer[r].job \in Jobs /\ lock = r
    BY <1>1 DEF RDelete, RStep, CloneInv, JobsKnown, LockNames, RecovererLive
  <2>2. worker[recoverer[r].job] \notin LockHolders
    BY <2>1 DEF CloneInv, LockNames
  <2> QED BY <1>1, <2>1, <2>2 DEF RDelete, DeleteSnapshots, HelperSupervised, HelperLive,
     Reading,
      BeforeHelper, LockHolders, WorkerStates, VssTypeOK
<1>2. CASE UNCHANGED <<worker, vssVars>>
  BY <1>2 DEF HelperSupervised, HelperLive
<1> QED BY <1>1, <1>2 DEF RecovererStep, RLock, RBegin, RRefuse, RConfirm, RConfirmFails,
    RRelease, RecovererCrash

LEMMA StepKeepsSupervised ==
  ASSUME VssGood, CloneInv, HelperSupervised, Next PROVE HelperSupervised'
<1>0. VssTypeOK /\ CloneTypeOK
  BY DEF VssGood, CloneInv
<1>1. CASE UNCHANGED <<worker, vssVars>>
  BY <1>1 DEF HelperSupervised, HelperLive
<1>2. CASE LaunchWorker
  <2>1. launch.job \in Jobs /\ worker[launch.job] = "none"
    BY <1>2 DEF LaunchWorker, CloneInv, JobsKnown, BoundaryGuarded
  <2> QED BY <1>0, <1>2, <2>1, MoveKeepsSupervised DEF LaunchWorker, BeforeHelper, Reading
<1>3. CASE AppNext
  BY <1>1, <1>2, <1>3 DEF AppNext, Monitor, LaunchBegin, LaunchStep, LaunchStops,
     LaunchCreateGate,
     LaunchCancelled, LaunchAcknowledged, LaunchFails, CancelStep, CancelPending,
     CancelEarlySignal, CancelOpen, CancelLock, CancelCheck, CancelSignal, RecoverRequest, AppCrash
<1>4. ASSUME NEW j \in Jobs, WorkerStep(j) \/ HelperRuns(j) \/ ScriptStep(j) PROVE HelperSupervised'
  BY <1>0, <1>1, <1>4, WorkerKeepsSupervised, HelperKeepsSupervised
     DEF ScriptStep, ScriptMark, ScriptClear, ScriptEnds
<1>5. ASSUME NEW j \in Jobs, WorkerCrash(j) PROVE HelperSupervised'
  BY <1>0, <1>5, MoveKeepsSupervised DEF WorkerCrash, WorkerLive, BeforeHelper, Reading
<1>6. ASSUME NEW r \in Recoverers, RecovererStep(r) \/ RecovererCrash(r) PROVE HelperSupervised'
  BY <1>0, <1>6, RecovererKeepsSupervised
<1> QED BY <1>3, <1>4, <1>5, <1>6 DEF Next

(* What the record and a recovery know of the snapshots.  A confirmed clean-up
   stays true unless a killed worker left its helper behind. *)
CleanUpTold ==
  /\ active.job = NoJob => active.confirmed = "unset"
  /\ active.job \in Jobs => worker[active.job] \notin {"none", "spawned", "gated", "locked"}
  /\ \A j \in Jobs : worker[j] = "helper" => active.confirmed = "no"
  /\ \A r \in Recoverers : recoverer[r].pc \in {"delete", "confirm"} =>
       worker[recoverer[r].job] = "crashed" \/ snaps[recoverer[r].job] \subseteq recoverer[r].ids
  /\ active.job \in Jobs /\ active.confirmed = "yes" /\ worker[active.job] # "crashed" =>
       snaps[active.job] = {} /\ ~HelperLive(active.job)

(* What a step makes of the record: it names the same job and says this of its
   state, the clean-up, the target and the verification. *)
Tells(s, c, d, v) ==
  /\ active'.job = active.job /\ active'.state = s /\ active'.confirmed = c
  /\ active'.destroyed = d /\ active'.verified = v

LEMMA RecordWritten ==
  ASSUME active \in JobRecords, NEW j \in Jobs
  PROVE  LET s == active.state
             c == active.confirmed
             d == active.destroyed
             v == active.verified
         IN
  /\ WPrecheck(j) => Tells("snapshot", "no", d, v)
  /\ WAnnounceHelper(j) \/ WJournalRead(j) => Tells(s, "no", d, v)
  /\ WJournalMissing(j) => \/ snaps[j] = {} /\ Tells(s, "yes", d, v)
                           \/ Tells(s, "no", d, v) \/ Tells(s, c, d, v)
  /\ WScanCancelled(j) => Tells("cancelled", c, d, v) \/ Tells(s, c, d, v)
  /\ WBoundaryCancelled(j) => Tells("cancelled", c, d, v)
  /\ WPublish(j) => Tells("target_prepare", c, FALSE, v)
  /\ WPrepared(j) => Tells("target_prepare", c, TRUE, v)
  /\ WCopy(j) => Tells("copy", c, d, v)
  /\ WCopied(j) => Tells("verify", c, d, v)
  /\ WVerifyDiffers(j) => Tells("partial", c, d, v)
  /\ WVerified(j) => Tells("cleanup", c, d, TRUE)
  /\ WConfirm(j) => Tells(s, "yes", d, v) \/ (s = "cleanup" /\ Tells("complete", "yes", d, v))
  /\ WConfirmFails(j) => Tells(s, "no", d, v) \/ Tells(Incomplete(active), "no", d, v)
  /\ WHandle(j) => Tells(Outcome(exc[j], active), c, d, v)
<1> USE DEF JobRecords, Tells
<1>1. WPrecheck(j) => Tells("snapshot", "no", active.destroyed, active.verified)
  BY DEF WPrecheck
<1>2. WAnnounceHelper(j) \/ WJournalRead(j) =>
        Tells(active.state, "no", active.destroyed, active.verified)
  BY DEF WAnnounceHelper, WJournalRead
<1>3. WJournalMissing(j) =>
        \/ snaps[j] = {} /\ Tells(active.state, "yes", active.destroyed, active.verified)
        \/ Tells(active.state, "no", active.destroyed, active.verified)
        \/ Tells(active.state, active.confirmed, active.destroyed, active.verified)
  BY DEF WJournalMissing
<1>4. WScanCancelled(j) =>
        \/ Tells("cancelled", active.confirmed, active.destroyed, active.verified)
        \/ Tells(active.state, active.confirmed, active.destroyed, active.verified)
  BY DEF WScanCancelled
<1>5. WBoundaryCancelled(j) =>
        Tells("cancelled", active.confirmed, active.destroyed, active.verified)
  BY DEF WBoundaryCancelled
<1>6. WPublish(j) => Tells("target_prepare", active.confirmed, FALSE, active.verified)
  BY DEF WPublish
<1>7. WPrepared(j) => Tells("target_prepare", active.confirmed, TRUE, active.verified)
  BY DEF WPrepared
<1>8. WCopy(j) => Tells("copy", active.confirmed, active.destroyed, active.verified)
  BY DEF WCopy
<1>9. WCopied(j) => Tells("verify", active.confirmed, active.destroyed, active.verified)
  BY DEF WCopied
<1>10. WVerifyDiffers(j) =>
         Tells("partial", active.confirmed, active.destroyed, active.verified)
  BY DEF WVerifyDiffers
<1>11. WVerified(j) => Tells("cleanup", active.confirmed, active.destroyed, TRUE)
  BY DEF WVerified
<1>12. WConfirm(j) =>
         \/ Tells(active.state, "yes", active.destroyed, active.verified)
         \/ active.state = "cleanup" /\ Tells("complete", "yes", active.destroyed, active.verified)
  BY DEF WConfirm
<1>13. WConfirmFails(j) =>
         \/ Tells(active.state, "no", active.destroyed, active.verified)
         \/ Tells(Incomplete(active), "no", active.destroyed, active.verified)
  BY DEF WConfirmFails
<1>14. WHandle(j) =>
         Tells(Outcome(exc[j], active), active.confirmed, active.destroyed, active.verified)
  BY DEF WHandle
<1> QED BY <1>1, <1>2, <1>3, <1>4, <1>5, <1>6, <1>7, <1>8, <1>9, <1>10, <1>11, <1>12,
   <1>13, <1>14

(* A worker that owns the record moves on, and confirms at most what is true. *)
LEMMA OwnerTellsCleanUp ==
  ASSUME CloneInv, CleanUpTold, HelperSupervised, NEW j \in Jobs, active.job = j,
         worker[j] \in LockHolders \ {"locked", "release"},
         worker' = [worker EXCEPT ![j] = worker'[j]],
         worker'[j] \in LockHolders \ {"locked"},
         active'.job = j,
         active'.confirmed = "yes" => active.confirmed = "yes" \/ (snaps'[j] = {} /\ ~HelperLive(j)'),
         worker'[j] = "helper" => active'.confirmed = "no",
         UNCHANGED recoverer, snaps' = [snaps EXCEPT ![j] = snaps'[j]],
         snaps'[j] \subseteq snaps[j],
         HelperLive(j)' => HelperLive(j) \/ worker'[j] = "helper"
  PROVE  CleanUpTold'
<1>1. \A r \in Recoverers : recoverer[r].pc \notin {"delete", "confirm"}
  BY DEF CloneInv, LockNames
<1>2. \A i \in Jobs \ {j} : worker[i] \notin LockHolders
  BY DEF CloneInv, LockNames
<1> QED BY <1>1, <1>2 DEF CleanUpTold, CloneInv, CloneTypeOK, LockHolders, WorkerStates

LEMMA WorkerTellsCleanUp ==
  ASSUME VssTypeOK, CloneInv, CleanUpTold, HelperSupervised, NEW j \in Jobs, WorkerStep(j)
  PROVE  CleanUpTold'
<1> USE DEF Step, LockHolders, WorkerStates
<1>0. /\ active \in JobRecords /\ worker \in [Jobs -> WorkerStates]
      /\ snaps \in [Jobs -> SUBSET Volumes] /\ helper \in [Jobs -> HelperStates]
      /\ worker[j] \in LockHolders \ {"locked", "release"} => active.job = j
      /\ HelperLive(j) => worker[j] \in {"helper", "crashed"}
  BY DEF CloneInv, CloneTypeOK, RecordIsOwned, VssTypeOK, HelperSupervised
<1>1. CASE WOpenGate(j)
  <2>1. \E to \in {"gated", "ended"} : Step(j, "spawned", to)
    BY <1>1 DEF WOpenGate
  <2> QED BY <1>0, <1>1, <2>1 DEF WOpenGate, CleanUpTold, HelperLive
<1>2. CASE WLock(j)
  <2>1. \E to \in {"locked", "ended"} : Step(j, "gated", to)
    BY <1>2 DEF WLock
  <2> QED BY <1>0, <1>2, <2>1 DEF WLock, CleanUpTold, HelperLive
<1>3. CASE WClaim(j)
  <2>1. NewRecord(j).job = j /\ NewRecord(j).confirmed = "unset"
    BY DEF NewRecord, NoRecord
  <2> QED BY <1>0, <1>3, <2>1 DEF WClaim, CleanUpTold, HelperLive, CloneInv, LockNames
<1>4. CASE WRelease(j)
  BY <1>0, <1>4 DEF WRelease, CleanUpTold, HelperLive
<1>5. CASE WStartHelper(j)
  BY <1>0, <1>5, OwnerTellsCleanUp DEF WStartHelper, HelperSpawn, HelperMove, HelperLive,
     CleanUpTold
<1>6. CASE WHelperDone(j)
  BY <1>0, <1>6, OwnerTellsCleanUp DEF WHelperDone, HelperLive
<1>7. CASE WHelperFails(j)
  BY <1>0, <1>7, OwnerTellsCleanUp DEF WHelperFails, HelperKill, HelperLive
<1>8. CASE \/ WPrecheckFails(j) \/ WMapped(j) \/ WMappingFails(j) \/ WScanFails(j) \/ WScanned(j)
           \/ WBoundaryLock(j) \/ WBoundaryOpen(j) \/ WBoundaryInsecure(j)
  BY <1>0, <1>8, OwnerTellsCleanUp DEF WPrecheckFails, WMapped, WMappingFails, WScanFails,
     WScanned,
     WBoundaryLock, WBoundaryOpen, WBoundaryInsecure, CleanUp, HelperLive
<1>9. CASE \/ WStartScript(j) \/ WPrepareFails(j) \/ WPrepareTimeout(j) \/ WCopyFails(j)
           \/ WVerifyCancelled(j) \/ WAttributesCleared(j)
  BY <1>0, <1>9, OwnerTellsCleanUp DEF WStartScript, WPrepareFails, WPrepareTimeout,
     WCopyFails,
     WVerifyCancelled, WAttributesCleared, CleanUp, HelperLive
<1>10. CASE WDelete(j)
  BY <1>0, <1>10, OwnerTellsCleanUp DEF WDelete, DeleteSnapshots, HelperLive
<1>11. ASSUME NEW s, NEW c, NEW d, NEW v, Tells(s, c, d, v), UNCHANGED <<vssVars, recoverer>>,
              worker[j] \in LockHolders \ {"locked", "release"},
              worker' = [worker EXCEPT ![j] = worker'[j]],
              worker'[j] \in LockHolders \ {"locked"}, worker[j] # "helper",
              c = "no" \/ (worker'[j] # "helper" /\ (c = active.confirmed \/ snaps[j] = {}))
       PROVE  CleanUpTold'
  <2>1. active'.job = j /\ ~HelperLive(j) /\ HelperLive(j)' = HelperLive(j)
    BY <1>0, <1>11 DEF Tells, HelperLive
  <2> QED BY <1>0, <1>11, <2>1, OwnerTellsCleanUp DEF Tells
<1>12. CASE \/ WPrecheck(j) \/ WAnnounceHelper(j) \/ WJournalRead(j) \/ WJournalMissing(j)
            \/ WScanCancelled(j) \/ WBoundaryCancelled(j) \/ WPublish(j) \/ WPrepared(j)
            \/ WCopy(j) \/ WCopied(j) \/ WVerifyDiffers(j) \/ WVerified(j) \/ WConfirm(j)
            \/ WConfirmFails(j) \/ WHandle(j)
  <2>1. \E s, c, d, v :
          /\ Tells(s, c, d, v)
          /\ c = "no" \/ (~WAnnounceHelper(j) /\ (c = active.confirmed \/ snaps[j] = {}))
    BY <1>0, <1>12, RecordWritten DEF WConfirm
  <2>2. /\ UNCHANGED <<recoverer, vssVars>>
        /\ worker[j] \in LockHolders \ {"locked", "release", "helper"}
        /\ worker' = [worker EXCEPT ![j] = worker'[j]]
        /\ worker'[j] \in LockHolders \ {"locked"}
        /\ worker'[j] = "helper" => WAnnounceHelper(j)
    BY <1>0, <1>12 DEF WPrecheck, WAnnounceHelper, WJournalRead, WJournalMissing,
      WScanCancelled, WBoundaryCancelled, WPublish, WPrepared, WCopy, WCopied, WVerifyDiffers,
      WVerified, WConfirm, WConfirmFails, WHandle, CleanUp, CleanedUp
  <2> QED BY <1>11, <2>1, <2>2
<1> QED BY <1>1, <1>2, <1>3, <1>4, <1>5, <1>6, <1>7, <1>8, <1>9, <1>10, <1>12 DEF WorkerStep
(* A step of a helper is one of a live helper, and touches its own job only. *)
LEMMA HelperStepLocal ==
  ASSUME VssTypeOK, NEW j \in Jobs, HelperStep(j)
  PROVE  HelperLive(j) /\ \A i \in Jobs \ {j} : snaps'[i] = snaps[i] /\ helper'[i] = helper[i]
<1> USE DEF HelperStep, HelperCreateJournal, HelperWriteJournal, HelperRegister, HelperFailEarly,
    HelperCreateSet, HelperCreateSetFails, HelperFailLate, HelperRollBack, HelperClearJournal,
    HelperSucceed, HelperMove
<1>1. HelperLive(j)
  BY DEF HelperLive
<1>2. \A i \in Jobs \ {j} : snaps'[i] = snaps[i] /\ helper'[i] = helper[i]
  BY DEF VssTypeOK
<1> QED BY <1>1, <1>2

LEMMA HelperTellsCleanUp ==
  ASSUME VssGood, CloneInv, CleanUpTold, HelperSupervised, NEW j \in Jobs, HelperRuns(j)
  PROVE  CleanUpTold'
<1>1. /\ HelperStep(j) /\ UNCHANGED cloneVars /\ worker[j] \in {"helper", "crashed"}
      /\ \A i \in Jobs \ {j} : snaps'[i] = snaps[i] /\ helper'[i] = helper[i]
  BY HelperStepLocal DEF HelperRuns, VssGood, HelperSupervised
<1>2. worker[j] = "helper" => lock = j /\ active.confirmed = "no"
  BY DEF CloneInv, LockNames, LockHolders, WorkerStates, CleanUpTold
<1>3. \A r \in Recoverers : recoverer[r].pc \in {"delete", "confirm"} =>
        recoverer[r].job \in Jobs /\ lock = r
  BY DEF CloneInv, JobsKnown, LockNames, RecovererLive
<1> QED BY <1>1, <1>2, <1>3 DEF CleanUpTold, HelperLive

(* What a step of a recovery makes of the record. *)
LEMMA RecoveryWritten ==
  ASSUME active \in JobRecords, NEW r \in Recoverers
  PROVE  /\ RBegin(r) => Tells("cleanup", active.confirmed, active.destroyed, active.verified)
         /\ StillPending(r) => \/ Tells(Incomplete(active), "no", active.destroyed, active.verified)
                               \/ active' = active
         /\ RConfirm(r) => Tells(Incomplete(active), "yes", active.destroyed, active.verified)
<1> USE DEF JobRecords, Tells
<1>1. RBegin(r) => Tells("cleanup", active.confirmed, active.destroyed, active.verified)
  BY DEF RBegin
<1>2. StillPending(r) => \/ Tells(Incomplete(active), "no", active.destroyed, active.verified)
                         \/ active' = active
  BY DEF StillPending
<1>3. RConfirm(r) => Tells(Incomplete(active), "yes", active.destroyed, active.verified)
  BY DEF RConfirm
<1> QED BY <1>1, <1>2, <1>3

LEMMA RecovererTellsCleanUp ==
  ASSUME VssGood, CloneInv, CleanUpTold, HelperSupervised, NEW r \in Recoverers,
         RecovererStep(r) \/ RecovererCrash(r)
  PROVE  CleanUpTold'
<1>0. /\ active \in JobRecords /\ recoverer \in [Recoverers -> Recoveries]
      /\ worker \in [Jobs -> WorkerStates] /\ snaps \in [Jobs -> SUBSET Volumes]
      /\ \A q \in Recoverers : RecovererLive(q) => recoverer[q].job \in Jobs
      /\ recoverer[r].pc \in Recovering =>
           lock = r /\ \A j \in Jobs : worker[j] \notin LockHolders
      /\ \A j \in Jobs : snaps[j] \subseteq journal[j].ids
      /\ \A j \in Jobs : HelperLive(j) => worker[j] \in {"helper", "crashed"}
  BY DEF CloneInv, CloneTypeOK, JobsKnown, LockNames, Recovering, VssGood, VssInv,
     VssTypeOK,
     JournalCoversSnapshots, HelperSupervised
<1>1. CASE \/ RLock(r) \/ RRelease(r) \/ RecovererCrash(r)
  <2>1. /\ recoverer'[r].pc \notin {"delete", "confirm"} /\ UNCHANGED <<active, worker, vssVars>>
        /\ \A q \in Recoverers \ {r} : recoverer'[q] = recoverer[q]
    BY <1>0, <1>1 DEF RLock, RRelease, RecovererCrash, RStep, Ended, Recoveries
  <2> QED BY <2>1 DEF CleanUpTold, HelperLive
<1>2. CASE RBegin(r)
  <2>1. active'.job = active.job /\ active'.confirmed = active.confirmed
    BY <1>0, <1>2, RecoveryWritten DEF Tells
  <2>2. recoverer'[r].job = active.job /\ recoverer'[r].ids = journal[active.job].ids
        /\ active.job \in Jobs
    BY <1>0, <1>2 DEF RBegin, Recoveries, RecovererLive
  <2> QED BY <1>0, <1>2, <2>1, <2>2 DEF RBegin, CleanUpTold, HelperLive, LockHolders,
     WorkerStates,
      Recovering
<1>3. ASSUME NEW from \in {"begin", "confirm"}, RStep(r, from, "release"), StillPending(r),
             UNCHANGED <<notRecovering, lock, vssVars>>
      PROVE  CleanUpTold'
  <2>1. active'.job = active.job /\ (active'.confirmed = "no" \/ active' = active)
    BY <1>0, <1>3, RecoveryWritten DEF Tells
  <2>2. active' # active => active.job \in Jobs
    BY <1>0, <1>3 DEF StillPending, RStep, RecovererLive
  <2> QED BY <1>0, <1>3, <2>1, <2>2 DEF RStep, CleanUpTold, HelperLive
<1>4. CASE RRefuse(r) \/ RConfirmFails(r)
  BY <1>3, <1>4 DEF RRefuse, RConfirmFails
<1>5. CASE RDelete(r)
  <2>1. recoverer[r].job \in Jobs /\ \A j \in Jobs : snaps'[j] \subseteq snaps[j]
    BY <1>0, <1>5 DEF RDelete, RStep, DeleteSnapshots, RecovererLive
  <2>2. /\ recoverer[r].pc = "delete" /\ UNCHANGED <<active, worker, helper>>
        /\ \A q \in Recoverers : /\ recoverer'[q].job = recoverer[q].job
                               /\ recoverer'[q].ids = recoverer[q].ids
        /\ \A q \in Recoverers \ {r} : recoverer'[q].pc = recoverer[q].pc
    BY <1>0, <1>5 DEF RDelete, RStep, Recoveries
  <2>3. \A q \in Recoverers : recoverer[q].pc \in {"delete", "confirm"} => recoverer[q].job \in Jobs
    BY <1>0 DEF RecovererLive
  <2> QED BY <2>1, <2>2, <2>3 DEF CleanUpTold, HelperLive
<1>6. CASE RConfirm(r)
  <2>1. recoverer[r].job \in Jobs /\ recoverer[r].pc = "confirm" /\ active.job = recoverer[r].job
    BY <1>0, <1>6 DEF RConfirm, RStep, RecovererLive, CloneInv, RecordIsOwned
  <2>2. active'.job = active.job
    BY <1>0, <1>6, RecoveryWritten DEF Tells
  <2>3. worker[active.job] # "crashed" => snaps[active.job] = {} /\ ~HelperLive(active.job)
    BY <1>0, <1>6, <2>1 DEF RConfirm, CleanUpTold, Recovering, LockHolders, WorkerStates
  <2>4. \A j \in Jobs : worker[j] # "helper"
    BY <1>0, <2>1 DEF Recovering, LockHolders, WorkerStates
  <2> QED BY <1>0, <1>6, <2>1, <2>2, <2>3, <2>4 DEF RConfirm, RStep, CleanUpTold, HelperLive
<1> QED BY <1>1, <1>2, <1>4, <1>5, <1>6 DEF RecovererStep

LEMMA StepKeepsCleanUp ==
  ASSUME VssGood, CloneInv, HelperSupervised, CleanUpTold, Next PROVE CleanUpTold'
<1>0. VssTypeOK /\ CloneTypeOK
  BY DEF VssGood, CloneInv
<1>1. CASE UNCHANGED <<worker, vssVars, recoverer, active>>
  BY <1>1 DEF CleanUpTold, HelperLive
<1>2. CASE LaunchWorker
  <2>1. launch.job \in Jobs /\ worker[launch.job] = "none"
    BY <1>2 DEF LaunchWorker, CloneInv, JobsKnown, BoundaryGuarded
  <2> QED BY <1>0, <1>2, <2>1 DEF LaunchWorker, CleanUpTold, HelperLive, CloneTypeOK
<1>3. ASSUME NEW r \in Recoverers, RecoverRequest(r) PROVE CleanUpTold'
  BY <1>0, <1>3 DEF RecoverRequest, CleanUpTold, HelperLive, CloneTypeOK, Recoveries
<1>4. CASE AppNext
  BY <1>1, <1>2, <1>3, <1>4 DEF AppNext, Monitor, LaunchBegin, LaunchStep, LaunchStops,
     LaunchCreateGate, LaunchCancelled, LaunchAcknowledged, LaunchFails, CancelStep, CancelPending,
     CancelEarlySignal, CancelOpen, CancelLock, CancelCheck, CancelSignal, AppCrash
<1>5. ASSUME NEW j \in Jobs, WorkerStep(j) \/ HelperRuns(j) \/ ScriptStep(j) PROVE CleanUpTold'
  BY <1>0, <1>1, <1>5, WorkerTellsCleanUp, HelperTellsCleanUp
     DEF ScriptStep, ScriptMark, ScriptClear, ScriptEnds
<1>6. ASSUME NEW j \in Jobs, WorkerCrash(j) PROVE CleanUpTold'
  BY <1>0, <1>6 DEF WorkerCrash, WorkerLive, CleanUpTold, HelperLive, CloneTypeOK
<1>7. ASSUME NEW r \in Recoverers, RecovererStep(r) \/ RecovererCrash(r) PROVE CleanUpTold'
  BY <1>7, RecovererTellsCleanUp
<1> QED BY <1>4, <1>5, <1>6, <1>7 DEF Next

------------------------------------------------------------------------------
(* Who is to delete the snapshots that exist. *)

Tending == LockHolders \ {"locked", "precheck", "handle", "release"}

(* What LeftIsOffered asks of a job with snapshots. *)
Offered(j) ==
  \/ active.job = j /\ (RecoveryPending(active) \/ worker[j] \in {"delete", "confirm"})
  \/ /\ worker[j] = "crashed"
     /\ active.job = j => active.confirmed = "yes" \/ active.phase = "PRECHECK"

(* While a worker has snapshots its record says so, but for a cancellation whose
   clean-up is still to come and says it again when it fails. *)
PhaseTold(j) ==
  /\ worker[j] \in Tending \cup {"precheck"} => ~active.recovery
  /\ worker[j] \in Tending =>
       /\ active.confirmed = "no"
       /\ \/ active.phase \in VssPhases
          \/ worker[j] \in {"delete", "confirm"} /\ clean[j] = "final" /\ active.phase = "PRECHECK"

(* A record that asks for a recovery forbids a new job, and whoever has snapshots,
   or a helper that may yet make them, is offered. *)
OfferTold ==
  /\ active.recovery => Unconfirmed(active)
  /\ \A j \in Jobs : PhaseTold(j)
  /\ \A j \in Jobs : snaps[j] # {} \/ HelperLive(j) => Offered(j)

(* What a step makes of the record: it names the same job and offers this. *)
Offers(p, c, q) ==
  /\ active'.job = active.job /\ active'.phase = p
  /\ active'.confirmed = c /\ active'.recovery = q

LEMMA OfferWritten ==
  ASSUME active \in JobRecords, NEW j \in Jobs
  PROVE  LET p == active.phase
             c == active.confirmed
             q == active.recovery
         IN
  /\ WPrecheck(j) => Offers("SNAPSHOT", "no", q)
  /\ WAnnounceHelper(j) \/ WJournalRead(j) => Offers(p, "no", q)
  /\ WJournalMissing(j) => \/ snaps[j] = {} /\ Offers(p, "yes", FALSE)
                           \/ Offers(p, "no", TRUE) \/ Offers(p, c, q)
  /\ WScanCancelled(j) => Offers("SNAPSHOT", c, q) \/ Offers("PRECHECK", c, q) \/ Offers(p, c, q)
  /\ WBoundaryCancelled(j) => Offers("PRECHECK", c, q)
  /\ WPublish(j) \/ WPrepared(j) => Offers("TARGET_PREPARE", c, q)
  /\ WCopy(j) => Offers("COPY", c, q)
  /\ WCopied(j) \/ WVerifyDiffers(j) => Offers("VERIFY", c, q)
  /\ WVerified(j) => Offers("CLEANUP", c, q)
  /\ WConfirm(j) => snaps[j] = {} /\ \E p2 \in Phases : Offers(p2, "yes", FALSE)
  /\ WConfirmFails(j) => \/ clean[j] # "final" /\ Offers(p, "no", TRUE)
                         \/ Offers("CLEANUP", "no", TRUE)
  /\ WHandle(j) => Offers(p, c, q)
<1> USE DEF JobRecords, Offers
<1>1. WPrecheck(j) => Offers("SNAPSHOT", "no", active.recovery)
  BY DEF WPrecheck
<1>2. WAnnounceHelper(j) \/ WJournalRead(j) => Offers(active.phase, "no", active.recovery)
  BY DEF WAnnounceHelper, WJournalRead
<1>3. WJournalMissing(j) =>
        \/ snaps[j] = {} /\ Offers(active.phase, "yes", FALSE)
        \/ Offers(active.phase, "no", TRUE)
        \/ Offers(active.phase, active.confirmed, active.recovery)
  BY DEF WJournalMissing
<1>4. WScanCancelled(j) =>
        \/ Offers("SNAPSHOT", active.confirmed, active.recovery)
        \/ Offers("PRECHECK", active.confirmed, active.recovery)
        \/ Offers(active.phase, active.confirmed, active.recovery)
  BY DEF WScanCancelled
<1>5. WBoundaryCancelled(j) => Offers("PRECHECK", active.confirmed, active.recovery)
  BY DEF WBoundaryCancelled
<1>6. WPublish(j) \/ WPrepared(j) => Offers("TARGET_PREPARE", active.confirmed, active.recovery)
  BY DEF WPublish, WPrepared
<1>7. WCopy(j) => Offers("COPY", active.confirmed, active.recovery)
  BY DEF WCopy
<1>8. WCopied(j) \/ WVerifyDiffers(j) => Offers("VERIFY", active.confirmed, active.recovery)
  BY DEF WCopied, WVerifyDiffers
<1>9. WVerified(j) => Offers("CLEANUP", active.confirmed, active.recovery)
  BY DEF WVerified
<1>10. WConfirm(j) => snaps[j] = {} /\ \E p2 \in Phases : Offers(p2, "yes", FALSE)
  BY DEF WConfirm, Phases
<1>11. WConfirmFails(j) => \/ clean[j] # "final" /\ Offers(active.phase, "no", TRUE)
                           \/ Offers("CLEANUP", "no", TRUE)
  BY DEF WConfirmFails
<1>12. WHandle(j) => Offers(active.phase, active.confirmed, active.recovery)
  BY DEF WHandle
<1> QED BY <1>1, <1>2, <1>3, <1>4, <1>5, <1>6, <1>7, <1>8, <1>9, <1>10, <1>11, <1>12

(* A worker that owns the record disturbs the offer of its own job only. *)
LEMMA OwnerOffers ==
  ASSUME VssTypeOK, CloneInv, OfferTold, NEW j \in Jobs, active.job = j,
         worker[j] \in LockHolders \ {"locked", "release"},
         worker' = [worker EXCEPT ![j] = worker'[j]],
         active'.job = j,
         active'.recovery => Unconfirmed(active)', PhaseTold(j)',
         snaps'[j] # {} \/ HelperLive(j)' => Offered(j)',
         snaps' = [snaps EXCEPT ![j] = snaps'[j]],
         helper' = [helper EXCEPT ![j] = helper'[j]]
  PROVE  OfferTold'
<1>0. /\ \A i \in Jobs \ {j} : worker[i] \notin LockHolders
      /\ worker \in [Jobs -> WorkerStates] /\ snaps \in [Jobs -> SUBSET Volumes]
      /\ helper \in [Jobs -> HelperStates]
  BY DEF CloneInv, LockNames, CloneTypeOK, VssTypeOK
<1>1. \A i \in Jobs \ {j} : PhaseTold(i)'
  BY <1>0 DEF PhaseTold, Tending, LockHolders, WorkerStates
<1>2. ASSUME NEW i \in Jobs \ {j}, snaps'[i] # {} \/ HelperLive(i)' PROVE Offered(i)'
  BY <1>0, <1>2 DEF OfferTold, Offered, HelperLive
<1> QED BY <1>1, <1>2 DEF OfferTold

LEMMA WorkerTellsOffer ==
  ASSUME VssTypeOK, CloneInv, HelperSupervised, CleanUpTold, OfferTold, NEW j \in Jobs,
         WorkerStep(j)
  PROVE  OfferTold'
<1> USE DEF Step, LockHolders, WorkerStates, Tending
<1>0. /\ active \in JobRecords /\ worker \in [Jobs -> WorkerStates]
      /\ exc \in [Jobs -> Exceptions] /\ clean \in [Jobs -> Cleanups]
      /\ snaps \in [Jobs -> SUBSET Volumes] /\ helper \in [Jobs -> HelperStates]
      /\ worker[j] \in LockHolders \ {"locked", "release"} => active.job = j
      /\ HelperLive(j) => worker[j] \in {"helper", "crashed"}
      /\ active.recovery => Unconfirmed(active)
      /\ PhaseTold(j)
      /\ snaps[j] # {} \/ HelperLive(j) => Offered(j)
  BY DEF CloneInv, CloneTypeOK, RecordIsOwned, VssTypeOK, HelperSupervised, OfferTold
<1>1. ASSUME UNCHANGED <<active, vssVars>>, NEW to,
             worker' = [worker EXCEPT ![j] = to], \A i \in Jobs \ {j} : clean'[i] = clean[i],
             worker[j] \in {"spawned", "gated", "locked", "release"},
             to \in {"gated", "locked", "release", "ended"}
      PROVE  OfferTold'
  BY <1>0, <1>1 DEF OfferTold, PhaseTold, Offered, HelperLive, CleanUpTold
<1>2. CASE WOpenGate(j)
  <2>1. \E to \in {"gated", "ended"} : Step(j, "spawned", to)
    BY <1>2 DEF WOpenGate
  <2> QED BY <1>1, <1>2, <2>1 DEF WOpenGate
<1>3. CASE WLock(j)
  <2>1. \E to \in {"locked", "ended"} : Step(j, "gated", to)
    BY <1>3 DEF WLock
  <2> QED BY <1>1, <1>3, <2>1 DEF WLock
<1>4. CASE WRelease(j)
  BY <1>0, <1>1, <1>4 DEF WRelease, LocalsGone
<1>5. CASE WClaim(j) /\ Blocks(active)
  BY <1>1, <1>5 DEF WClaim
<1>6. CASE WClaim(j) /\ ~Blocks(active)
  <2>1. /\ active'.job = j /\ ~active'.recovery /\ worker' = [worker EXCEPT ![j] = "precheck"]
        /\ worker[j] = "locked" /\ UNCHANGED <<vssVars, clean>>
    BY <1>6 DEF WClaim, NewRecord, NoRecord
  <2>2. ~RecoveryPending(active)
    BY <1>0, <1>6 DEF Blocks, RecoveryPending
  <2>3. \A i \in Jobs \ {j} : worker[i] \notin LockHolders
    BY <2>1 DEF CloneInv, LockNames
  <2>4. ASSUME NEW i \in Jobs, snaps[i] # {} \/ HelperLive(i)
        PROVE  i # j /\ worker[i] = "crashed"
    BY <2>1, <2>2, <2>3, <2>4 DEF OfferTold, Offered, CleanUpTold
  <2>5. \A i \in Jobs : PhaseTold(i)'
    BY <1>0, <2>1, <2>3 DEF PhaseTold
  <2>6. \A i \in Jobs : snaps'[i] # {} \/ HelperLive(i)' => Offered(i)'
    BY <1>0, <2>1, <2>4 DEF Offered, HelperLive
  <2> QED BY <2>1, <2>5, <2>6 DEF OfferTold
<1>7. CASE WStartHelper(j)
  <2>1. PhaseTold(j)' /\ Offered(j)' /\ UNCHANGED <<active, worker, snaps>>
        /\ active.job = j /\ worker[j] = "helper"
    BY <1>0, <1>7 DEF WStartHelper, PhaseTold, Offered, RecoveryPending, Unconfirmed, HelperSpawn,
       cloneVars, workVars
  <2>2. helper' = [helper EXCEPT ![j] = helper'[j]]
    BY <1>0, <1>7 DEF WStartHelper, HelperSpawn, HelperMove
  <2> QED BY <1>0, <2>1, <2>2, OwnerOffers
<1>8. ASSUME UNCHANGED active, active.job = j, NEW to \in LockHolders \ {"locked"},
             worker[j] \in LockHolders \ {"locked", "release", "delete", "confirm"},
             worker' = [worker EXCEPT ![j] = to],
             to \in Tending => worker[j] \in Tending,
             to # "precheck",
             UNCHANGED snaps, helper' = [helper EXCEPT ![j] = helper'[j]],
             HelperLive(j)' => HelperLive(j)
      PROVE  OfferTold'
  <2>1. PhaseTold(j)'
    BY <1>0, <1>8 DEF PhaseTold
  <2>2. Offered(j) => Offered(j)'
    BY <1>0, <1>8 DEF Offered
  <2> QED BY <1>0, <1>8, <2>1, <2>2, OwnerOffers
<1>9. CASE WHelperDone(j) \/ WHelperFails(j)
  BY <1>0, <1>8, <1>9 DEF WHelperDone, WHelperFails, HelperKill, HelperMove, HelperLive
<1>10. CASE \/ WPrecheckFails(j) \/ WMapped(j) \/ WMappingFails(j) \/ WScanFails(j)
            \/ WScanned(j) \/ WBoundaryLock(j) \/ WBoundaryOpen(j) \/ WBoundaryInsecure(j)
  BY <1>0, <1>8, <1>10 DEF WPrecheckFails, WMapped, WMappingFails, WScanFails, WScanned,
     WBoundaryLock, WBoundaryOpen, WBoundaryInsecure, CleanUp, HelperLive
<1>11. CASE \/ WStartScript(j) \/ WPrepareFails(j) \/ WPrepareTimeout(j) \/ WCopyFails(j)
            \/ WVerifyCancelled(j) \/ WAttributesCleared(j)
  BY <1>0, <1>8, <1>11 DEF WStartScript, WPrepareFails, WPrepareTimeout, WCopyFails,
     WVerifyCancelled, WAttributesCleared, CleanUp, HelperLive
<1>12. CASE WDelete(j)
  <2>1. PhaseTold(j)' /\ Offered(j)'
    BY <1>0, <1>12 DEF WDelete, PhaseTold, Offered
  <2> QED BY <1>0, <1>12, <2>1, OwnerOffers DEF WDelete, DeleteSnapshots
<1>13. ASSUME NEW p, NEW c, NEW q, Offers(p, c, q), UNCHANGED vssVars,
              worker[j] \in LockHolders \ {"locked", "release", "helper"},
              worker' = [worker EXCEPT ![j] = worker'[j]],
              worker'[j] \in LockHolders \ {"locked", "precheck"},
              q => p \in VssPhases /\ c # "yes",
              worker'[j] \in Tending =>
                /\ c = "no" /\ ~q
                /\ \/ p \in VssPhases
                   \/ worker'[j] = "delete" /\ clean'[j] = "final" /\ p = "PRECHECK",
              worker'[j] \in {"handle", "release"} =>
                snaps[j] = {} \/ (p \in VssPhases /\ c # "yes")
       PROVE  OfferTold'
  <2>1. active'.recovery => Unconfirmed(active)'
    BY <1>13 DEF Offers, Unconfirmed
  <2>2. PhaseTold(j)'
    BY <1>0, <1>13 DEF Offers, PhaseTold
  <2>3. snaps'[j] # {} \/ HelperLive(j)' => Offered(j)'
    BY <1>0, <1>13 DEF Offers, Offered, RecoveryPending, Unconfirmed, HelperLive
  <2> QED BY <1>0, <1>13, <2>1, <2>2, <2>3, OwnerOffers DEF Offers
<1>14. ASSUME UNCHANGED vssVars, worker[j] \in Tending \cup {"precheck"}, worker[j] # "helper",
              worker' = [worker EXCEPT ![j] = worker'[j]], worker'[j] \in Tending,
              NEW p \in Phases, NEW c, Offers(p, c, active.recovery),
              c = "no" \/ (c = active.confirmed /\ worker[j] \in Tending),
              p \in VssPhases \/ (worker'[j] = "delete" /\ clean'[j] = "final" /\ p = "PRECHECK")
       PROVE  OfferTold'
  BY <1>0, <1>13, <1>14 DEF PhaseTold
<1>15. CASE WPrecheck(j)
  BY <1>0, <1>14, <1>15, OfferWritten DEF WPrecheck, VssPhases, Phases
<1>16. CASE WAnnounceHelper(j) \/ WJournalRead(j)
  <2>1. Offers(active.phase, "no", active.recovery)
    BY <1>0, <1>16, OfferWritten
  <2>2. active.phase \in VssPhases
    BY <1>0, <1>16 DEF WAnnounceHelper, WJournalRead, PhaseTold, CleanUp
  <2> QED BY <1>0, <1>14, <1>16, <2>1, <2>2 DEF WAnnounceHelper, WJournalRead, CleanUp, Phases
<1>17. CASE WJournalMissing(j)
  <2>1. worker[j] = "journal" /\ worker' = [worker EXCEPT ![j] = "handle"] /\ UNCHANGED vssVars
    BY <1>17 DEF WJournalMissing
  <2>2. active.phase \in VssPhases /\ active.confirmed = "no" /\ ~active.recovery
    BY <1>0, <2>1 DEF PhaseTold
  <2>3. \/ snaps[j] = {} /\ Offers(active.phase, "yes", FALSE)
        \/ Offers(active.phase, "no", TRUE) \/ Offers(active.phase, "no", active.recovery)
    BY <1>0, <1>17, <2>2, OfferWritten
  <2> QED BY <1>0, <1>13, <2>1, <2>2, <2>3
<1>18. CASE WScanCancelled(j) \/ WBoundaryCancelled(j)
  <2>1. /\ worker[j] \in {"scan", "decide"} /\ worker' = [worker EXCEPT ![j] = "delete"]
        /\ clean'[j] = "final" /\ UNCHANGED vssVars
    BY <1>0, <1>18 DEF WScanCancelled, WBoundaryCancelled, CleanUp
  <2>2. active.phase \in VssPhases /\ active.confirmed = "no"
    BY <1>0, <2>1 DEF PhaseTold
  <2>3. \E p \in {"SNAPSHOT", "PRECHECK", active.phase} :
          Offers(p, active.confirmed, active.recovery)
    BY <1>0, <1>18, OfferWritten
  <2> QED BY <1>0, <1>14, <2>1, <2>2, <2>3 DEF VssPhases, Phases
<1>19. CASE \/ WPublish(j) \/ WPrepared(j) \/ WCopy(j) \/ WCopied(j) \/ WVerifyDiffers(j)
            \/ WVerified(j)
  <2>1. \E p \in VssPhases : Offers(p, active.confirmed, active.recovery)
    BY <1>0, <1>19, OfferWritten DEF VssPhases
  <2>2. /\ worker[j] \in Tending \ {"helper", "delete", "confirm"} /\ worker'[j] \in Tending
        /\ worker' = [worker EXCEPT ![j] = worker'[j]] /\ UNCHANGED vssVars
    BY <1>0, <1>19 DEF WPublish, WPrepared, WCopy, WCopied, WVerifyDiffers, WVerified, CleanUp
  <2> QED BY <1>0, <1>14, <2>1, <2>2 DEF Phases
<1>20. CASE WConfirm(j)
  <2>1. snaps[j] = {} /\ \E p \in Phases : Offers(p, "yes", FALSE)
    BY <1>0, <1>20, OfferWritten
  <2>2. /\ worker[j] = "confirm" /\ worker'[j] \in {"release", "handle"}
        /\ worker' = [worker EXCEPT ![j] = worker'[j]] /\ UNCHANGED vssVars
    BY <1>0, <1>20 DEF WConfirm, CleanedUp
  <2> QED BY <1>0, <1>13, <2>1, <2>2
<1>21. CASE WConfirmFails(j)
  <2>1. /\ worker[j] = "confirm" /\ worker'[j] \in {"release", "handle"}
        /\ worker' = [worker EXCEPT ![j] = worker'[j]] /\ UNCHANGED vssVars
    BY <1>0, <1>21 DEF WConfirmFails, CleanedUp
  <2>2. \E p \in VssPhases : Offers(p, "no", TRUE)
    BY <1>0, <1>21, <2>1, OfferWritten DEF PhaseTold, VssPhases
  <2> QED BY <1>0, <1>13, <2>1, <2>2
<1>22. CASE WHandle(j)
  <2>1. /\ worker[j] = "handle" /\ worker'[j] = "release"
        /\ worker' = [worker EXCEPT ![j] = worker'[j]] /\ UNCHANGED vssVars
    BY <1>0, <1>22 DEF WHandle
  <2>2. Offers(active.phase, active.confirmed, active.recovery)
    BY <1>0, <1>22, OfferWritten
  <2>3. active.recovery \/ snaps[j] # {} => active.phase \in VssPhases /\ active.confirmed # "yes"
    BY <1>0, <2>1 DEF Offered, RecoveryPending, Unconfirmed
  <2> QED BY <1>0, <1>13, <2>1, <2>2, <2>3
<1> QED BY <1>2, <1>3, <1>4, <1>5, <1>6, <1>7, <1>9, <1>10, <1>11, <1>12, <1>15, <1>16, <1>17,
           <1>18, <1>19, <1>20, <1>21, <1>22 DEF WorkerStep

LEMMA RecovererTellsOffer ==
  ASSUME VssTypeOK, CloneInv, CleanUpTold, OfferTold, NEW r \in Recoverers,
         RecovererStep(r) \/ RecovererCrash(r), CleanUpTold'
  PROVE  OfferTold'
<1>0. /\ active \in JobRecords /\ recoverer \in [Recoverers -> Recoveries]
      /\ worker \in [Jobs -> WorkerStates] /\ snaps \in [Jobs -> SUBSET Volumes]
      /\ recoverer[r].pc \in Recovering => \A j \in Jobs : worker[j] \notin LockHolders
      /\ UNCHANGED <<worker, clean>>
  BY DEF CloneInv, CloneTypeOK, LockNames, Recovering, VssTypeOK, RecovererStep, RLock, RBegin,
     RRefuse, RDelete, RConfirm, RConfirmFails, RRelease, RecovererCrash, notRecovering, workVars
<1>1. CASE UNCHANGED <<active, vssVars>>
  BY <1>0, <1>1 DEF OfferTold, PhaseTold, Offered, HelperLive
<1>2. ASSUME recoverer[r].pc \in Recovering, UNCHANGED helper, \A j \in Jobs : snaps'[j] \subseteq snaps[j],
             active'.job = active.job,
             active'.recovery => Unconfirmed(active)',
             \/ RecoveryPending(active) => RecoveryPending(active)'
             \/ active'.confirmed = "yes" /\ active.job \in Jobs,
             active'.confirmed = "yes" \/ active'.confirmed # active.confirmed => RecoveryPending(active)' \/ active'.confirmed = "yes",
             active'.phase = active.phase \/ active'.confirmed = "yes" \/ RecoveryPending(active)'
      PROVE  OfferTold'
  <2>1. \A j \in Jobs : PhaseTold(j)'
    BY <1>0, <1>2 DEF PhaseTold, Tending, LockHolders, WorkerStates
  <2>2. ASSUME NEW j \in Jobs, snaps'[j] # {} \/ HelperLive(j)' PROVE Offered(j)'
    <3>1. Offered(j)
      BY <1>0, <1>2, <2>2 DEF OfferTold, HelperLive
    <3>2. worker[j] \notin {"delete", "confirm"}
      BY <1>0, <1>2 DEF LockHolders, WorkerStates
    <3>3. CASE active'.confirmed = "yes"
      BY <1>0, <1>2, <2>2, <3>1, <3>2, <3>3 DEF CleanUpTold, Offered, HelperLive
    <3>4. CASE active'.confirmed # "yes"
      BY <1>0, <1>2, <3>1, <3>2, <3>4 DEF Offered
    <3> QED BY <3>3, <3>4
  <2> QED BY <1>2, <2>1, <2>2 DEF OfferTold
<1>3. CASE RBegin(r)
  BY <1>0, <1>2, <1>3 DEF RBegin, Recovering, RecoveryPending, Unconfirmed, JobRecords, VssPhases,
     OfferTold
<1>4. ASSUME recoverer[r].pc \in Recovering, StillPending(r), UNCHANGED vssVars PROVE OfferTold'
  <2>1. CASE active' = active
    BY <1>1, <1>4, <2>1
  <2>2. CASE active'.job = active.job /\ active'.phase = "CLEANUP" /\ active'.confirmed = "no"
    BY <1>0, <1>2, <1>4, <2>2 DEF RecoveryPending, Unconfirmed, VssPhases
  <2> QED BY <1>0, <1>4, <2>1, <2>2 DEF StillPending, JobRecords
<1>5. CASE RRefuse(r) \/ RConfirmFails(r)
  BY <1>4, <1>5 DEF RRefuse, RConfirmFails, RStep, Recovering
<1>6. CASE RDelete(r)
  <2>1. \A j \in Jobs : snaps'[j] \subseteq snaps[j]
    BY <1>0, <1>6 DEF RDelete, RStep, DeleteSnapshots
  <2> QED BY <1>0, <1>2, <1>6, <2>1 DEF RDelete, RStep, Recovering, OfferTold
<1>7. CASE RConfirm(r)
  <2>1. active.job \in Jobs /\ recoverer[r].pc = "confirm"
    BY <1>7 DEF RConfirm, RStep, RecovererLive, CloneInv, RecordIsOwned, JobsKnown
  <2>2. active'.job = active.job /\ active'.confirmed = "yes" /\ ~active'.recovery
    BY <1>0, <1>7 DEF RConfirm, JobRecords
  <2> QED BY <1>0, <1>2, <1>7, <2>1, <2>2 DEF RConfirm, Recovering
<1> QED BY <1>1, <1>3, <1>5, <1>6, <1>7 DEF RecovererStep, RLock, RRelease, RecovererCrash

LEMMA StepKeepsOffer ==
  ASSUME VssGood, CloneInv, HelperSupervised, CleanUpTold, OfferTold, Next PROVE OfferTold'
<1>0. VssTypeOK /\ CloneTypeOK
  BY DEF VssGood, CloneInv
<1>1. CASE UNCHANGED <<worker, clean, active, vssVars>>
  BY <1>1 DEF OfferTold, PhaseTold, Offered, HelperLive
<1>2. CASE LaunchWorker
  <2>1. launch.job \in Jobs /\ worker[launch.job] = "none"
    BY <1>2 DEF LaunchWorker, CloneInv, JobsKnown, BoundaryGuarded
  <2>2. ~(snaps[launch.job] # {} \/ HelperLive(launch.job))
    BY <2>1 DEF OfferTold, Offered, CleanUpTold
  <2>3. /\ worker' = [worker EXCEPT ![launch.job] = "spawned"] /\ worker \in [Jobs -> WorkerStates]
        /\ UNCHANGED <<active, clean, vssVars>>
    BY <1>0, <1>2 DEF LaunchWorker, CloneTypeOK, workVars
  <2> QED BY <2>1, <2>2, <2>3 DEF OfferTold, PhaseTold, Offered, HelperLive, Tending, LockHolders
<1>3. CASE AppNext
  BY <1>1, <1>2, <1>3 DEF AppNext, Monitor, LaunchBegin, LaunchStep, LaunchStops,
     LaunchCreateGate, LaunchCancelled, LaunchAcknowledged, LaunchFails, CancelStep, CancelPending,
     CancelEarlySignal, CancelOpen, CancelLock, CancelCheck, CancelSignal, RecoverRequest, AppCrash
<1>4. ASSUME NEW j \in Jobs, HelperRuns(j) PROVE OfferTold'
  <2>1. /\ HelperLive(j) /\ UNCHANGED <<worker, clean, active>>
        /\ \A i \in Jobs \ {j} : snaps'[i] = snaps[i] /\ helper'[i] = helper[i]
    BY <1>0, <1>4, HelperStepLocal DEF HelperRuns, cloneVars, workVars
  <2> QED BY <2>1 DEF OfferTold, PhaseTold, Offered, HelperLive
<1>5. ASSUME NEW j \in Jobs, WorkerStep(j) \/ ScriptStep(j) PROVE OfferTold'
  BY <1>0, <1>1, <1>5, WorkerTellsOffer DEF ScriptStep, ScriptMark, ScriptClear, ScriptEnds
<1>6. ASSUME NEW j \in Jobs, WorkerCrash(j) PROVE OfferTold'
  <2>1. /\ worker' = [worker EXCEPT ![j] = "crashed"] /\ worker[j] # "crashed"
        /\ worker \in [Jobs -> WorkerStates] /\ UNCHANGED <<active, vssVars>>
        /\ clean \in [Jobs -> Cleanups] /\ clean' = [clean EXCEPT ![j] = "journaled"]
    BY <1>0, <1>6 DEF WorkerCrash, WorkerLive, LocalsGone, CloneTypeOK
  <2>2. \A i \in Jobs : PhaseTold(i)'
    BY <2>1 DEF OfferTold, PhaseTold, Tending, LockHolders
  <2>3. snaps[j] # {} \/ HelperLive(j) => RecoveryPending(active) \/ active.phase = "PRECHECK"
    BY <2>1 DEF OfferTold, Offered, PhaseTold, Tending, LockHolders, WorkerStates, RecoveryPending,
       Unconfirmed
  <2>4. \A i \in Jobs : snaps'[i] # {} \/ HelperLive(i)' => Offered(i)'
    BY <2>1, <2>3 DEF OfferTold, Offered, HelperLive
  <2> QED BY <2>1, <2>2, <2>4 DEF OfferTold
<1>7. ASSUME NEW r \in Recoverers, RecovererStep(r) \/ RecovererCrash(r) PROVE OfferTold'
  BY <1>0, <1>7, RecovererTellsOffer, RecovererTellsCleanUp
<1> QED BY <1>3, <1>4, <1>5, <1>6, <1>7 DEF Next

------------------------------------------------------------------------------
(* What the record tells of the target. *)

(* The places of a worker, by what has happened to the target. *)
Unprepared == BeforeHelper \cup
  {"helper", "journal", "mapping", "scan", "boundary", "decide", "publish"}
Prepared == {"prepared", "copy", "verify", "attributes"}
Leaving == {"delete", "confirm", "handle"}
Working == LockHolders \ (Leaving \cup {"locked", "attributes", "release"})

(* What the place of a worker tells of the target and of the record it owns. *)
PlaceTold(j) ==
  /\ worker[j] \in Unprepared => script[j] = "idle"
  /\ worker[j] \in Prepared => active.destroyed /\ script[j] = "done"
  /\ worker[j] \in Working => active.state \in ActiveStates \ {"cleanup"}
  /\ worker[j] = "attributes" => active.state = "cleanup" /\ active.verified
  /\ worker[j] \in {"delete", "confirm"} => active.state # "complete"
  /\ worker[j] \in {"delete", "confirm"} /\ active.state = "cleanup" =>
       active.destroyed /\ active.verified /\ script[j] = "done"
  /\ worker[j] \in Leaving /\ exc[j] = "cancelled" => script[j] = "idle" \/ active.destroyed

(* What the script has done is what it says. *)
ScriptTold ==
  \A j \in Jobs : /\ script[j] \in {"cleared", "done"} => j \in erased
                  /\ script[j] \in {"idle", "authorized", "running", "marked"} => j \notin erased

(* What the record says of the target is true in the states that end a job. *)
RecordTold ==
  /\ active.destroyed => active.state \notin {"failed", "blocked"}
  /\ active.state = "cancelled" => active.destroyed \/ script[active.job] = "idle"
  /\ active.state = "complete" =>
       /\ active.destroyed /\ active.verified /\ active.confirmed = "yes"
       /\ script[active.job] = "done" /\ snaps[active.job] = {} /\ ~HelperLive(active.job)

TargetTold == (\A j \in Jobs : PlaceTold(j)) /\ ScriptTold /\ RecordTold

(* The steps of a worker that owns the record, the mutex not looked at. *)
LEMMA OwnerTellsPlace ==
  ASSUME VssTypeOK, CloneInv, HelperSupervised, NEW j \in Jobs, PlaceTold(j), RecordTold,
         active.job = j, WorkerStep(j), worker[j] \in LockHolders \ {"locked", "release"}
  PROVE  PlaceTold(j)' /\ RecordTold'
<1> USE DEF Step, LockHolders, WorkerStates, Unprepared, Prepared, Leaving, Working, BeforeHelper,
            ActiveStates
<1>0. /\ active \in JobRecords /\ worker \in [Jobs -> WorkerStates]
      /\ exc \in [Jobs -> Exceptions] /\ script \in [Jobs -> ScriptStates]
      /\ snaps \in [Jobs -> SUBSET Volumes]
      /\ HelperLive(j) => worker[j] \in {"helper", "crashed"}
  BY DEF CloneInv, CloneTypeOK, VssTypeOK, HelperSupervised
<1>1. CASE WPrecheckFails(j)
  BY <1>0, <1>1 DEF WPrecheckFails, Raise, PlaceTold, RecordTold, HelperLive
<1>2. CASE WStartHelper(j)
  BY <1>0, <1>2 DEF WStartHelper, HelperSpawn, HelperMove, PlaceTold, RecordTold, HelperLive
<1>3. CASE WHelperDone(j)
  BY <1>0, <1>3 DEF WHelperDone, PlaceTold, RecordTold, HelperLive
<1>4. CASE WHelperFails(j)
  BY <1>0, <1>4 DEF WHelperFails, HelperKill, Raise, PlaceTold, RecordTold, HelperLive
<1>5. CASE WMapped(j)
  BY <1>0, <1>5 DEF WMapped, PlaceTold, RecordTold, HelperLive
<1>6. CASE WMappingFails(j)
  BY <1>0, <1>6 DEF WMappingFails, Raise, CleanUp, PlaceTold, RecordTold, HelperLive
<1>7. CASE WScanFails(j)
  BY <1>0, <1>7 DEF WScanFails, Raise, CleanUp, PlaceTold, RecordTold, HelperLive
<1>8. CASE WScanned(j)
  BY <1>0, <1>8 DEF WScanned, PlaceTold, RecordTold, HelperLive
<1>9. CASE WBoundaryLock(j)
  BY <1>0, <1>9 DEF WBoundaryLock, PlaceTold, RecordTold, HelperLive
<1>10. CASE WBoundaryOpen(j)
  BY <1>0, <1>10 DEF WBoundaryOpen, PlaceTold, RecordTold, HelperLive
<1>11. CASE WBoundaryInsecure(j)
  BY <1>0, <1>11 DEF WBoundaryInsecure, Raise, CleanUp, PlaceTold, RecordTold, HelperLive
<1>12. CASE WStartScript(j)
  BY <1>0, <1>12 DEF WStartScript, ScriptMove, PlaceTold, RecordTold, HelperLive
<1>13. CASE WPrepareFails(j)
  BY <1>0, <1>13 DEF WPrepareFails, Raise, CleanUp, PlaceTold, RecordTold, HelperLive
<1>14. CASE WPrepareTimeout(j)
  BY <1>0, <1>14 DEF WPrepareTimeout, ScriptLive, Raise, CleanUp, PlaceTold, RecordTold,
     HelperLive
<1>15. CASE WCopyFails(j)
  BY <1>0, <1>15 DEF WCopyFails, Raise, CleanUp, PlaceTold, RecordTold, HelperLive
<1>16. CASE WVerifyCancelled(j)
  BY <1>0, <1>16 DEF WVerifyCancelled, Raise, CleanUp, PlaceTold, RecordTold, HelperLive
<1>17. CASE WAttributesCleared(j)
  BY <1>0, <1>17 DEF WAttributesCleared, CleanUp, PlaceTold, RecordTold, HelperLive
<1>18. CASE WDelete(j)
  BY <1>0, <1>18 DEF WDelete, DeleteSnapshots, PlaceTold, RecordTold, HelperLive
<1>19. CASE WPrecheck(j)
  BY <1>0, <1>19, RecordWritten DEF WPrecheck, Tells, PlaceTold, RecordTold, HelperLive
<1>20. CASE WAnnounceHelper(j)
  BY <1>0, <1>20, RecordWritten DEF WAnnounceHelper, Tells, PlaceTold, RecordTold,
     HelperLive
<1>21. CASE WJournalMissing(j)
  BY <1>0, <1>21, RecordWritten DEF WJournalMissing, Tells, PlaceTold, RecordTold,
     HelperLive
<1>22. CASE WJournalRead(j)
  BY <1>0, <1>22, RecordWritten DEF WJournalRead, CleanUp, Tells, PlaceTold, RecordTold,
     HelperLive
<1>23. CASE WScanCancelled(j)
  BY <1>0, <1>23, RecordWritten DEF WScanCancelled, Raise, CleanUp, Tells, PlaceTold,
     RecordTold, HelperLive
<1>24. CASE WBoundaryCancelled(j)
  BY <1>0, <1>24, RecordWritten DEF WBoundaryCancelled, CleanUp, Tells, PlaceTold,
     RecordTold, HelperLive
<1>25. CASE WPublish(j)
  BY <1>0, <1>25, RecordWritten DEF WPublish, Tells, PlaceTold, RecordTold, HelperLive
<1>26. CASE WPrepared(j)
  BY <1>0, <1>26, RecordWritten DEF WPrepared, Tells, PlaceTold, RecordTold, HelperLive
<1>27. CASE WCopy(j)
  BY <1>0, <1>27, RecordWritten DEF WCopy, Tells, PlaceTold, RecordTold, HelperLive
<1>28. CASE WCopied(j)
  BY <1>0, <1>28, RecordWritten DEF WCopied, Tells, PlaceTold, RecordTold, HelperLive
<1>29. CASE WVerifyDiffers(j)
  BY <1>0, <1>29, RecordWritten DEF WVerifyDiffers, CleanUp, Tells, PlaceTold, RecordTold,
     HelperLive
<1>30. CASE WVerified(j)
  BY <1>0, <1>30, RecordWritten DEF WVerified, Tells, PlaceTold, RecordTold, HelperLive
<1>31. CASE WConfirm(j)
  <2>1. /\ worker[j] = "confirm" /\ worker'[j] \in {"release", "handle"} /\ snaps'[j] = {}
        /\ UNCHANGED <<exc, script, helper>>
    BY <1>0, <1>31 DEF WConfirm, CleanedUp
  <2>2. /\ active'.job = j /\ active'.confirmed = "yes" /\ active'.destroyed = active.destroyed
        /\ active'.verified = active.verified
        /\ active'.state = active.state \/ (active.state = "cleanup" /\ active'.state = "complete")
    BY <1>0, <1>31, RecordWritten DEF Tells
  <2>3. PlaceTold(j)'
    BY <2>1, <2>2 DEF PlaceTold
  <2> QED BY <1>0, <2>1, <2>2, <2>3 DEF PlaceTold, RecordTold, HelperLive
<1>32. CASE WConfirmFails(j)
  <2>1. /\ worker[j] = "confirm" /\ worker'[j] \in {"release", "handle"}
        /\ UNCHANGED <<exc, script>>
    BY <1>0, <1>32 DEF WConfirmFails, CleanedUp
  <2>2. /\ active'.job = j /\ active'.destroyed = active.destroyed
        /\ active'.state \in {active.state, Incomplete(active)}
    BY <1>0, <1>32, RecordWritten DEF Tells
  <2>3. PlaceTold(j)'
    BY <2>1, <2>2 DEF PlaceTold
  <2> QED BY <1>0, <2>1, <2>2, <2>3 DEF PlaceTold, RecordTold, Incomplete
<1>33. CASE WHandle(j)
  BY <1>0, <1>33, RecordWritten DEF WHandle, Outcome, Incomplete, Exceptions, Tells,
     PlaceTold, RecordTold, HelperLive
<1> QED BY <1>1, <1>2, <1>3, <1>4, <1>5, <1>6, <1>7, <1>8, <1>9, <1>10, <1>11, <1>12,
   <1>13, <1>14, <1>15, <1>16, <1>17, <1>18, <1>19, <1>20, <1>21, <1>22, <1>23, <1>24,
   <1>25, <1>26, <1>27, <1>28, <1>29, <1>30, <1>31, <1>32, <1>33 DEF WorkerStep,
   WOpenGate, WLock, WClaim, WRelease

(* A script or a worker of one job changes nothing for the others. *)
LEMMA WorkerTellsTarget ==
  ASSUME VssTypeOK, CloneInv, HelperSupervised, CleanUpTold, TargetTold, NEW j \in Jobs, WorkerStep(j)
  PROVE  TargetTold'
<1>0. /\ active \in JobRecords /\ worker \in [Jobs -> WorkerStates]
      /\ exc \in [Jobs -> Exceptions] /\ script \in [Jobs -> ScriptStates]
      /\ worker[j] \in LockHolders \ {"locked", "release"} => active.job = j
      /\ worker[j] \in LockHolders => \A i \in Jobs \ {j} : worker[i] \notin LockHolders
      /\ PlaceTold(j) /\ ScriptTold /\ RecordTold
      /\ \A i \in Jobs : PlaceTold(i)
  BY DEF CloneInv, CloneTypeOK, RecordIsOwned, LockNames, LockHolders, WorkerStates,
     TargetTold
<1>1. /\ \A i \in Jobs \ {j} : worker'[i] = worker[i] /\ script'[i] = script[i] /\ exc'[i] = exc[i]
      /\ erased' = erased
  BY <1>0 DEF WorkerStep, WOpenGate, WLock, WClaim, WPrecheck, WPrecheckFails,
     WAnnounceHelper,
     WStartHelper, WHelperDone, WHelperFails, WJournalMissing, WJournalRead, WMapped,
     WMappingFails, WScanCancelled, WScanFails, WScanned, WBoundaryLock, WBoundaryCancelled,
     WBoundaryOpen, WBoundaryInsecure, WPublish, WStartScript, WPrepared, WPrepareFails,
     WPrepareTimeout, WCopy, WCopied, WCopyFails, WVerifyCancelled, WVerifyDiffers, WVerified,
     WAttributesCleared, WDelete, WConfirm, WConfirmFails, WHandle, WRelease, Step, CleanUp,
     CleanedUp, Raise, ScriptMove, LocalsGone
<1>2. \/ WOpenGate(j) \/ WLock(j) \/ WClaim(j) \/ WRelease(j)
      \/ worker[j] \in LockHolders \ {"locked", "release"}
  BY DEF WorkerStep, WOpenGate, WLock, WClaim, WPrecheck, WPrecheckFails, WAnnounceHelper,
     WStartHelper, WHelperDone, WHelperFails, WJournalMissing, WJournalRead, WMapped,
     WMappingFails, WScanCancelled, WScanFails, WScanned, WBoundaryLock, WBoundaryCancelled,
     WBoundaryOpen, WBoundaryInsecure, WPublish, WStartScript, WPrepared, WPrepareFails,
     WPrepareTimeout, WCopy, WCopied, WCopyFails, WVerifyCancelled, WVerifyDiffers, WVerified,
     WAttributesCleared, WDelete, WConfirm, WConfirmFails, WHandle, WRelease, Step, CleanUp,
     CleanedUp, LockHolders, WorkerStates
<1>3. \A i \in Jobs \ {j} : PlaceTold(i)'
  <2>1. active' = active \/ worker[j] \in LockHolders
    BY <1>2 DEF WOpenGate, WLock, WClaim, WRelease, Step, LockHolders, WorkerStates
  <2> QED BY <1>0, <1>1, <2>1 DEF PlaceTold, Unprepared, BeforeHelper, Prepared, Leaving,
     Working,
      LockHolders, WorkerStates
<1>4. PlaceTold(j)' /\ RecordTold'
  <2>1. CASE worker[j] \in LockHolders \ {"locked", "release"}
    BY <1>0, <2>1, OwnerTellsPlace
  <2>2. CASE WOpenGate(j) \/ WLock(j) \/ WRelease(j)
    BY <1>0, <2>2 DEF WOpenGate, WLock, WRelease, LocalsGone, Step, PlaceTold, RecordTold,
       HelperLive,
       Unprepared, BeforeHelper, Prepared, Leaving, Working, LockHolders, WorkerStates
  <2>3. CASE WClaim(j)
    <3>1. NewRecord(j).state = "starting" /\ NewRecord(j).destroyed = FALSE
      BY DEF NewRecord, NoRecord
    <3> QED BY <1>0, <2>3, <3>1 DEF WClaim, Step, PlaceTold, RecordTold, HelperLive,
       Unprepared, BeforeHelper, Prepared, Leaving, Working, LockHolders, WorkerStates, ActiveStates
  <2> QED BY <1>2, <2>1, <2>2, <2>3
<1>5. ScriptTold'
  <2>1. CASE WPublish(j)
    BY <1>0, <1>1, <2>1 DEF WPublish, Step, PlaceTold, Unprepared, ScriptTold
  <2>2. CASE WStartScript(j) \/ WPrepareTimeout(j)
    BY <1>0, <1>1, <2>2 DEF WStartScript, ScriptMove, WPrepareTimeout, ScriptLive,
       ScriptTold
  <2>3. CASE UNCHANGED script
    BY <1>0, <1>1, <2>3 DEF ScriptTold
  <2>4. script' = script \/ WPublish(j) \/ WStartScript(j) \/ WPrepareTimeout(j)
    BY DEF WorkerStep, WOpenGate, WLock, WClaim, WPrecheck, WPrecheckFails, WAnnounceHelper,
     WStartHelper, WHelperDone, WHelperFails, WJournalMissing, WJournalRead, WMapped,
     WMappingFails, WScanCancelled, WScanFails, WScanned, WBoundaryLock, WBoundaryCancelled,
     WBoundaryOpen, WBoundaryInsecure, WPrepared, WPrepareFails,
     WCopy, WCopied, WCopyFails, WVerifyCancelled, WVerifyDiffers, WVerified,
     WAttributesCleared, WDelete, WConfirm, WConfirmFails, WHandle, WRelease
  <2> QED BY <2>1, <2>2, <2>3, <2>4
<1> QED BY <1>3, <1>4, <1>5 DEF TargetTold

LEMMA RecovererTellsTarget ==
  ASSUME VssTypeOK, CloneInv, TargetTold, NEW r \in Recoverers, RecovererStep(r) \/ RecovererCrash(r)
  PROVE  TargetTold'
<1>0. /\ active \in JobRecords /\ snaps \in [Jobs -> SUBSET Volumes]
      /\ recoverer[r].pc \in Recovering => \A j \in Jobs : worker[j] \notin LockHolders
      /\ RecovererLive(r) => recoverer[r].job \in Jobs
      /\ RecordTold /\ ScriptTold /\ \A j \in Jobs : PlaceTold(j)
  BY DEF CloneInv, CloneTypeOK, LockNames, JobsKnown, Recovering, VssTypeOK, TargetTold
<1>1. UNCHANGED <<worker, exc, script, erased, helper>>
  BY DEF RecovererStep, RLock, RBegin, RRefuse, RDelete, RConfirm, RConfirmFails, RRelease,
     RecovererCrash
<1>2. \/ active' = active
      \/ /\ recoverer[r].pc \in Recovering /\ active'.job = active.job
         /\ active'.state \in {"cleanup", Incomplete(active)}
         /\ active'.destroyed = active.destroyed
  <2>1. CASE RBegin(r)
    BY <1>0, <2>1, RecoveryWritten DEF RBegin, Recovering, Tells
  <2>2. CASE RConfirm(r)
    BY <1>0, <2>2, RecoveryWritten DEF RConfirm, RStep, Recovering, Tells
  <2>3. CASE RRefuse(r) \/ RConfirmFails(r)
    BY <1>0, <2>3, RecoveryWritten DEF RRefuse, RConfirmFails, RStep, Recovering, Tells
  <2> QED BY <2>1, <2>2, <2>3 DEF RecovererStep, RLock, RDelete, RRelease, RecovererCrash
<1>3. \A j \in Jobs : snaps[j] = {} => snaps'[j] = {}
  <2>1. CASE RDelete(r)
    BY <1>0, <2>1 DEF RDelete, DeleteSnapshots
  <2> QED BY <2>1 DEF RecovererStep, RLock, RBegin, RRefuse, RConfirm, RConfirmFails,
     RRelease,
     RecovererCrash
<1>4. \A j \in Jobs : PlaceTold(j)'
  BY <1>0, <1>1, <1>2 DEF PlaceTold, Prepared, Leaving, Working, LockHolders, WorkerStates
<1>5. RecordTold'
  <2>1. active.state = "complete" => active.job \in Jobs
    BY <1>0 DEF JobRecords, CloneInv, JobsKnown
  <2> QED BY <1>0, <1>1, <1>2, <1>3, <2>1 DEF RecordTold, HelperLive, Incomplete
<1> QED BY <1>0, <1>1, <1>4, <1>5 DEF TargetTold, ScriptTold

LEMMA StepKeepsTarget ==
  ASSUME VssGood, CloneInv, HelperSupervised, CleanUpTold, TargetTold, Next PROVE TargetTold'
<1>0. /\ VssTypeOK /\ worker \in [Jobs -> WorkerStates] /\ exc \in [Jobs -> Exceptions]
      /\ script \in [Jobs -> ScriptStates]
      /\ RecordTold /\ ScriptTold /\ \A j \in Jobs : PlaceTold(j)
  BY DEF VssGood, CloneInv, CloneTypeOK, TargetTold
<1>1. CASE UNCHANGED <<worker, exc, script, erased, vssVars, active>>
  BY <1>1 DEF TargetTold, PlaceTold, ScriptTold, RecordTold, HelperLive
<1>2. CASE LaunchWorker
  <2>1. launch.job \in Jobs /\ worker[launch.job] = "none"
    BY <1>2 DEF LaunchWorker, CloneInv, JobsKnown, BoundaryGuarded
  <2>2. \A j \in Jobs : PlaceTold(j)'
    BY <1>0, <1>2, <2>1 DEF LaunchWorker, PlaceTold, Unprepared, BeforeHelper, Prepared,
       Leaving,
       Working, LockHolders, WorkerStates
  <2> QED BY <1>0, <1>2, <2>2 DEF LaunchWorker, TargetTold, ScriptTold, RecordTold,
     HelperLive
<1>3. CASE AppNext
  BY <1>1, <1>2, <1>3 DEF AppNext, Monitor, LaunchBegin, LaunchStep, LaunchStops,
     LaunchCreateGate, LaunchCancelled, LaunchAcknowledged, LaunchFails, CancelStep, CancelPending,
     CancelEarlySignal, CancelOpen, CancelLock, CancelCheck, CancelSignal, RecoverRequest, AppCrash
<1>4. ASSUME NEW j \in Jobs, WorkerStep(j) PROVE TargetTold'
  BY <1>0, <1>4, WorkerTellsTarget
<1>5. ASSUME NEW j \in Jobs, HelperRuns(j) PROVE TargetTold'
  <2>1. active.state = "complete" => active.job \in Jobs /\ active.job # j
    BY <1>0, <1>5, HelperStepLocal DEF HelperRuns, RecordTold, CloneInv, CloneTypeOK,
       JobRecords,
       JobsKnown
  <2>2. RecordTold'
    BY <1>0, <1>5, <2>1, HelperStepLocal DEF HelperRuns, RecordTold, HelperLive
  <2> QED BY <1>0, <1>5, <2>2 DEF HelperRuns, TargetTold, PlaceTold, ScriptTold
<1>6. ASSUME NEW j \in Jobs, ScriptStep(j) PROVE TargetTold'
  <2>1. /\ script[j] \in {"running", "marked", "cleared"} /\ script'[j] \in ScriptStates \ {"idle"}
        /\ \A i \in Jobs \ {j} : script'[i] = script[i]
        /\ script'[j] \in {"cleared", "done"} => j \in erased'
        /\ script'[j] \in {"authorized", "running", "marked"} => erased' = erased /\ script[j] = "running"
        /\ erased' \in {erased, erased \cup {j}}
        /\ UNCHANGED <<worker, exc, active, vssVars>>
    BY <1>0, <1>6 DEF ScriptStep, ScriptMark, ScriptClear, ScriptEnds, ScriptMove,
       ScriptStates,
       ScriptTold
  <2>2. \A i \in Jobs : PlaceTold(i)'
    BY <1>0, <2>1 DEF PlaceTold
  <2>3. ScriptTold'
    BY <1>0, <2>1 DEF ScriptTold
  <2>4. RecordTold'
    BY <1>0, <2>1 DEF RecordTold, HelperLive, CloneInv, CloneTypeOK, JobRecords, JobsKnown
  <2> QED BY <2>2, <2>3, <2>4 DEF TargetTold
<1>7. ASSUME NEW j \in Jobs, WorkerCrash(j) PROVE TargetTold'
  <2>1. \A i \in Jobs : PlaceTold(i)'
    BY <1>0, <1>7 DEF WorkerCrash, LocalsGone, PlaceTold, Unprepared, BeforeHelper,
       Prepared,
       Leaving, Working, LockHolders, WorkerStates
  <2> QED BY <1>0, <1>7, <2>1 DEF WorkerCrash, TargetTold, ScriptTold, RecordTold,
     HelperLive
<1>8. ASSUME NEW r \in Recoverers, RecovererStep(r) \/ RecovererCrash(r) PROVE TargetTold'
  BY <1>0, <1>8, RecovererTellsTarget
<1> QED BY <1>3, <1>4, <1>5, <1>6, <1>7, <1>8 DEF Next

------------------------------------------------------------------------------
(* Who hears a cancellation. *)

(* At most one job was ever drawn. *)
OneLaunch == \A i, j \in Jobs \ fresh : i = j

(* The launch in progress is the one the app shows as starting, until there is
   a record, and has a gate once it is past the staging. *)
LaunchShown ==
  /\ launch.pc # "idle" => pending.state \in {"starting", "none"}
  /\ pending.state = "starting" /\ active.job = NoJob =>
       launch.pc # "idle" /\ launch.job = pending.job
  /\ launch.pc \in {"gated", "waiting"} /\ pending.state = "starting" => appGate = launch.job

(* An accepted cancellation is heard: the event the worker will look at is
   signalled, or the launch that has no worker yet sees the flag. *)
Heard(j) ==
  /\ script[j] = "idle"
  /\ \/ event[j]
     \/ /\ worker[j] = "none" /\ j \notin fresh
        /\ launch.pc \in {"staging", "gated"} => cancelPending

CancelHeard == OneLaunch => \A j \in accepted : Heard(j)

Listening == LaunchShown /\ CancelHeard

(* monitor() clears the flag only for an operation that has ended. *)
LEMMA ObserveShown ==
  ASSUME NEW p, NEW c \in BOOLEAN, NEW g, Observe(p, c, g)
  PROVE  /\ (pending' = p /\ cancelPending' = c /\ appGate' = g)
            \/ (pending' = NoPending /\ (active.job # NoJob \/ p.state \in {"blocked", "cancelled"}))
         /\ cancelPending' \in {c, FALSE}
BY DEF Observe

LEMMA LaunchEndShown ==
  ASSUME NEW result \in {"blocked", "cancelled"}, NEW c, NEW g, LaunchEnds(result, c, g)
  PROVE  launch' = Idle /\ pending'.state # "starting"
BY DEF LaunchEnds, Observe, NoPending

(* A record is there from the first claim on. *)
LEMMA RecordStays ==
  ASSUME CloneInv, CleanUpTold, NEW j \in Jobs, worker[j] = "none",
         j \notin fresh, OneLaunch
  PROVE  active.job = NoJob
BY DEF CloneInv, CloneTypeOK, JobRecords, BoundaryGuarded, CleanUpTold, OneLaunch

(* A step of the app that starts no worker: what it adds to the accepted
   cancellations is heard, and it neither takes back a signal nor clears the
   flag of a launch that may still start a worker. *)
LEMMA AppListens ==
  ASSUME CloneInv, CancelHeard, UNCHANGED <<script, worker>>, fresh' \subseteq fresh,
         \A j \in Jobs : event[j] => event'[j],
         \A j \in accepted' \ accepted : OneLaunch' => Heard(j)',
         OneLaunch' => \/ launch'.pc \notin {"staging", "gated"}
                       \/ launch.pc \in {"staging", "gated"} /\ (cancelPending => cancelPending')
                       \/ \A j \in Jobs : worker[j] = "none" => j \in fresh
  PROVE  CancelHeard'
BY DEF CancelHeard, Heard, OneLaunch, CloneInv, CloneTypeOK

LEMMA ObserveListens ==
  ASSUME CloneInv, CleanUpTold, Listening, NEW c \in BOOLEAN, cancelPending => c,
         Observe(pending, c, appGate), UNCHANGED <<script, worker, fresh, active>>,
         \A j \in Jobs : event[j] => event'[j],
         \A j \in accepted' \ accepted : OneLaunch' => Heard(j)',
         launch' = launch \/ (launch' = Idle /\ active.job # NoJob)
  PROVE  Listening'
<1>0. (pending' = pending /\ appGate' = appGate) \/ pending'.state = "none"
  BY DEF Observe, NoPending
<1>1. LaunchShown'
  BY <1>0 DEF Listening, LaunchShown, Idle
<1>2. OneLaunch' /\ launch'.pc \in {"staging", "gated"} /\ cancelPending /\ ~cancelPending'
        => \A j \in Jobs : worker[j] = "none" => j \in fresh
  BY ObserveShown, RecordStays DEF Listening, LaunchShown, Idle, OneLaunch
<1>3. launch'.pc \in {"staging", "gated"} => launch.pc \in {"staging", "gated"}
  BY DEF Idle
<1> QED BY <1>1, <1>2, <1>3, AppListens DEF Listening

LEMMA LaunchEndListens ==
  ASSUME CloneInv, Listening, NEW result \in {"blocked", "cancelled"}, NEW c, NEW g,
         LaunchEnds(result, c, g), UNCHANGED <<script, worker, fresh, accepted>>,
         \A j \in Jobs : event[j] => event'[j]
  PROVE  Listening'
<1>1. launch'.pc = "idle" /\ pending'.state # "starting"
  BY LaunchEndShown DEF Idle
<1> QED BY <1>1, AppListens DEF Listening, LaunchShown

LEMMA AppStepListens ==
  ASSUME CloneInv, CleanUpTold, TargetTold, Listening, AppNext PROVE Listening'
<1>0. /\ cancelPending \in BOOLEAN /\ event \in [Jobs -> BOOLEAN] /\ accepted \subseteq Jobs
      /\ worker \in [Jobs -> WorkerStates] /\ launch \in Launches
      /\ \A j \in Jobs : worker[j] = "none" => script[j] = "idle"
      /\ launch.pc # "idle" => launch.job \in Jobs \ fresh
      /\ launch.pc \in {"staging", "gated"} => worker[launch.job] = "none"
      /\ canceller.pc # "idle" => canceller.job \in Jobs
      /\ \A j \in fresh : worker[j] = "none"
  BY DEF CloneInv, CloneTypeOK, TargetTold, PlaceTold, Unprepared, BeforeHelper,
     BoundaryGuarded,
     JobsKnown
<1>1. CASE Monitor
  BY <1>0, <1>1, ObserveListens DEF Monitor
<1>2. ASSUME NEW r \in Recoverers, RecoverRequest(r) PROVE Listening'
  BY <1>0, <1>2, ObserveListens DEF RecoverRequest
<1>3. CASE LaunchAcknowledged
  BY <1>0, <1>3, ObserveListens DEF LaunchAcknowledged
<1>4. CASE CancelSignal
  <2>1. \A j \in accepted' \ accepted : Heard(j)'
    BY <1>0, <1>4 DEF CancelSignal, Heard
  <2> QED BY <1>0, <1>4, <2>1, ObserveListens DEF CancelSignal
<1>5. CASE LaunchStops
  BY <1>0, <1>5, LaunchEndListens DEF LaunchStops
<1>6. CASE LaunchCancelled
  BY <1>0, <1>6, LaunchEndListens DEF LaunchCancelled
<1>7. CASE LaunchFails
  BY <1>0, <1>7, LaunchEndListens DEF LaunchFails
<1>8. ASSUME NEW j \in Jobs, LaunchBegin(j) PROVE Listening'
  <2>1. LaunchShown'
    BY <1>8 DEF LaunchBegin, LaunchShown
  <2>2. OneLaunch' => \A i \in Jobs \ fresh : FALSE
    BY <1>8 DEF LaunchBegin, OneLaunch
  <2>3. OneLaunch' => \A i \in Jobs : worker[i] = "none" => i \in fresh
    BY <2>2
  <2> QED BY <1>8, <2>1, <2>3, AppListens DEF LaunchBegin, Listening
<1>9. CASE LaunchCreateGate
  <2>1. launch'.pc = "gated" /\ launch'.job = launch.job /\ launch.pc = "staging"
    BY <1>0, <1>9 DEF LaunchCreateGate, Launches
  <2>2. LaunchShown'
    BY <1>9, <2>1 DEF LaunchCreateGate, Listening, LaunchShown
  <2> QED BY <1>9, <2>1, <2>2, AppListens DEF LaunchCreateGate, Listening
<1>10. CASE LaunchWorker
  <2>1. /\ launch'.pc = "waiting" /\ launch'.job = launch.job /\ launch.pc = "gated"
        /\ worker' = [worker EXCEPT ![launch.job] = "spawned"] /\ ~cancelPending
        /\ UNCHANGED <<fresh, pending, active, appGate, script, event, accepted>>
    BY <1>0, <1>10 DEF LaunchWorker, Launches
  <2>2. LaunchShown'
    BY <2>1 DEF Listening, LaunchShown
  <2>3. CancelHeard'
    BY <1>0, <2>1 DEF Listening, CancelHeard, Heard, OneLaunch
  <2> QED BY <2>2, <2>3 DEF Listening
<1>11. CASE CancelPending
  <2>1. /\ active.job = NoJob /\ pending.state = "starting" /\ cancelPending' = TRUE
        /\ UNCHANGED <<fresh, launch, pending, appGate, active, event, script, worker>>
        /\ accepted' \subseteq accepted \cup {pending.job}
        /\ accepted' # accepted => appGate # pending.job
    BY <1>11 DEF CancelPending
  <2>2. LaunchShown'
    BY <2>1 DEF Listening, LaunchShown
  <2>3. \A j \in accepted' \ accepted : Heard(j)'
    BY <1>0, <2>1 DEF Listening, LaunchShown, Heard, Launches
  <2> QED BY <2>1, <2>2, <2>3, AppListens DEF Listening
<1>12. CASE CancelEarlySignal
  <2>1. /\ UNCHANGED <<fresh, launch, pending, cancelPending, appGate, active, script, worker>>
        /\ \A j \in Jobs : event[j] => event'[j]
        /\ \A j \in accepted' \ accepted : j = canceller.job /\ event'[j] /\ script[j] = "idle"
    BY <1>0, <1>12 DEF CancelEarlySignal
  <2>2. LaunchShown'
    BY <2>1 DEF Listening, LaunchShown
  <2> QED BY <2>1, <2>2, AppListens DEF Listening, Heard
<1>13. CASE CancelOpen \/ CancelLock \/ CancelCheck
  <2>1. /\ UNCHANGED <<fresh, launch, pending, cancelPending, appGate, active, script, worker,
                       event, accepted>>
    BY <1>13 DEF CancelOpen, CancelLock, CancelCheck
  <2> QED BY <2>1 DEF Listening, LaunchShown, CancelHeard, Heard, OneLaunch
<1>14. CASE AppCrash
  <2>1. launch'.pc = "idle" /\ pending'.state = "none"
    BY <1>14 DEF AppCrash, Idle, NoPending
  <2> QED BY <1>14, <2>1, AppListens DEF AppCrash, Listening, LaunchShown
<1> QED BY <1>1, <1>2, <1>3, <1>4, <1>5, <1>6, <1>7, <1>8, <1>9, <1>10, <1>11, <1>12, <1>13,
           <1>14 DEF AppNext, LaunchStep, CancelStep

(* The record is given to another job by a worker's claim and by nothing else. *)
LEMMA OnlyAClaimRenames ==
  ASSUME active \in JobRecords, NEW j \in Jobs, WorkerStep(j)
  PROVE  active'.job = active.job \/ WClaim(j)
<1>1. CASE \/ WPrecheck(j) \/ WAnnounceHelper(j) \/ WJournalRead(j) \/ WJournalMissing(j)
           \/ WScanCancelled(j) \/ WBoundaryCancelled(j) \/ WPublish(j) \/ WPrepared(j)
           \/ WCopy(j) \/ WCopied(j) \/ WVerifyDiffers(j) \/ WVerified(j) \/ WConfirm(j)
           \/ WConfirmFails(j) \/ WHandle(j)
  BY <1>1, RecordWritten DEF Tells
<1> QED BY <1>1 DEF WorkerStep, WOpenGate, WLock, WPrecheckFails, WStartHelper,
   WHelperDone, WHelperFails, WMapped, WMappingFails, WScanFails, WScanned, WBoundaryLock,
   WBoundaryOpen, WBoundaryInsecure, WStartScript, WPrepareFails, WPrepareTimeout,
   WCopyFails, WVerifyCancelled, WAttributesCleared, WDelete, WRelease

LEMMA RecoveryNeverRenames ==
  ASSUME active \in JobRecords, NEW r \in Recoverers, RecovererStep(r) \/ RecovererCrash(r)
  PROVE  active'.job = active.job
<1>1. CASE RBegin(r) \/ RRefuse(r) \/ RConfirm(r) \/ RConfirmFails(r)
  BY <1>1, RecoveryWritten DEF RRefuse, RConfirmFails, Tells
<1> QED BY <1>1 DEF RecovererStep, RLock, RDelete, RRelease, RecovererCrash

LEMMA StepListens ==
  ASSUME CloneInv, CleanUpTold, TargetTold, Listening, Next PROVE Listening'
<1>1. ASSUME UNCHANGED <<fresh, launch, pending, cancelPending, appGate, accepted, event>>,
             active'.job = active.job \/ active'.job # NoJob,
             \A j \in Jobs : worker[j] = "none" => worker'[j] = "none",
             \A j \in Jobs : script[j] = "idle" /\ (event[j] \/ worker[j] = "none") => script'[j] = "idle"
      PROVE  Listening'
  <2>1. accepted \subseteq Jobs
    BY DEF CloneInv, CloneTypeOK
  <2>2. LaunchShown'
    BY <1>1 DEF Listening, LaunchShown
  <2>3. CancelHeard'
    BY <1>1, <2>1 DEF Listening, CancelHeard, Heard, OneLaunch
  <2> QED BY <2>2, <2>3 DEF Listening
<1>2. active \in JobRecords /\ worker \in [Jobs -> WorkerStates] /\ script \in [Jobs -> ScriptStates]
  BY DEF CloneInv, CloneTypeOK
<1>3. ASSUME NEW j \in Jobs, WorkerStep(j) PROVE Listening'
  <2>1. active'.job = active.job \/ active'.job = j
    BY <1>2, <1>3, OnlyAClaimRenames DEF WClaim, NewRecord, NoRecord
  <2>2. worker[j] # "none" /\ \A i \in Jobs \ {j} : worker'[i] = worker[i]
    BY <1>2, <1>3 DEF WorkerStep, WOpenGate, WLock, WClaim, WPrecheck, WPrecheckFails,
       WAnnounceHelper,
      WStartHelper, WHelperDone, WHelperFails, WJournalMissing, WJournalRead, WMapped,
      WMappingFails, WScanCancelled, WScanFails, WScanned, WBoundaryLock, WBoundaryCancelled,
      WBoundaryOpen, WBoundaryInsecure, WPublish, WStartScript, WPrepared, WPrepareFails,
      WPrepareTimeout, WCopy, WCopied, WCopyFails, WVerifyCancelled, WVerifyDiffers, WVerified,
      WAttributesCleared, WDelete, WConfirm, WConfirmFails, WHandle, WRelease, Step, CleanUp, CleanedUp
  <2>3. /\ UNCHANGED <<fresh, launch, pending, cancelPending, appGate, accepted, event>>
        /\ script' = script \/ WPublish(j) \/ WStartScript(j) \/ WPrepareTimeout(j)
    BY <1>3 DEF WorkerStep, WOpenGate, WLock, WClaim, WPrecheck, WPrecheckFails,
       WAnnounceHelper,
      WStartHelper, WHelperDone, WHelperFails, WJournalMissing, WJournalRead, WMapped,
      WMappingFails, WScanCancelled, WScanFails, WScanned, WBoundaryLock, WBoundaryCancelled,
      WBoundaryOpen, WBoundaryInsecure, WPublish, WStartScript, WPrepared, WPrepareFails,
      WPrepareTimeout, WCopy, WCopied, WCopyFails, WVerifyCancelled, WVerifyDiffers, WVerified,
      WAttributesCleared, WDelete, WConfirm, WConfirmFails, WHandle, WRelease
  <2>4. \A i \in Jobs : script[i] = "idle" /\ (event[i] \/ worker[i] = "none") => script'[i] = "idle"
    BY <1>2, <2>2, <2>3 DEF WPublish, WStartScript, WPrepareTimeout, Step, ScriptMove,
       ScriptLive,
       CloneInv, BoundaryGuarded
  <2> QED BY <1>1, <2>1, <2>2, <2>3, <2>4
<1>4. ASSUME NEW j \in Jobs, HelperRuns(j) \/ ScriptStep(j) \/ WorkerCrash(j) PROVE Listening'
  BY <1>1, <1>2, <1>4 DEF HelperRuns, ScriptStep, ScriptMark, ScriptClear, ScriptEnds,
     ScriptMove,
     WorkerCrash, WorkerLive
<1>5. ASSUME NEW r \in Recoverers, RecovererStep(r) \/ RecovererCrash(r) PROVE Listening'
  <2>1. active'.job = active.job
    BY <1>2, <1>5, RecoveryNeverRenames
  <2> QED BY <1>1, <1>5, <2>1 DEF RecovererStep, RLock, RBegin, RRefuse, RDelete, RConfirm,
      RConfirmFails, RRelease, RecovererCrash
<1> QED BY <1>3, <1>4, <1>5, AppStepListens DEF Next

------------------------------------------------------------------------------
(* The invariant that carries the rest, and what follows from it. *)

(* What the record, the snapshots and the accepted cancellations tell. *)
Told == HelperSupervised /\ CleanUpTold /\ OfferTold /\ TargetTold /\ Listening

Sound == VssGood /\ CloneInv /\ Told

LEMMA InitTold == Init => Told
<1> SUFFICES ASSUME Init PROVE Told
  OBVIOUS
<1>1. HelperSupervised
  BY DEF Init, VssInit, HelperSupervised, HelperLive, BeforeHelper, Reading
<1>2. CleanUpTold
  BY DEF Init, NoRecord, CleanUpTold, HelperLive
<1>3. TargetTold
  BY DEF Init, NoRecord, TargetTold, PlaceTold, ScriptTold, RecordTold, Unprepared,
     BeforeHelper,
     Prepared, Leaving, Working, LockHolders
<1>4. Listening
  BY DEF Init, Idle, NoPending, Listening, LaunchShown, CancelHeard
<1>5. OfferTold
  BY DEF Init, VssInit, NoRecord, OfferTold, PhaseTold, Tending, LockHolders, HelperLive
<1> QED BY <1>1, <1>2, <1>3, <1>4, <1>5 DEF Told

LEMMA StepKeepsTold == Sound /\ [Next]_vars => Told'
<1> SUFFICES ASSUME Sound, [Next]_vars PROVE Told'
  OBVIOUS
<1>1. CASE UNCHANGED vars
  BY <1>1 DEF vars, Sound, Told, HelperSupervised, HelperLive, CleanUpTold, OfferTold,
     PhaseTold, Offered, TargetTold, PlaceTold, ScriptTold, RecordTold, Listening, LaunchShown,
     CancelHeard, Heard, OneLaunch
<1>2. CASE Next
  BY <1>2, StepKeepsSupervised, StepKeepsCleanUp, StepKeepsOffer, StepKeepsTarget, StepListens DEF Sound,
     Told
<1> QED BY <1>1, <1>2

LEMMA SoundInvariance == Spec => []Sound
<1>1. Init => Sound
  BY InitGood, InitTold DEF Sound
<1>2. Sound /\ [Next]_vars => Sound'
  BY StepKeeps, StepKeepsTold DEF Sound
<1> QED BY <1>1, <1>2, PTL DEF Spec

(* From its mapping of the snapshots to its clearing of the attributes a running
   worker reads from the whole set, and the journal names all of it: no recovery
   and no helper takes a snapshot away beneath it. *)
THEOREM SourceReadable == Spec => []SourceStaysReadable
<1>1. Sound => SourceStaysReadable
  BY DEF Sound, Told, HelperSupervised, SourceStaysReadable, Reading
<1> QED BY <1>1, SoundInvariance, PTL

(* The snapshots of a job are there as long as its worker reads from them, and
   afterwards either the worker deletes them or the record offers the recovery,
   unless the worker was killed after a cancellation saved PRECHECK, or with a
   helper that came after the confirmed clean-up. *)
THEOREM SnapshotsTended == Spec => []SnapshotsAreTended
<1>1. Sound => LeftIsOffered
  BY DEF Sound, Told, OfferTold, Offered, LeftIsOffered
<1> QED BY <1>1, SourceReadable, SoundInvariance, PTL DEF SnapshotsAreTended

(* "complete" in active.json is never said of a target that was not erased,
   prepared and verified, nor while a snapshot of the job is left. *)
THEOREM CompleteTrue == Spec => []CompleteIsTrue
<1>1. Sound => CompleteIsTrue
  BY DEF Sound, Told, TargetTold, RecordTold, ScriptTold, CompleteIsTrue, CloneInv,
     CloneTypeOK,
     JobRecords, JobsKnown
<1> QED BY <1>1, SoundInvariance, PTL

(* A record that admits the erasure of its target never says failed or blocked,
   which admit the next launch unreviewed, and one that says cancelled admits it
   if there was one, whatever the exception, the clean-up and the crashes were. *)
THEOREM ErasureTold == Spec => []ErasureIsTold
<1>1. Sound => ErasureIsTold
  BY DEF Sound, Told, TargetTold, RecordTold, ScriptTold, ErasureIsTold,
     DestroyedNeedsReview,
     CancelledAdmitsDestruction, CloneInv, CloneTypeOK, JobRecords, JobsKnown
<1> QED BY <1>1, SoundInvariance, PTL

(* While one job has been launched, a cancellation that cancel() accepted before
   the preparation began keeps the target as it is, whatever crashes. *)
THEOREM AcceptedCancelHolds == Spec => []AcceptedCancelHonoured
<1>1. Sound => AcceptedCancelHonoured
  BY DEF Sound, Told, TargetTold, ScriptTold, Listening, CancelHeard, Heard, OneLaunch,
     AcceptedCancelHonoured, CloneInv, CloneTypeOK
<1> QED BY <1>1, SoundInvariance, PTL

(* A clean-up that the record confirms left no snapshot and no live helper of
   the job, unless the worker of that very job was killed, whose helper may still
   be creating the set that the recovery has found absent. *)
THEOREM ConfirmedUnlessKilled == Spec => []ConfirmedMeansGone
<1>1. Sound => ConfirmedMeansGone
  BY DEF Sound, Told, CleanUpTold, ConfirmedMeansGone, CloneInv, CloneTypeOK, JobRecords
<1> QED BY <1>1, SoundInvariance, PTL

(* A claim replaces the record of another job only when that job's worker is
   gone or has nothing left to do but drop the lock. *)
THEOREM NoneForgotten == Spec => NoJobIsForgotten
<1> DEFINE Finished == ~WorkerLive(active.job) \/ worker[active.job] = "release"
<1>1. Sound /\ [Next]_vars =>
        [active'.job # active.job /\ active.job # NoJob => Finished]_vars
  <2> SUFFICES ASSUME Sound, Next, active'.job # active.job, active.job # NoJob PROVE Finished
    OBVIOUS
  <2>0. /\ active \in JobRecords /\ active.job \in Jobs
        /\ worker[active.job] \notin {"none", "spawned", "gated", "locked"}
        /\ \A j \in Jobs : worker[j] \in LockHolders => lock = j
    BY DEF Sound, Told, CleanUpTold, CloneInv, CloneTypeOK, JobRecords, LockNames
  <2>1. PICK j \in Jobs : WClaim(j)
    BY <2>0, OnlyAClaimRenames, RecoveryNeverRenames DEF Next, AppNext, Monitor,
       LaunchBegin,
      LaunchStep, LaunchStops, LaunchCreateGate, LaunchCancelled, LaunchWorker,
      LaunchAcknowledged, LaunchFails, CancelStep, CancelPending, CancelEarlySignal, CancelOpen,
      CancelLock, CancelCheck, CancelSignal, RecoverRequest, AppCrash, HelperRuns, ScriptStep,
      ScriptMark, ScriptClear, ScriptEnds, WorkerCrash
  <2>2. worker[j] = "locked" /\ active'.job = j
    BY <2>1 DEF WClaim, Step, NewRecord, NoRecord
  <2>3. worker[active.job] \notin LockHolders
    BY <2>0, <2>2 DEF LockHolders, WorkerStates
  <2> QED BY <2>0, <2>3 DEF LockHolders, WorkerLive, Sound, CloneInv, CloneTypeOK
<1> QED BY <1>1, SoundInvariance, PTL DEF Spec, NoJobIsForgotten
==============================================================================
