------------------------------- MODULE DataClone -------------------------------
(***************************************************************************)
(* The first-party data clone: the app process (launch, cancel, monitor,   *)
(* recover_vss of FirstPartyDataCloneProvider, on concurrent request       *)
(* threads), one elevated worker process per job (_run_clone_job), the     *)
(* native snapshot helper it runs (VssRequester), the PowerShell script    *)
(* that prepares the target, and elevated recovery processes               *)
(* (_recover_vss_job).  They share the job record active.json, the file    *)
(* worker.lock, a named mutex and a named cancellation event per job, the  *)
(* snapshot journal and the file target_clear_started.                     *)
(*                                                                         *)
(* One step is one durable write, one system call other processes can      *)
(* observe, or one check they can race with.  Any process may be killed    *)
(* between two steps, as often as the Max...Crashes bounds allow.          *)
(***************************************************************************)
EXTENDS VssRequester, Naturals

CONSTANTS Recoverers,          \* recovery processes; each is started at most once
          NoJob,               \* no job, no process
          MaxAppCrashes, MaxWorkerCrashes, MaxRecoveryCrashes

ASSUME ProcessAssumption ==
  /\ NoJob \notin Jobs \cup Recoverers
  /\ Jobs \cap Recoverers = {}
  /\ MaxAppCrashes \in Nat /\ MaxWorkerCrashes \in Nat /\ MaxRecoveryCrashes \in Nat

VARIABLES
  fresh,          \* job identifiers not drawn yet
  launch,         \* the launch in progress (_launch_guard admits one): pc, job
  pending,        \* _pending_state of the app: job, state
  cancelPending,  \* _cancel_pending of the app
  appGate,        \* the job whose cancel gate the app holds open (_cancel_gate)
  canceller,      \* the thread that runs cancel(): pc, job
  accepted,       \* jobs whose cancel() returned before their preparation began
  event,          \* event[j]: the cancellation event of job j is signalled
  mutex,          \* mutex[j]: who holds the job's cancellation mutex
  active,         \* active.json
  lock,           \* the process that worker.lock names
  worker,         \* worker[j]: where the worker process of job j stands
  exc,            \* exc[j]: the exception on its way to the worker's handlers
  clean,          \* clean[j]: which clean-up the worker is in
  script,         \* script[j]: the target preparation of job j
  marked,         \* jobs whose target_clear_started file exists
  erased,         \* jobs for which the target disk was cleared
  recoverer,      \* recoverer[r]: pc, job, the snapshot ids it deletes
  crashes         \* crashes so far, of the app, of workers, of recoveries

appVars == <<fresh, launch, pending, cancelPending, appGate>>
cancelVars == <<canceller, accepted>>
gateVars == <<event, mutex>>
workVars == <<worker, exc, clean>>
diskVars == <<script, marked, erased>>
cloneVars == <<appVars, cancelVars, gateVars, active, lock, workVars, diskVars,
               recoverer, crashes>>
vars == <<cloneVars, vssVars>>

------------------------------------------------------------------------------
(* ACTIVE_STATES of the record; "starting" stands for "precheck" too, which no
   test tells apart. *)
ActiveStates == {"starting", "snapshot", "target_prepare", "copy", "verify", "cleanup"}
States == ActiveStates \cup {"none", "complete", "failed", "blocked", "cancelled", "partial"}
VssPhases == {"SNAPSHOT", "TARGET_PREPARE", "COPY", "VERIFY", "CLEANUP"}
Phases == VssPhases \cup {"PRECHECK", "COMPLETE"}
Processes == Jobs \cup Recoverers

(* The record, with the fields that decide something: snapshot_cleanup_confirmed
   is absent ("unset"), false or true. *)
JobRecords ==
  [job : Jobs \cup {NoJob}, state : States, phase : Phases,
   pid : Processes \cup {NoJob}, destroyed : BOOLEAN,
   confirmed : {"unset", "no", "yes"}, recovery : BOOLEAN, helper : BOOLEAN,
   verified : BOOLEAN]

NoRecord == [job |-> NoJob, state |-> "none", phase |-> "PRECHECK", pid |-> NoJob,
             destroyed |-> FALSE, confirmed |-> "unset", recovery |-> FALSE,
             helper |-> FALSE, verified |-> FALSE]

NewRecord(j) == [NoRecord EXCEPT !.job = j, !.state = "starting", !.pid = j]

(* The snapshots of the recorded job may still exist. *)
Unconfirmed(r) == r.phase \in VssPhases /\ r.confirmed # "yes"

(* A record that forbids a new job, for the app and again for the worker. *)
Blocks(r) == r.state \in ActiveStates \cup {"partial"} \/ Unconfirmed(r)

(* A record whose snapshots recover_vss may clean up. *)
RecoveryPending(r) == r.recovery \/ Unconfirmed(r)

(* The state an operation that ends badly leaves in the record. *)
Incomplete(r) == IF r.destroyed THEN "partial" ELSE "failed"

WorkerStates ==
  {"none", "spawned", "gated", "locked", "precheck", "announced", "helper", "journal",
   "mapping", "scan", "boundary", "decide", "publish", "prepare", "preparing",
   "prepared", "copy", "verify", "attributes", "delete", "confirm", "handle", "release",
   "ended", "crashed"}
Exceptions == {"none", "blocked", "roles", "cancelled", "partial", "internal"}
Cleanups == {"journaled", "mapped", "final"}
ScriptStates == {"idle", "authorized", "running", "marked", "cleared", "done", "failed"}
RecovererStates == {"unused", "spawned", "begin", "delete", "confirm", "release", "ended", "crashed"}

Launches == [pc : {"idle", "staging", "gated", "waiting"}, job : Jobs \cup {NoJob}]
PendingStates == [job : Jobs \cup {NoJob}, state : {"none", "starting", "blocked", "cancelled"}]
Cancellers == [pc : {"idle", "early", "opened", "locked", "signal"}, job : Jobs \cup {NoJob}]
Recoveries == [pc : RecovererStates, job : Jobs \cup {NoJob}, ids : SUBSET Volumes]
CrashCounts == [app : 0..MaxAppCrashes, worker : 0..MaxWorkerCrashes,
                recovery : 0..MaxRecoveryCrashes]

WorkerLive(j) == worker[j] \notin {"none", "ended", "crashed"}
ScriptLive(j) == script[j] \in {"running", "marked", "cleared"}
RecovererLive(r) == recoverer[r].pc \notin {"unused", "ended", "crashed"}

(* Mutant of ProcessLive: the pid of a running worker is taken for a dead one. *)
WorkersLookDead(p) == p \in Recoverers /\ RecovererLive(p)

ProcessLive(p) == \/ p \in Jobs /\ WorkerLive(p)
                  \/ p \in Recoverers /\ RecovererLive(p)

(* The named mutex and event of a job exist while some process has them open. *)
GateExists(j) ==
  \/ appGate = j
  \/ WorkerLive(j) /\ worker[j] # "spawned"
  \/ canceller.pc \in {"opened", "locked", "signal"} /\ canceller.job = j

CloneTypeOK ==
  /\ fresh \subseteq Jobs
  /\ launch \in Launches
  /\ pending \in PendingStates
  /\ cancelPending \in BOOLEAN
  /\ appGate \in Jobs \cup {NoJob}
  /\ canceller \in Cancellers
  /\ accepted \subseteq Jobs
  /\ event \in [Jobs -> BOOLEAN]
  /\ mutex \in [Jobs -> {"free", "app", "worker"}]
  /\ active \in JobRecords
  /\ lock \in Processes \cup {NoJob}
  /\ worker \in [Jobs -> WorkerStates]
  /\ exc \in [Jobs -> Exceptions]
  /\ clean \in [Jobs -> Cleanups]
  /\ script \in [Jobs -> ScriptStates]
  /\ marked \subseteq Jobs
  /\ erased \subseteq Jobs
  /\ recoverer \in [Recoverers -> Recoveries]
  /\ crashes \in CrashCounts

TypeOK == VssTypeOK /\ CloneTypeOK

NoPending == [job |-> NoJob, state |-> "none"]
Idle == [pc |-> "idle", job |-> NoJob]

Init ==
  /\ VssInit
  /\ fresh = Jobs
  /\ launch = Idle /\ pending = NoPending /\ cancelPending = FALSE /\ appGate = NoJob
  /\ canceller = Idle /\ accepted = {}
  /\ event = [j \in Jobs |-> FALSE]
  /\ mutex = [j \in Jobs |-> "free"]
  /\ active = NoRecord
  /\ lock = NoJob
  /\ worker = [j \in Jobs |-> "none"]
  /\ exc = [j \in Jobs |-> "none"]
  /\ clean = [j \in Jobs |-> "journaled"]
  /\ script = [j \in Jobs |-> "idle"]
  /\ marked = {} /\ erased = {}
  /\ recoverer = [r \in Recoverers |-> [pc |-> "unused", job |-> NoJob, ids |-> {}]]
  /\ crashes = [app |-> 0, worker |-> 0, recovery |-> 0]

------------------------------------------------------------------------------
(* The app. *)

(* monitor(): once the operation it sees has ended, or the process its record
   names is gone, the app forgets its pending launch, its pending cancellation
   and the gate of that operation.  p, c and g are the values to start from.
   The states monitor() makes up for a dead worker are shown, never saved. *)
Observe(p, c, g) ==
  LET recorded == active.job # NoJob
      seen == IF recorded THEN active.job ELSE p.job
      ended == IF recorded
               THEN active.state \notin ActiveStates \/ ~ProcessLive(active.pid)
               ELSE p.state \in {"blocked", "cancelled"}
  IN  /\ pending' = IF ended THEN NoPending ELSE p
      /\ cancelPending' = (c /\ ~ended)
      /\ appGate' = IF ended /\ g = seen THEN NoJob ELSE g

(* The status page polls. *)
Monitor ==
  /\ Observe(pending, cancelPending, appGate)
  /\ UNCHANGED <<fresh, launch, cancelVars, gateVars, active, lock, workVars, diskVars,
                 recoverer, crashes, vssVars>>

(* launch() of a new job: the record must not forbid it. *)
LaunchBegin(j) ==
  /\ launch.pc = "idle" /\ j \in fresh /\ ~Blocks(active)
  /\ fresh' = fresh \ {j}
  /\ launch' = [pc |-> "staging", job |-> j]
  /\ pending' = [job |-> j, state |-> "starting"]
  /\ cancelPending' = FALSE
  /\ UNCHANGED <<appGate, cancelVars, gateVars, active, lock, workVars, diskVars,
                 recoverer, crashes, vssVars>>

LaunchEnds(result, c, g) ==
  /\ launch' = Idle
  /\ LET p == [job |-> launch.job, state |-> result]
     IN  IF c THEN Observe(p, c, g)
              ELSE pending' = p /\ cancelPending' = c /\ appGate' = g

(* The runtime was staged, or a check before the gate failed: a cancellation
   that arrived meanwhile ends the launch as cancelled. *)
LaunchStops ==
  /\ launch.pc = "staging"
  /\ LaunchEnds(IF cancelPending THEN "cancelled" ELSE "blocked", cancelPending, appGate)
  /\ UNCHANGED <<fresh, cancelVars, gateVars, active, lock, workVars, diskVars,
                 recoverer, crashes, vssVars>>

(* The named mutex and event are created, before the worker is started. *)
LaunchCreateGate ==
  /\ launch.pc = "staging"
  /\ launch' = [launch EXCEPT !.pc = "gated"]
  /\ appGate' = launch.job
  /\ UNCHANGED <<fresh, pending, cancelPending, cancelVars, gateVars, active, lock,
                 workVars, diskVars, recoverer, crashes, vssVars>>

(* A cancellation that arrived before the gate did: no worker is started. *)
LaunchCancelled ==
  /\ launch.pc = "gated" /\ cancelPending
  /\ event' = [event EXCEPT ![launch.job] = TRUE]
  /\ LaunchEnds("cancelled", TRUE, NoJob)
  /\ UNCHANGED <<fresh, cancelVars, mutex, active, lock, workVars, diskVars,
                 recoverer, crashes, vssVars>>

(* The elevated worker is started under UAC; the app waits for its record. *)
LaunchWorker ==
  /\ launch.pc = "gated" /\ ~cancelPending
  /\ launch' = [launch EXCEPT !.pc = "waiting"]
  /\ worker' = [worker EXCEPT ![launch.job] = "spawned"]
  /\ UNCHANGED <<fresh, pending, cancelPending, appGate, cancelVars, gateVars, active,
                 lock, exc, clean, diskVars, recoverer, crashes, vssVars>>

(* The record names the started process: launch() returns monitor(). *)
LaunchAcknowledged ==
  /\ launch.pc = "waiting" /\ active.job = launch.job /\ active.pid = launch.job
  /\ launch' = Idle
  /\ Observe(pending, cancelPending, appGate)
  /\ UNCHANGED <<fresh, cancelVars, gateVars, active, lock, workVars, diskVars,
                 recoverer, crashes, vssVars>>

(* Mutant of LaunchFails: the wait for the acknowledgement has no deadline and
   does not notice that the worker ended. *)
LaunchFailsBeforeStartOnly ==
  /\ launch.pc = "gated"
  /\ mutex[launch.job] = "free"
  /\ event' = [event EXCEPT ![launch.job] = TRUE]
  /\ LaunchEnds(IF cancelPending THEN "cancelled" ELSE "blocked", cancelPending, NoJob)
  /\ UNCHANGED <<fresh, cancelVars, mutex, active, lock, workVars, diskVars,
                 recoverer, crashes, vssVars>>

(* UAC was refused, the worker ended before its record, or 30 seconds passed:
   the event is signalled under the mutex and the gate closed.  The worker,
   if there is one, runs on. *)
LaunchFails ==
  /\ launch.pc \in {"gated", "waiting"}
  /\ mutex[launch.job] = "free"
  /\ event' = [event EXCEPT ![launch.job] = TRUE]
  /\ LaunchEnds(IF cancelPending THEN "cancelled" ELSE "blocked", cancelPending, NoJob)
  /\ UNCHANGED <<fresh, cancelVars, mutex, active, lock, workVars, diskVars,
                 recoverer, crashes, vssVars>>

(* cancel() while there is no record but a launch is pending: the launch will
   see the flag; if it already has a gate, the event is signalled as well. *)
CancelPending ==
  /\ canceller.pc = "idle" /\ active.job = NoJob /\ pending.state = "starting"
  /\ cancelPending' = TRUE
  /\ IF appGate = pending.job
     THEN canceller' = [pc |-> "early", job |-> appGate] /\ UNCHANGED accepted
     ELSE accepted' = accepted \cup {pending.job} /\ UNCHANGED canceller
  /\ UNCHANGED <<fresh, launch, pending, appGate, gateVars, active, lock, workVars,
                 diskVars, recoverer, crashes, vssVars>>

(* Its second half: the gate may have been closed by now, which is an error. *)
CancelEarlySignal ==
  /\ canceller.pc = "early"
  /\ canceller' = Idle
  /\ LET j == canceller.job
     IN  IF appGate = j
         THEN /\ mutex[j] = "free"
              /\ event' = [event EXCEPT ![j] = TRUE]
              /\ accepted' = IF script[j] = "idle" THEN accepted \cup {j} ELSE accepted
         ELSE UNCHANGED <<event, accepted>>
  /\ UNCHANGED <<appVars, mutex, active, lock, workVars, diskVars, recoverer, crashes,
                 vssVars>>

(* cancel() of a recorded operation opens the gate of its job ... *)
CancelOpen ==
  /\ canceller.pc = "idle" /\ active.state \in ActiveStates /\ GateExists(active.job)
  /\ canceller' = [pc |-> "opened", job |-> active.job]
  /\ UNCHANGED <<appVars, accepted, gateVars, active, lock, workVars, diskVars, recoverer,
                 crashes, vssVars>>

(* ... waits for the mutex ... *)
CancelLock ==
  /\ canceller.pc = "opened" /\ mutex[canceller.job] = "free"
  /\ mutex' = [mutex EXCEPT ![canceller.job] = "app"]
  /\ canceller' = [canceller EXCEPT !.pc = "locked"]
  /\ UNCHANGED <<appVars, accepted, event, active, lock, workVars, diskVars, recoverer,
                 crashes, vssVars>>

(* ... reads the record again, and refuses when it is too late ... *)
CancelCheck ==
  /\ canceller.pc = "locked"
  /\ IF /\ active.job = canceller.job /\ active.state \in ActiveStates
        /\ active.phase \notin {"TARGET_PREPARE", "CLEANUP"}
     THEN canceller' = [canceller EXCEPT !.pc = "signal"] /\ UNCHANGED mutex
     ELSE canceller' = Idle /\ mutex' = [mutex EXCEPT ![canceller.job] = "free"]
  /\ UNCHANGED <<appVars, accepted, event, active, lock, workVars, diskVars, recoverer,
                 crashes, vssVars>>

(* ... or signals the event, lets the mutex go and returns monitor(). *)
CancelSignal ==
  /\ canceller.pc = "signal"
  /\ event' = [event EXCEPT ![canceller.job] = TRUE]
  /\ mutex' = [mutex EXCEPT ![canceller.job] = "free"]
  /\ canceller' = Idle
  /\ accepted' = IF script[canceller.job] = "idle" THEN accepted \cup {canceller.job} ELSE accepted
  /\ Observe(pending, TRUE, appGate)
  /\ UNCHANGED <<fresh, launch, active, lock, workVars, diskVars, recoverer, crashes,
                 vssVars>>

(* recover_vss(): the record asks for a clean-up and its process is gone; an
   elevated recovery process is started.  (The wait for its acknowledgement
   changes nothing.) *)
RecoverRequest(r) ==
  /\ recoverer[r].pc = "unused"
  /\ active.job # NoJob /\ RecoveryPending(active) /\ ~ProcessLive(active.pid)
  /\ recoverer' = [recoverer EXCEPT ![r] = [@ EXCEPT !.pc = "spawned", !.job = active.job]]
  /\ Observe(pending, cancelPending, appGate)
  /\ UNCHANGED <<fresh, launch, cancelVars, gateVars, active, lock, workVars, diskVars,
                 crashes, vssVars>>

(* The app is ended and started again: only files and other processes remain,
   and Windows abandons a mutex it held. *)
AppCrash ==
  /\ crashes.app < MaxAppCrashes
  /\ crashes' = [crashes EXCEPT !.app = @ + 1]
  /\ launch' = Idle /\ pending' = NoPending /\ cancelPending' = FALSE /\ appGate' = NoJob
  /\ canceller' = Idle
  /\ mutex' = [j \in Jobs |-> IF mutex[j] = "app" THEN "free" ELSE mutex[j]]
  /\ UNCHANGED <<fresh, accepted, event, active, lock, workVars, diskVars, recoverer, vssVars>>

------------------------------------------------------------------------------
(* The worker process of job j. *)

elsewhere == <<appVars, cancelVars, recoverer, crashes>>

Step(j, from, to) == worker[j] = from /\ worker' = [worker EXCEPT ![j] = to]

Raise(j, e) == exc' = [exc EXCEPT ![j] = e]

(* The worker's exception and clean-up are gone with its process. *)
LocalsGone(j) ==
  exc' = [exc EXCEPT ![j] = "none"] /\ clean' = [clean EXCEPT ![j] = "journaled"]

CleanUp(j, from, kind) ==
  Step(j, from, "delete") /\ clean' = [clean EXCEPT ![j] = kind]

(* The event and the mutex are opened by name; without them the worker ends. *)
WOpenGate(j) ==
  /\ Step(j, "spawned", IF GateExists(j) THEN "gated" ELSE "ended")
  /\ UNCHANGED <<elsewhere, gateVars, active, lock, exc, clean, diskVars, vssVars>>

(* Mutant of WLock: worker.lock is replaced whoever holds it. *)
WLockAlways(j) ==
  /\ Step(j, "gated", "locked")
  /\ lock' = j
  /\ UNCHANGED <<elsewhere, gateVars, active, exc, clean, diskVars, vssVars>>

(* worker.lock: taken when free, or stale (12 hours) and its process gone;
   otherwise the worker ends. *)
WLock(j) ==
  /\ \/ /\ lock = NoJob \/ ~ProcessLive(lock)
        /\ Step(j, "gated", "locked")
        /\ lock' = j
     \/ /\ lock # NoJob
        /\ Step(j, "gated", "ended")
        /\ UNCHANGED lock
  /\ UNCHANGED <<elsewhere, gateVars, active, exc, clean, diskVars, vssVars>>

(* The record must still not forbid a new job; the worker then replaces it. *)
WClaim(j) ==
  /\ IF Blocks(active)
     THEN Step(j, "locked", "release") /\ UNCHANGED active
     ELSE Step(j, "locked", "precheck") /\ active' = NewRecord(j)
  /\ UNCHANGED <<elsewhere, gateVars, lock, exc, clean, diskVars, vssVars>>

(* Disk roles, volumes, encryption and snapshot placement hold. *)
WPrecheck(j) ==
  /\ Step(j, "precheck", "announced")
  /\ active' = [active EXCEPT !.state = "snapshot", !.phase = "SNAPSHOT",
                              !.helper = FALSE, !.confirmed = "no"]
  /\ UNCHANGED <<elsewhere, gateVars, lock, exc, clean, diskVars, vssVars>>

WPrecheckFails(j) ==
  /\ Step(j, "precheck", "handle")
  /\ \E e \in {"blocked", "roles", "internal"} : Raise(j, e)
  /\ UNCHANGED <<elsewhere, gateVars, active, lock, clean, diskVars, vssVars>>

(* vss_helper_started is saved before the helper is started. *)
WAnnounceHelper(j) ==
  /\ Step(j, "announced", "helper")
  /\ active' = [active EXCEPT !.helper = TRUE, !.confirmed = "no"]
  /\ UNCHANGED <<elsewhere, gateVars, lock, exc, clean, diskVars, vssVars>>

WStartHelper(j) ==
  /\ worker[j] = "helper"
  /\ HelperSpawn(j)
  /\ UNCHANGED cloneVars

(* The helper reported its snapshots and its journal agrees. *)
WHelperDone(j) ==
  /\ helper[j] = "done"
  /\ Step(j, "helper", "mapping")
  /\ UNCHANGED <<elsewhere, gateVars, active, lock, exc, clean, diskVars, vssVars>>

(* Mutant of WHelperFails: the helper is left running when its time is over. *)
WHelperAbandoned(j) ==
  /\ helper[j] # "idle"
  /\ Step(j, "helper", "journal")
  /\ \E e \in {"blocked", "internal"} : Raise(j, e)
  /\ UNCHANGED <<elsewhere, gateVars, active, lock, clean, diskVars, vssVars>>

(* The helper failed, printed something else, or was ended after its 15
   minutes: what it journaled is cleaned up. *)
WHelperFails(j) ==
  /\ helper[j] # "idle"
  /\ Step(j, "helper", "journal")
  /\ IF HelperLive(j) THEN HelperKill(j) ELSE UNCHANGED vssVars
  /\ \E e \in {"blocked", "internal"} : Raise(j, e)
  /\ UNCHANGED <<elsewhere, gateVars, active, lock, clean, diskVars>>

(* No readable journal: the inventory of Windows must show no snapshot that is
   not in the baseline.  Another program's new snapshot counts too, and an
   inventory that cannot be read leaves the record as it is. *)
WJournalMissing(j) ==
  /\ journal[j].file # "valid"
  /\ Step(j, "journal", "handle")
  /\ \/ /\ snaps[j] = {}
        /\ active' = [active EXCEPT !.confirmed = "yes", !.recovery = FALSE]
     \/ active' = [active EXCEPT !.confirmed = "no", !.recovery = TRUE]
     \/ UNCHANGED active
  /\ UNCHANGED <<elsewhere, gateVars, lock, exc, clean, diskVars, vssVars>>

WJournalRead(j) ==
  /\ journal[j].file = "valid"
  /\ CleanUp(j, "journal", "journaled")
  /\ active' = [active EXCEPT !.confirmed = "no"]
  /\ UNCHANGED <<elsewhere, gateVars, lock, exc, diskVars, vssVars>>

(* Every snapshot is new, belongs to its volume and can be read - or not. *)
WMapped(j) ==
  /\ Step(j, "mapping", "scan")
  /\ UNCHANGED <<elsewhere, gateVars, active, lock, exc, clean, diskVars, vssVars>>

WMappingFails(j) ==
  /\ CleanUp(j, "mapping", "mapped")
  /\ \E e \in {"blocked", "internal"} : Raise(j, e)
  /\ UNCHANGED <<elsewhere, gateVars, active, lock, diskVars, vssVars>>

------------------------------------------------------------------------------
(* _copy_stage up to the boundary: the source is read, the target untouched. *)

(* A cancellation seen between two steps of the reading ends it quietly (the
   record says at which phase); one seen inside the manifest raises. *)
WScanCancelled(j) ==
  /\ event[j]
  /\ CleanUp(j, "scan", "final")
  /\ \/ /\ \E p \in {"SNAPSHOT", "PRECHECK"} :
             active' = [active EXCEPT !.state = "cancelled", !.phase = p]
        /\ UNCHANGED exc
     \/ Raise(j, "cancelled") /\ UNCHANGED active
  /\ UNCHANGED <<elsewhere, gateVars, lock, diskVars, vssVars>>

WScanFails(j) ==
  /\ CleanUp(j, "scan", "final")
  /\ \E e \in {"blocked", "roles", "internal"} : Raise(j, e)
  /\ UNCHANGED <<elsewhere, gateVars, active, lock, diskVars, vssVars>>

WScanned(j) ==
  /\ Step(j, "scan", "boundary")
  /\ UNCHANGED <<elsewhere, gateVars, active, lock, exc, clean, diskVars, vssVars>>

(* Mutant of WBoundaryLock: the boundary is crossed without the mutex. *)
WBoundaryUnlocked(j) ==
  /\ Step(j, "boundary", "decide")
  /\ UNCHANGED <<elsewhere, gateVars, active, lock, exc, clean, diskVars, vssVars>>

(* The boundary: under the job's mutex the event is read once more, and only
   then TARGET_PREPARE is saved. *)
WBoundaryLock(j) ==
  /\ mutex[j] = "free"
  /\ Step(j, "boundary", "decide")
  /\ mutex' = [mutex EXCEPT ![j] = "worker"]
  /\ UNCHANGED <<elsewhere, event, active, lock, exc, clean, diskVars, vssVars>>

WBoundaryCancelled(j) ==
  /\ event[j]
  /\ CleanUp(j, "decide", "final")
  /\ mutex' = [mutex EXCEPT ![j] = "free"]
  /\ active' = [active EXCEPT !.state = "cancelled", !.phase = "PRECHECK"]
  /\ UNCHANGED <<elsewhere, event, lock, exc, diskVars, vssVars>>

WBoundaryOpen(j) ==
  /\ ~event[j]
  /\ Step(j, "decide", "publish")
  /\ UNCHANGED <<elsewhere, gateVars, active, lock, exc, clean, diskVars, vssVars>>

WBoundaryInsecure(j) ==
  /\ CleanUp(j, "publish", "final")
  /\ mutex' = [mutex EXCEPT ![j] = "free"]
  /\ Raise(j, "blocked")
  /\ UNCHANGED <<elsewhere, event, active, lock, diskVars, vssVars>>

WPublish(j) ==
  /\ Step(j, "publish", "prepare")
  /\ active' = [active EXCEPT !.state = "target_prepare", !.phase = "TARGET_PREPARE",
                              !.destroyed = FALSE]
  /\ mutex' = [mutex EXCEPT ![j] = "free"]
  /\ script' = [script EXCEPT ![j] = "authorized"]
  /\ UNCHANGED <<elsewhere, event, lock, exc, clean, marked, erased, vssVars>>

------------------------------------------------------------------------------
(* The target: the script of _prepare_target, a process of its own. *)

ScriptMove(j, from, to) == script[j] = from /\ script' = [script EXCEPT ![j] = to]

WStartScript(j) ==
  /\ Step(j, "prepare", "preparing")
  /\ ScriptMove(j, "authorized", "running")
  /\ UNCHANGED <<elsewhere, gateVars, active, lock, exc, clean, marked, erased, vssVars>>

(* The marker file is written after the roles were checked, before Clear-Disk. *)
ScriptMark(j) ==
  /\ ScriptMove(j, "running", "marked")
  /\ marked' = marked \cup {j}
  /\ UNCHANGED <<elsewhere, gateVars, active, lock, workVars, erased, vssVars>>

ScriptClear(j) ==
  /\ ScriptMove(j, "marked", "cleared")
  /\ erased' = erased \cup {j}
  /\ UNCHANGED <<elsewhere, gateVars, active, lock, workVars, marked, vssVars>>

(* Partition and volume exist - or a command or a role check failed. *)
ScriptEnds(j) ==
  /\ \/ ScriptMove(j, "cleared", "done")
     \/ \E at \in {"running", "marked", "cleared"} : ScriptMove(j, at, "failed")
  /\ UNCHANGED <<elsewhere, gateVars, active, lock, workVars, marked, erased, vssVars>>

(* target_destroyed is saved when the script has reported the new volume. *)
WPrepared(j) ==
  /\ script[j] = "done"
  /\ Step(j, "preparing", "prepared")
  /\ active' = [active EXCEPT !.state = "target_prepare", !.phase = "TARGET_PREPARE",
                              !.destroyed = TRUE]
  /\ UNCHANGED <<elsewhere, gateVars, lock, exc, clean, diskVars, vssVars>>

(* Mutant of WPrepareFails: the exit code of the script is not looked at. *)
WPrepareFailureUnnoticed(j) ==
  /\ script[j] = "done"
  /\ CleanUp(j, "preparing", "final")
  /\ Raise(j, IF j \in marked THEN "partial" ELSE "blocked")
  /\ UNCHANGED <<elsewhere, gateVars, active, lock, diskVars, vssVars>>

(* The script failed, or its report is unusable: the marker file tells whether
   the clearing may have begun. *)
WPrepareFails(j) ==
  /\ script[j] \in {"done", "failed"}
  /\ CleanUp(j, "preparing", "final")
  /\ Raise(j, IF j \in marked THEN "partial" ELSE "blocked")
  /\ UNCHANGED <<elsewhere, gateVars, active, lock, diskVars, vssVars>>

(* Its 20 minutes are over: the script is ended, and TimeoutExpired passes the
   handler that looks at the marker. *)
WPrepareTimeout(j) ==
  /\ ScriptLive(j)
  /\ script' = [script EXCEPT ![j] = "failed"]
  /\ CleanUp(j, "preparing", "final")
  /\ Raise(j, "internal")
  /\ UNCHANGED <<elsewhere, gateVars, active, lock, marked, erased, vssVars>>

------------------------------------------------------------------------------
(* Copy, verification and the end. *)

(* The new volume is large enough and is the authorised one. *)
WCopy(j) ==
  /\ Step(j, "prepared", "copy")
  /\ active' = [active EXCEPT !.state = "copy", !.phase = "COPY"]
  /\ UNCHANGED <<elsewhere, gateVars, lock, exc, clean, diskVars, vssVars>>

WCopied(j) ==
  /\ Step(j, "copy", "verify")
  /\ active' = [active EXCEPT !.state = "verify", !.phase = "VERIFY"]
  /\ UNCHANGED <<elsewhere, gateVars, lock, exc, clean, diskVars, vssVars>>

(* A failure after the preparation; a cancellation during the copy is one. *)
WCopyFails(j) ==
  /\ \E at \in {"prepared", "copy", "verify", "attributes"} : CleanUp(j, at, "final")
  /\ \E e \in {"partial", "roles", "internal"} : Raise(j, e)
  /\ UNCHANGED <<elsewhere, gateVars, active, lock, diskVars, vssVars>>

(* The manifest of the copy is read with the cancellation check of the source
   manifest, which raises "cancelled". *)
WVerifyCancelled(j) ==
  /\ event[j]
  /\ CleanUp(j, "verify", "final")
  /\ Raise(j, "cancelled")
  /\ UNCHANGED <<elsewhere, gateVars, active, lock, diskVars, vssVars>>

(* Mutant of WVerifyDiffers: a difference does not keep the clone from going on
   to its clean-up. *)
WVerifyTolerant(j) ==
  /\ CleanUp(j, "verify", "final")
  /\ active' = [active EXCEPT !.state = "cleanup", !.phase = "CLEANUP"]
  /\ UNCHANGED <<elsewhere, gateVars, lock, exc, diskVars, vssVars>>

WVerifyDiffers(j) ==
  /\ CleanUp(j, "verify", "final")
  /\ active' = [active EXCEPT !.state = "partial", !.phase = "VERIFY"]
  /\ UNCHANGED <<elsewhere, gateVars, lock, exc, diskVars, vssVars>>

WVerified(j) ==
  /\ Step(j, "verify", "attributes")
  /\ active' = [active EXCEPT !.state = "cleanup", !.phase = "CLEANUP", !.verified = TRUE]
  /\ UNCHANGED <<elsewhere, gateVars, lock, exc, clean, diskVars, vssVars>>

WAttributesCleared(j) ==
  /\ CleanUp(j, "attributes", "final")
  /\ UNCHANGED <<elsewhere, gateVars, active, lock, exc, diskVars, vssVars>>

(* The clean-up of the snapshots the worker knows: of the journal after a
   failed helper, of the whole set otherwise. *)
WDelete(j) ==
  /\ Step(j, "delete", "confirm")
  /\ DeleteSnapshots(j, IF clean[j] = "journaled" THEN journal[j].ids ELSE Volumes)
  /\ UNCHANGED <<elsewhere, gateVars, active, lock, exc, clean, diskVars, journal, helper>>

(* Where a clean-up leaves the worker. *)
CleanedUp(j) == Step(j, "confirm", IF exc[j] = "none" THEN "release" ELSE "handle")

(* Windows' inventory no longer shows any of them; at the end of a verified
   clone this is what completes it. *)
WConfirm(j) ==
  /\ snaps[j] = {}
  /\ CleanedUp(j)
  /\ \/ /\ clean[j] = "journaled"
        /\ active' = [active EXCEPT !.confirmed = "yes", !.recovery = FALSE]
     \/ /\ clean[j] # "journaled" /\ active.state # "cleanup"
        /\ active' = [active EXCEPT !.confirmed = "yes", !.recovery = FALSE, !.helper = FALSE]
     \/ /\ clean[j] = "final" /\ active.state = "cleanup"
        /\ active' = [active EXCEPT !.confirmed = "yes", !.recovery = FALSE, !.helper = FALSE,
                                    !.state = "complete", !.phase = "COMPLETE"]
  /\ UNCHANGED <<elsewhere, gateVars, lock, exc, clean, diskVars, vssVars>>

(* Mutant of WConfirmFails: a clean-up that fails does not ask for a recovery. *)
WConfirmFailsUnasked(j) ==
  /\ CleanedUp(j)
  /\ active' = [active EXCEPT !.confirmed = "no"]
  /\ UNCHANGED <<elsewhere, gateVars, lock, exc, clean, diskVars, vssVars>>

(* It shows one, could not be read, or an identifier was not the job's. *)
WConfirmFails(j) ==
  /\ CleanedUp(j)
  /\ \/ /\ clean[j] = "journaled"
        /\ active' = [active EXCEPT !.confirmed = "no", !.recovery = TRUE]
     \/ /\ clean[j] = "mapped"
        /\ active' = [active EXCEPT !.confirmed = "no", !.recovery = TRUE, !.helper = TRUE]
     \/ /\ clean[j] = "final"
        /\ active' = [active EXCEPT !.confirmed = "no", !.recovery = TRUE, !.helper = TRUE,
                                    !.state = Incomplete(active), !.phase = "CLEANUP"]
  /\ UNCHANGED <<elsewhere, gateVars, lock, exc, clean, diskVars, vssVars>>

(* Mutant of Outcome: a change of the disk roles is a refusal even after the
   target was prepared. *)
OutcomeAsIfUntouched(e, r) ==
  CASE e = "roles" -> "blocked"
    [] e = "internal" \/ r.recovery -> Incomplete(r)
    [] e = "cancelled" -> "cancelled"
    [] OTHER -> IF r.destroyed THEN "partial" ELSE e

(* What the handlers of _run_clone_job make of an exception. *)
Outcome(e, r) ==
  CASE e = "roles" -> IF r.destroyed THEN "partial" ELSE "blocked"
    [] e = "internal" \/ r.recovery -> Incomplete(r)
    [] e = "cancelled" -> "cancelled"
    [] OTHER -> IF r.destroyed THEN "partial" ELSE e

WHandle(j) ==
  /\ Step(j, "handle", "release")
  /\ active' = [active EXCEPT !.state = Outcome(exc[j], active)]
  /\ UNCHANGED <<elsewhere, gateVars, lock, exc, clean, diskVars, vssVars>>

(* The lock is removed if it is still the worker's; the gate is closed. *)
WRelease(j) ==
  /\ Step(j, "release", "ended")
  /\ lock' = IF lock = j THEN NoJob ELSE lock
  /\ LocalsGone(j)
  /\ UNCHANGED <<elsewhere, gateVars, active, diskVars, vssVars>>

WorkerStep(j) ==
  \/ WOpenGate(j) \/ WLock(j) \/ WClaim(j) \/ WPrecheck(j) \/ WPrecheckFails(j)
  \/ WAnnounceHelper(j) \/ WStartHelper(j) \/ WHelperDone(j) \/ WHelperFails(j)
  \/ WJournalMissing(j) \/ WJournalRead(j) \/ WMapped(j) \/ WMappingFails(j)
  \/ WScanCancelled(j) \/ WScanFails(j) \/ WScanned(j)
  \/ WBoundaryLock(j) \/ WBoundaryCancelled(j) \/ WBoundaryOpen(j) \/ WBoundaryInsecure(j)
  \/ WPublish(j) \/ WStartScript(j) \/ WPrepared(j) \/ WPrepareFails(j) \/ WPrepareTimeout(j)
  \/ WCopy(j) \/ WCopied(j) \/ WCopyFails(j)
  \/ WVerifyCancelled(j) \/ WVerifyDiffers(j) \/ WVerified(j) \/ WAttributesCleared(j)
  \/ WDelete(j) \/ WConfirm(j) \/ WConfirmFails(j) \/ WHandle(j) \/ WRelease(j)

ScriptStep(j) == ScriptMark(j) \/ ScriptClear(j) \/ ScriptEnds(j)

(* The worker is killed, or the machine stops it, between any two steps; its
   helper and its script run on.  A mutex it held is abandoned. *)
WorkerCrash(j) ==
  /\ crashes.worker < MaxWorkerCrashes
  /\ WorkerLive(j)
  /\ crashes' = [crashes EXCEPT !.worker = @ + 1]
  /\ worker' = [worker EXCEPT ![j] = "crashed"]
  /\ mutex' = [mutex EXCEPT ![j] = IF @ = "worker" THEN "free" ELSE @]
  /\ LocalsGone(j)
  /\ UNCHANGED <<appVars, cancelVars, event, active, lock, diskVars, recoverer, vssVars>>

------------------------------------------------------------------------------
(* A recovery process: _recover_vss_job. *)

RStep(r, from, to) ==
  recoverer[r].pc = from /\ recoverer' = [recoverer EXCEPT ![r] = [@ EXCEPT !.pc = to]]

Ended(how) == [pc |-> how, job |-> NoJob, ids |-> {}]

notRecovering == <<appVars, cancelVars, gateVars, workVars, diskVars, crashes>>

(* worker.lock, which is stale at once here when its process is gone. *)
RLock(r) ==
  /\ IF lock = NoJob \/ ~ProcessLive(lock)
     THEN RStep(r, "spawned", "begin") /\ lock' = r
     ELSE /\ recoverer[r].pc = "spawned"
          /\ recoverer' = [recoverer EXCEPT ![r] = Ended("ended")]
          /\ UNCHANGED lock
  /\ UNCHANGED <<notRecovering, active, vssVars>>

(* The clean-up is still pending, disks and volumes are those of the record,
   and the journal is readable, or absent if the record denies the helper. *)
RBegin(r) ==
  /\ recoverer[r].pc = "begin"
  /\ active.job = recoverer[r].job /\ RecoveryPending(active)
  /\ journal[active.job].file = IF active.helper THEN "valid" ELSE "absent"
  /\ recoverer' = [recoverer EXCEPT ![r] =
                     [@ EXCEPT !.pc = "delete", !.ids = journal[active.job].ids]]
  /\ active' = [active EXCEPT !.state = "cleanup", !.phase = "CLEANUP", !.pid = r]
  /\ UNCHANGED <<notRecovering, lock, vssVars>>

(* Whatever was refused or failed, the record asks for a recovery again. *)
StillPending(r) ==
  active' = IF active.job = recoverer[r].job
            THEN [active EXCEPT !.state = Incomplete(active), !.phase = "CLEANUP",
                                !.pid = r, !.confirmed = "no", !.recovery = TRUE]
            ELSE active

(* Nothing is pending (any more), an identity changed, or the journal and the
   record disagree. *)
RRefuse(r) ==
  /\ RStep(r, "begin", "release")
  /\ StillPending(r)
  /\ UNCHANGED <<notRecovering, lock, vssVars>>

RDelete(r) ==
  /\ RStep(r, "delete", "confirm")
  /\ DeleteSnapshots(recoverer[r].job, recoverer[r].ids)
  /\ UNCHANGED <<notRecovering, active, lock, journal, helper>>

RConfirm(r) ==
  /\ RStep(r, "confirm", "release")
  /\ snaps[recoverer[r].job] \cap recoverer[r].ids = {}
  /\ active' = [active EXCEPT !.state = Incomplete(active), !.phase = "CLEANUP", !.pid = r,
                              !.confirmed = "yes", !.recovery = FALSE, !.helper = FALSE]
  /\ UNCHANGED <<notRecovering, lock, vssVars>>

RConfirmFails(r) ==
  /\ RStep(r, "confirm", "release")
  /\ StillPending(r)
  /\ UNCHANGED <<notRecovering, lock, vssVars>>

RRelease(r) ==
  /\ recoverer[r].pc = "release"
  /\ recoverer' = [recoverer EXCEPT ![r] = Ended("ended")]
  /\ lock' = IF lock = r THEN NoJob ELSE lock
  /\ UNCHANGED <<notRecovering, active, vssVars>>

RecovererStep(r) ==
  RLock(r) \/ RBegin(r) \/ RRefuse(r) \/ RDelete(r) \/ RConfirm(r) \/ RConfirmFails(r)
  \/ RRelease(r)

RecovererCrash(r) ==
  /\ crashes.recovery < MaxRecoveryCrashes
  /\ RecovererLive(r)
  /\ crashes' = [crashes EXCEPT !.recovery = @ + 1]
  /\ recoverer' = [recoverer EXCEPT ![r] = Ended("crashed")]
  /\ UNCHANGED <<appVars, cancelVars, gateVars, active, lock, workVars, diskVars, vssVars>>

------------------------------------------------------------------------------
HelperRuns(j) == HelperStep(j) /\ UNCHANGED cloneVars

LaunchStep ==
  \/ LaunchStops \/ LaunchCreateGate \/ LaunchCancelled \/ LaunchWorker
  \/ LaunchAcknowledged \/ LaunchFails

CancelStep == CancelEarlySignal \/ CancelLock \/ CancelCheck \/ CancelSignal

AppNext ==
  \/ Monitor \/ LaunchStep \/ (\E j \in Jobs : LaunchBegin(j))
  \/ CancelPending \/ CancelOpen \/ CancelStep
  \/ (\E r \in Recoverers : RecoverRequest(r)) \/ AppCrash

Next ==
  \/ AppNext
  \/ \E j \in Jobs : WorkerStep(j) \/ HelperRuns(j) \/ ScriptStep(j) \/ WorkerCrash(j)
  \/ \E r \in Recoverers : RecovererStep(r) \/ RecovererCrash(r)

(* A process that has been started keeps running: every external command it
   waits for has a timeout, and the mutex is held for a few statements.  Who
   waits for the mutex gets it although others keep taking it: Windows serves
   the waiters of a mutex in the order of their arrival.  The owner's requests
   and the polling of the page are not fair. *)
Fairness ==
  /\ WF_vars(LaunchStep) /\ WF_vars(CancelStep)
  /\ SF_vars(LaunchFails) /\ SF_vars(CancelLock) /\ \A j \in Jobs : SF_vars(WBoundaryLock(j))
  /\ \A j \in Jobs : WF_vars(WorkerStep(j)) /\ WF_vars(HelperRuns(j)) /\ WF_vars(ScriptStep(j))
  /\ \A r \in Recoverers : WF_vars(RecovererStep(r))

Spec == Init /\ [][Next]_vars
FairSpec == Spec /\ Fairness

------------------------------------------------------------------------------
(* Properties. *)

(* Cancellation and preparation are decided once, in one order, under the
   mutex; a job whose cancellation came first never has the target erased. *)
Boundary == INSTANCE CloneBoundary WITH
  status <- [j \in Jobs |-> IF script[j] # "idle" THEN "preparing"
                            ELSE IF event[j] THEN "cancelled" ELSE "open"]
BoundaryKept == Boundary!Spec

(* While a worker runs past its claim, and while a recovery cleans up, the
   record is its own: no other worker and no other recovery writes it in
   between. *)
RecordIsOwned ==
  /\ \A j \in Jobs :
       worker[j] \notin {"none", "spawned", "gated", "locked", "release", "ended", "crashed"}
         => active.job = j /\ active.pid = j /\ lock = j
  /\ \A r \in Recoverers :
       recoverer[r].pc \in {"delete", "confirm"}
         => active.job = recoverer[r].job /\ active.pid = r /\ lock = r

(* From the boundary until its last snapshot is to be deleted, a running worker
   has the whole set of snapshots it reads from, all of it journaled. *)
SourceStaysReadable ==
  \A j \in Jobs :
    worker[j] \in {"mapping", "scan", "boundary", "decide", "publish", "prepare",
                   "preparing", "prepared", "copy", "verify", "attributes"}
      => snaps[j] = Volumes /\ journal[j].ids = Volumes

(* Snapshots that are left are offered for recovery, or their worker is about to
   delete them.  Two things take the offer away, both after a kill: the record
   confirms a clean-up that came before the helper had made its set, or says
   cancelled at PRECHECK, a phase that has no snapshots
   (first_party_clone_worker.py:834). *)
LeftIsOffered ==
  \A j \in Jobs : snaps[j] # {} =>
    \/ active.job = j /\ (RecoveryPending(active) \/ worker[j] \in {"delete", "confirm"})
    \/ /\ worker[j] = "crashed"
       /\ active.job = j => active.confirmed = "yes" \/ active.phase = "PRECHECK"

(* The snapshots of a job are there as long as its worker reads from them, and
   somebody is to delete them afterwards. *)
SnapshotsAreTended == SourceStaysReadable /\ LeftIsOffered

(* No snapshot of any job escapes the job's journal. *)
SnapshotsJournaled == JournalCoversSnapshots

(* A record that admits the destruction of the target never calls the job
   failed or blocked, which would let the next launch through unreviewed. *)
DestroyedNeedsReview == active.destroyed => active.state \notin {"failed", "blocked"}

(* The record says "complete" only for a target that was prepared and verified,
   and when no snapshot of the job is left. *)
CompleteIsTrue ==
  active.state = "complete" =>
    /\ active.destroyed /\ active.verified /\ active.confirmed = "yes"
    /\ active.job \in erased /\ script[active.job] = "done" /\ snaps[active.job] = {}

(* A confirmed clean-up is true: no snapshot of the recorded job is left and
   none can appear any more, unless the worker of that very job was killed.  A
   recovery then confirms what the journal says, while the helper, which nobody
   supervises any more, may still be making its set
   (first_party_clone_worker.py:752). *)
ConfirmedMeansGone ==
  active.confirmed = "yes" =>
    \/ snaps[active.job] = {} /\ ~HelperLive(active.job)
    \/ worker[active.job] = "crashed"

(* A cancellation that was accepted before the preparation began keeps the
   target unchanged, whatever crashes, unless another launch came before: a poll
   that sees the end of the earlier worker clears the flag of the later launch
   (first_party_data_clone.py:1309; docs/clone-worker-runtime.md:73: "If
   cancellation wins first, the target is not changed."). *)
AcceptedCancelHonoured ==
  (\A i, j \in Jobs \ fresh : i = j) => accepted \cap erased = {}

(* A record that ends as cancelled admits the destruction of the target if there
   was one: a cancellation is accepted again while the copy is made and verified
   (first_party_clone_worker.py:666). *)
CancelledAdmitsDestruction ==
  active.state = "cancelled" /\ active.job \in erased => active.destroyed

(* A job whose record admits the erasure does not end as a failure or a refusal,
   and one that ends as cancelled admits it if there was one.  A preparation that
   runs out of time ends as failed before anybody knows what it erased
   (first_party_clone_worker.py:666, 857). *)
ErasureIsTold == DestroyedNeedsReview /\ CancelledAdmitsDestruction

(* A job is replaced in the record only when nothing of it is unfinished. *)
NoJobIsForgotten ==
  [][active'.job # active.job /\ active.job # NoJob =>
       ~WorkerLive(active.job) \/ worker[active.job] = "release"]_vars

(* Every launch returns, and every started worker ends or is killed, whatever
   the owner, its helper and the disks do. *)
LaunchReturns == launch.pc # "idle" ~> launch.pc = "idle"
WorkerEnds == \A j \in Jobs : WorkerLive(j) ~> ~WorkerLive(j)

(* cancel() never hangs on the mutex of a worker. *)
CancelReturns == canceller.pc # "idle" ~> canceller.pc = "idle"

(* Whatever becomes of the worker, the calls of the app come back. *)
AppReturns == LaunchReturns /\ CancelReturns

==============================================================================
