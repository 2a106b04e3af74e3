---------------------------- MODULE CloneService ----------------------------
(***************************************************************************)
(* The scheduled whole-disk clone: CloneService.execute of disk_clone.py,  *)
(* run by any number of processes over one database, one target disk and   *)
(* the two lock files of the vault (the backup lock of locks.py, which the *)
(* imports take too, and the clone lock).                                  *)
(*                                                                         *)
(* A run is executed by one process, so a run names its process as well.   *)
(* Outcomes no property tells apart are one state: "blocked" stands for    *)
(* skipped_*, blocked_*, cancelled_before_start and re_enrollment_required,*)
(* "failed" for failed_provider and failed_verification, "open" for every  *)
(* state that is not final, which pc tells apart.  The clock window is a   *)
(* choice at each of its checks.  Under the locks every write of the row   *)
(* may raise, those of the handlers included.                              *)
(***************************************************************************)
EXTENDS Naturals, FiniteSets

CONSTANTS
  Runs,         \* clone runs, each with the process that executes it
  Importers,    \* processes that hold the backup lock only
  KeepOffline,  \* configuration keep_target_offline
  MaxHalfDays,  \* how often twelve hours pass (bound of the model)
  MaxCrashes    \* how many processes crash (bound of the model)

ASSUME ProcessesDiffer == Runs \cap Importers = {}
ASSUME NobodyIsNoProcess == "nobody" \notin Runs \cup Importers
ASSUME KeepOfflineIsFlag == KeepOffline \in BOOLEAN
ASSUME BoundsAreNumbers == MaxHalfDays \in Nat /\ MaxCrashes \in Nat

VARIABLES
  state,     \* state[r]: disk_clone_runs.state, "none" before the row exists
  old,       \* old[r]: the row was created more than twelve hours ago
  pidSaved,  \* pidSaved[r]: provider_pid names a process of its own
  prov,      \* prov[r]: the provider of run r
  online,    \* the target disk is online
  file,      \* file[l]: the lock file l
  held,      \* held[p]: locks whose object of process p says "acquired"
  pc,        \* pc[p]: where process p is
  brought,   \* brought[r]: r brought the target online and has not tried to
             \* undo it ("known"), or cannot undo it, without result.target, or
             \* not record that it could not ("lost")
  listed,    \* listed[r]: rows that reconcile_interrupted of r has read
  halfDays,  \* how often twelve hours have passed
  stolen     \* history: a clone lock that was not abandoned has been unlinked

vars == <<state, old, pidSaved, prov, online, file, held, pc, brought,
          listed, halfDays, stolen>>
rows == <<state, old, pidSaved>>
locals == <<brought, listed>>

Processes == Runs \cup Importers
Locks == {"backup", "clone"}

(* disk_clone.py:92 TERMINAL_STATES, as far as execute writes them          *)
TerminalStates == {"blocked", "failed", "failed_offline_cleanup", "interrupted",
                   "success"}
States == TerminalStates \cup {"none", "open"}

Free == [owner |-> "nobody", written |-> FALSE, old |-> FALSE]
LockFiles == [owner : Processes, written : BOOLEAN, old : BOOLEAN] \cup {Free}

Steps == {"idle", "reconcile", "preflight", "countdown", "look", "unlink",
          "create", "write", "online", "recheck", "start",
          "cloning", "inspect", "verify", "return", "succeed", "close", "cleanup",
          "unlock", "leave", "done", "dead"}

(* Between the two lock acquisitions and the release of the clone lock.     *)
Guarded == {"online", "recheck", "start", "cloning", "inspect",
            "verify", "return", "succeed", "close", "cleanup", "unlock"}

Live(p) == pc[p] \notin {"idle", "done", "dead"}

TypeOK ==
  /\ state \in [Runs -> States]
  /\ old \in [Runs -> BOOLEAN]
  /\ pidSaved \in [Runs -> BOOLEAN]
  /\ prov \in [Runs -> {"none", "running", "good", "bad"}]
  /\ online \in BOOLEAN
  /\ file \in [Locks -> LockFiles]
  /\ held \in [Processes -> SUBSET Locks]
  /\ pc \in [Processes -> Steps]
  /\ brought \in [Runs -> {"no", "known", "lost"}]
  /\ listed \in [Runs -> SUBSET [run : Runs, pid : BOOLEAN]]
  /\ halfDays \in 0..MaxHalfDays
  /\ stolen \in BOOLEAN

Init ==
  /\ state = [r \in Runs |-> "none"]
  /\ old = [r \in Runs |-> FALSE]
  /\ pidSaved = [r \in Runs |-> FALSE]
  /\ prov = [r \in Runs |-> "none"]
  /\ online = ~KeepOffline
  /\ file = [l \in Locks |-> Free]
  /\ held = [p \in Processes |-> {}]
  /\ pc = [p \in Processes |-> "idle"]
  /\ brought = [r \in Runs |-> "no"]
  /\ listed = [r \in Runs |-> {}]
  /\ halfDays = 0
  /\ stolen = FALSE

----------------------------------------------------------------------------
(* Lock files.  A process wants the backup lock first, then the clone lock. *)

Wanted(p) == IF "backup" \in held[p] THEN "clone" ELSE "backup"

(* lock_is_stale: a missing file counts as stale.                           *)
Stale(l) == file[l] # Free => file[l].old

(* _pid_is_live: an unreadable lock is taken for a live owner's.            *)
OwnerLive(l) == file[l] # Free => (~file[l].written \/ Live(file[l].owner))

(* Mutant of Abandoned: the age alone.                                      *)
AbandonedByAge(l) == Stale(l)

(* What acquire may unlink: BackupLock asks the age only, CloneLock also    *)
(* that the owner's process is gone.                                        *)
Abandoned(l) == Stale(l) /\ (l = "clone" => ~OwnerLive(l))

Goto(p, step) == pc' = [pc EXCEPT ![p] = step]

(* Mutant of Refused: no finally.                                           *)
RefusedAtOnce(p) ==
  /\ state' = [r \in Runs |-> IF r = p THEN "blocked" ELSE state[r]]
  /\ Goto(p, "done")

(* A refused acquire is a RuntimeError: the outer handler of execute        *)
(* records it, an import ends.                                              *)
Refused(p) ==
  /\ state' = [r \in Runs |-> IF r = p THEN "blocked" ELSE state[r]]
  /\ Goto(p, "leave")

CreateFile(p, l) ==
  /\ file' = [file EXCEPT ![l] = [owner |-> p, written |-> FALSE, old |-> FALSE]]
  /\ Goto(p, "write")

(* acquire, up to the first effect: the exclusive create when no file is    *)
(* there, the decision to unlink an abandoned one, or the refusal.          *)
TryLock(p) ==
  LET l == Wanted(p) IN
  /\ pc[p] = "look"
  /\ \/ file[l] = Free /\ CreateFile(p, l) /\ UNCHANGED state
     \/ file[l] # Free /\ Abandoned(l) /\ Goto(p, "unlink") /\ UNCHANGED <<state, file>>
     \/ file[l] # Free /\ ~Abandoned(l) /\ Refused(p) /\ UNCHANGED file
  /\ UNCHANGED <<old, pidSaved, prov, online, held, locals, halfDays, stolen>>

(* unlink(missing_ok): whatever file has the name by now goes.              *)
UnlinkLock(p) ==
  /\ pc[p] = "unlink"
  /\ file' = [file EXCEPT ![Wanted(p)] = Free]
  /\ stolen' = (stolen \/ (Wanted(p) = "clone" /\ file["clone"] # Free
                           /\ ~Abandoned("clone")))
  /\ Goto(p, "create")
  /\ UNCHANGED <<rows, prov, online, held, locals, halfDays>>

(* The exclusive create after an unlink.                                    *)
CreateLock(p) ==
  /\ pc[p] = "create"
  /\ \/ file[Wanted(p)] = Free /\ CreateFile(p, Wanted(p)) /\ UNCHANGED state
     \/ file[Wanted(p)] # Free /\ Refused(p) /\ UNCHANGED file
  /\ UNCHANGED <<old, pidSaved, prov, online, held, locals, halfDays, stolen>>

(* The payload is written and synced; when that fails the file goes and the *)
(* OSError, which no handler of execute catches, leaves through its finally.*)
WriteLock(p) ==
  /\ pc[p] = "write"
  /\ \/ /\ file' = [file EXCEPT ![Wanted(p)] =
                      IF @.owner = p THEN [@ EXCEPT !.written = TRUE] ELSE @]
        /\ held' = [held EXCEPT ![p] = @ \cup {Wanted(p)}]
        /\ Goto(p, IF p \in Importers THEN "leave"
                   ELSE IF Wanted(p) = "clone" THEN "online" ELSE "look")
        /\ UNCHANGED stolen
     \/ /\ file' = [file EXCEPT ![Wanted(p)] = Free]
        /\ stolen' = (stolen \/ (Wanted(p) = "clone"
                                 /\ file["clone"] # Free
                                 /\ file["clone"].owner # p))
        /\ Goto(p, "leave")
        /\ UNCHANGED held
  /\ UNCHANGED <<rows, prov, online, locals, halfDays>>

(* CloneLock.release unlinks its own token only.                            *)
ReleaseClone(r) ==
  /\ pc[r] = "unlock"
  /\ file' = IF file["clone"] # Free /\ file["clone"].written /\ file["clone"].owner = r
             THEN [file EXCEPT !["clone"] = Free] ELSE file
  /\ held' = [held EXCEPT ![r] = @ \ {"clone"}]
  /\ Goto(r, "leave")
  /\ UNCHANGED <<rows, prov, online, locals, halfDays, stolen>>

(* BackupLock.release unlinks without asking whose file it is.  For an      *)
(* import this is the end of its whole work under the lock (cli.py).        *)
ReleaseBackup(p) ==
  /\ pc[p] = "leave"
  /\ file' = IF "backup" \in held[p] THEN [file EXCEPT !["backup"] = Free] ELSE file
  /\ held' = [held EXCEPT ![p] = @ \ {"backup"}]
  /\ Goto(p, "done")
  /\ UNCHANGED <<rows, prov, online, locals, halfDays, stolen>>

----------------------------------------------------------------------------
(* execute: the part before the locks.                                      *)

Become(r, s) == state' = [state EXCEPT ![r] = s]

(* An exception under the locks: the handler writes the state it stands for *)
(* (DiskCloneBlocked its own, any other one failed_provider), or raises in  *)
(* turn, then finally.                                                      *)
Raise(r, s) == (Become(r, s) \/ UNCHANGED state) /\ Goto(r, "cleanup")
Bring(r, b) == brought' = [brought EXCEPT ![r] = b]

(* reconcile_interrupted reads every unfinished row once ...                *)
BeginExecute(r) ==
  /\ pc[r] = "idle"
  /\ listed' = [listed EXCEPT ![r] =
        {[run |-> q, pid |-> pidSaved[q]] :
            q \in {x \in Runs : state[x] = "open" /\ old[x]}}]
  /\ Goto(r, "reconcile")
  /\ UNCHANGED <<rows, prov, online, file, held, brought, halfDays, stolen>>

(* ... and then settles them one at a time, by the pid it has read.         *)
ReconcileRow(r) ==
  /\ pc[r] = "reconcile"
  /\ \E row \in listed[r] :
        /\ IF row.pid /\ prov[row.run] = "running"
           THEN UNCHANGED state ELSE Become(row.run, "interrupted")
        /\ listed' = [listed EXCEPT ![r] = @ \ {row}]
  /\ UNCHANGED <<old, pidSaved, prov, online, file, held, pc, brought,
                 halfDays, stolen>>

CreateRun(r) ==
  /\ pc[r] = "reconcile" /\ listed[r] = {}
  /\ Become(r, "open")
  /\ Goto(r, "preflight")
  /\ UNCHANGED <<old, pidSaved, prov, online, file, held, locals, halfDays, stolen>>

(* Before the locks a refusal ends the run with its state, and an exception *)
(* that execute does not expect (an OSError of the inventory) leaves the    *)
(* row unfinished.                                                          *)
EndBeforeLocks(r) == Goto(r, "done") /\ (Become(r, "blocked") \/ UNCHANGED state)

(* preflight refuses while a lock file that is not stale exists; everything *)
(* else it asks (window, session, enrollment, inventory, activity) may also *)
(* refuse.                                                                  *)
Preflight(r) ==
  /\ pc[r] = "preflight"
  /\ \/ EndBeforeLocks(r)
     \/ /\ \A l \in Locks : file[l] = Free \/ Stale(l)
        /\ Become(r, "open")
        /\ Goto(r, "countdown")
  /\ UNCHANGED <<old, pidSaved, prov, online, file, held, locals, halfDays, stolen>>

(* The countdown, then the revalidation after it; a result without a target *)
(* and a provider that may only simulate end the run before any lock.       *)
Countdown(r) ==
  /\ pc[r] = "countdown"
  /\ \/ EndBeforeLocks(r)
     \/ Become(r, "open") /\ Goto(r, "look")
  /\ UNCHANGED <<old, pidSaved, prov, online, file, held, locals, halfDays, stolen>>

----------------------------------------------------------------------------
(* execute: the part under both locks.                                      *)

(* The window once more, then set_online; the row says so before the call.  *)
BringTargetOnline(r) ==
  /\ pc[r] = "online"
  /\ \/ \E s \in {"blocked", "failed"} : Raise(r, s) /\ UNCHANGED <<online, brought>>
     \/ /\ Become(r, "open")
        /\ Goto(r, "recheck")
        /\ IF KeepOffline
           THEN online' = TRUE /\ Bring(r, "known")
           ELSE UNCHANGED <<online, brought>>
  /\ UNCHANGED <<old, pidSaved, prov, file, held, listed, halfDays, stolen>>

(* _last_moment_revalidate after set_online, and again with the activity    *)
(* sample.  Each assigns its result before it asks whether it is ok: one    *)
(* that did not find the target leaves no result.target behind.             *)
Revalidate(r) ==
  /\ pc[r] = "recheck"
  /\ \/ \E s \in {"blocked", "failed"} : Raise(r, s) /\ UNCHANGED brought
     \/ Raise(r, "blocked") /\ brought[r] = "known" /\ Bring(r, "lost")
     \/ Goto(r, "start") /\ UNCHANGED <<state, brought>>
  /\ UNCHANGED <<old, pidSaved, prov, online, file, held, listed, halfDays, stolen>>

(* The second window check, then provider.start, which reports to the sink  *)
(* of the run, a write of the database, once the provider runs.             *)
StartProvider(r) ==
  /\ pc[r] = "start"
  /\ \/ \E s \in {"blocked", "failed"} : Raise(r, s) /\ UNCHANGED prov
     \/ /\ prov' = [prov EXCEPT ![r] = "running"]
        /\ \/ Become(r, "open") /\ Goto(r, "cloning")
           \/ \E s \in {"open", "failed"} : Become(r, s) /\ Goto(r, "cleanup")
  /\ UNCHANGED <<old, pidSaved, online, file, held, locals, halfDays, stolen>>

(* provider_pid is saved after the start; a provider inside the process     *)
(* reports pid 0, which is stored as no pid.  This write may raise, and the *)
(* one of the state after it.                                               *)
SavePid(r) ==
  /\ pc[r] = "cloning"
  /\ \E b \in BOOLEAN : pidSaved' = [pidSaved EXCEPT ![r] = b]
  /\ \/ Become(r, "open") /\ Goto(r, "inspect")
     \/ Raise(r, "failed")
  /\ UNCHANGED <<old, prov, online, file, held, locals, halfDays, stolen>>

(* Mutant of InspectResult: a provider that has not failed yet is taken for *)
(* one that ended well.                                                     *)
InspectAtOnce(r) ==
  /\ pc[r] = "inspect"
  /\ \/ prov[r] # "bad" /\ Become(r, "open") /\ Goto(r, "verify")
     \/ Raise(r, "failed")
  /\ UNCHANGED <<old, pidSaved, prov, online, file, held, locals, halfDays, stolen>>

(* inspect_result waits for the provider; it may raise while it waits, and  *)
(* so may the writes of the exit code and of the state.                     *)
InspectResult(r) ==
  /\ pc[r] = "inspect"
  /\ \/ prov[r] = "good" /\ Become(r, "open") /\ Goto(r, "verify")
     \/ Raise(r, "failed")
  /\ UNCHANGED <<old, pidSaved, prov, online, file, held, locals, halfDays, stolen>>

(* A fresh inventory, the target found in it, and the structural verifier.  *)
VerifyTarget(r) ==
  /\ pc[r] = "verify"
  /\ \/ Raise(r, "failed")
     \/ KeepOffline /\ Become(r, "open") /\ Goto(r, "return")
     \/ ~KeepOffline /\ Goto(r, "succeed") /\ UNCHANGED state
  /\ UNCHANGED <<old, pidSaved, prov, online, file, held, locals, halfDays, stolen>>

(* set_offline is tried once: cleanup_attempted is set before the call.     *)
ReturnTargetOffline(r) ==
  /\ pc[r] = "return"
  /\ \/ /\ online' = FALSE /\ Bring(r, "no")
        /\ \/ Goto(r, "succeed") /\ UNCHANGED state
           \/ Raise(r, "failed")
     \/ /\ UNCHANGED online
        /\ \/ Become(r, "failed_offline_cleanup") /\ Goto(r, "unlock") /\ Bring(r, "no")
           \/ Raise(r, "failed") /\ Bring(r, "lost")
  /\ UNCHANGED <<old, pidSaved, prov, file, held, listed, halfDays, stolen>>

MarkSuccess(r) ==
  /\ pc[r] = "succeed"
  /\ \/ Become(r, "success") /\ Goto(r, "close")
     \/ Raise(r, "failed")
  /\ UNCHANGED <<old, pidSaved, prov, online, file, held, locals, halfDays, stolen>>

(* _finish_clone_run and _mark_success after the transition to success; an  *)
(* exception there takes the success back.                                  *)
CloseRun(r) ==
  /\ pc[r] = "close"
  /\ \/ Goto(r, "unlock") /\ UNCHANGED state
     \/ Raise(r, "failed")
  /\ UNCHANGED <<old, pidSaved, prov, online, file, held, locals, halfDays, stolen>>

(* Mutant of CleanUp: only a failed verification returns the target.        *)
CleanUpAfterProvider(r) ==
  /\ pc[r] = "cleanup"
  /\ Goto(r, "unlock")
  /\ IF brought[r] = "known" /\ prov[r] # "none"
     THEN Bring(r, "no") /\ online' = FALSE
     ELSE UNCHANGED <<online, brought>>
  /\ UNCHANGED <<rows, prov, file, held, listed, halfDays, stolen>>

(* finally: the target goes offline when this run brought it online and     *)
(* still knows it, or the row is to say that it did not; what of this can   *)
(* not be written is not said.                                              *)
CleanUp(r) ==
  /\ pc[r] = "cleanup"
  /\ Goto(r, "unlock")
  /\ IF brought[r] = "known"
     THEN \/ online' = FALSE /\ Bring(r, "no") /\ UNCHANGED state
          \/ online' \in {FALSE, online} /\ Bring(r, "no") /\ Become(r, "failed_offline_cleanup")
          \/ Bring(r, "lost") /\ UNCHANGED <<state, online>>
     ELSE UNCHANGED <<state, online, brought>>
  /\ UNCHANGED <<old, pidSaved, prov, file, held, listed, halfDays, stolen>>

----------------------------------------------------------------------------
(* The world.                                                               *)

BeginImport(p) ==
  /\ p \in Importers /\ pc[p] = "idle"
  /\ Goto(p, "look")
  /\ UNCHANGED <<rows, prov, online, file, held, locals, halfDays, stolen>>

ProviderEnds(r) ==
  /\ prov[r] = "running"
  /\ \E outcome \in {"good", "bad"} : prov' = [prov EXCEPT ![r] = outcome]
  /\ UNCHANGED <<rows, online, file, held, pc, locals, halfDays, stolen>>

(* A process ends at any point; a provider of its own may live on.          *)
Crash(p) ==
  /\ Live(p) /\ Cardinality({x \in Processes : pc[x] = "dead"}) < MaxCrashes
  /\ Goto(p, "dead")
  /\ \/ UNCHANGED prov
     \/ p \in Runs /\ prov[p] = "running" /\ prov' = [prov EXCEPT ![p] = "bad"]
  /\ UNCHANGED <<rows, online, file, held, locals, halfDays, stolen>>

TwelveHoursPass ==
  /\ halfDays < MaxHalfDays
  /\ halfDays' = halfDays + 1
  /\ old' = [r \in Runs |-> old[r] \/ state[r] # "none"]
  /\ file' = [l \in Locks |-> IF file[l] = Free THEN Free ELSE [file[l] EXCEPT !.old = TRUE]]
  /\ UNCHANGED <<state, pidSaved, prov, online, held, pc, locals, stolen>>

----------------------------------------------------------------------------
LockStep(p) ==
  \/ TryLock(p) \/ UnlinkLock(p) \/ CreateLock(p) \/ WriteLock(p) \/ ReleaseBackup(p)

RunStep(r) ==
  \/ ReconcileRow(r) \/ CreateRun(r) \/ Preflight(r) \/ Countdown(r)
  \/ BringTargetOnline(r) \/ Revalidate(r) \/ StartProvider(r) \/ SavePid(r)
  \/ InspectResult(r) \/ VerifyTarget(r) \/ ReturnTargetOffline(r)
  \/ MarkSuccess(r) \/ CloseRun(r) \/ CleanUp(r) \/ ReleaseClone(r)

Next ==
  \/ \E p \in Processes : LockStep(p) \/ Crash(p)
  \/ \E r \in Runs : BeginExecute(r) \/ RunStep(r) \/ ProviderEnds(r)
  \/ \E p \in Importers : BeginImport(p)
  \/ TwelveHoursPass

Spec == Init /\ [][Next]_vars

----------------------------------------------------------------------------
(* Properties.                                                              *)

(* Two live processes are never both between the acquisition and the        *)
(* release of the clone lock (execute, disk_clone.py:1678-1778), however    *)
(* old the lock of one of them is, unless a take-over has unlinked a lock   *)
(* other than the abandoned one it looked at.                               *)
OneLiveRunGuarded ==
  ~stolen => \A r, q \in Runs : pc[r] \in Guarded /\ pc[q] \in Guarded => r = q

(* What becomes stolen needs a crash and twelve hours: a lock file of a live *)
(* owner is never taken for abandoned, and the second unlink of a race      *)
(* (disk_clone.py:1081) needs a first one.                                  *)
OnlyTheDeadAreRobbed == stolen => halfDays > 0 /\ \E p \in Processes : pc[p] = "dead"

(* A provider nobody waits for: an exception has ended the run under it     *)
(* (disk_clone.py:849, 1708-1712), or its process died and the lock it left *)
(* has become stale.                                                        *)
Unattended(r) ==
  \/ pc[r] \in {"cleanup", "unlock"} \/ "clone" \notin held[r]
  \/ pc[r] = "dead" /\ old[r]

(* Of two providers on the target one is unattended: while the run that     *)
(* started it waits, and for twelve hours after that run has died, a        *)
(* provider keeps every other one out.                                      *)
OneProviderAtATime ==
  ~stolen => \A r, q \in Runs :
    prov[r] = "running" /\ prov[q] = "running" => r = q \/ Unattended(r) \/ Unattended(q)

(* No import holds the vault while a run has the target in its hands; after *)
(* twelve hours the unconditional unlink of BackupLock.release and the      *)
(* take-over by age let both in.                                            *)
ImportExcludesClone ==
  halfDays = 0 =>
    \A p \in Importers, r \in Runs : ~(pc[p] = "leave" /\ held[p] # {} /\ pc[r] \in Guarded)

(* A run or an import that has ended leaves no lock file of its own behind, *)
(* on any path of execute, the escaping OSError included.                   *)
EndedHoldsNoLock ==
  \A p \in Processes : pc[p] = "done" =>
    held[p] = {} /\ \A l \in Locks : file[l].owner # p

(* With keep_target_offline, once every process has ended by itself the     *)
(* target is offline, unless a run says failed_offline_cleanup (which       *)
(* reconcile_interrupted of another process may overwrite), or a            *)
(* revalidation failed without a target after the run brought it online:    *)
(* the finally of execute then has no disk to return; or a run could neither *)
(* return it nor write so.                                                  *)
TargetOfflineAtRest ==
  KeepOffline /\ (\A p \in Processes : pc[p] \in {"idle", "done"}) /\ online =>
    \E r \in Runs : state[r] \in {"failed_offline_cleanup", "interrupted"}
                    \/ brought[r] = "lost"

(* A target never goes offline under a provider that is writing it, unless  *)
(* that one is unattended.                                                  *)
NeverOfflineUnderProvider ==
  [][~stolen /\ online /\ ~online' =>
       \A r \in Runs : prov[r] = "running" => Unattended(r)]_vars

(* When a row becomes success its provider has ended well and, with         *)
(* keep_target_offline, the target is offline, whatever the other runs do.  *)
SuccessIsAtRest ==
  [][\A r \in Runs : ~stolen /\ state[r] # "success" /\ state'[r] = "success" =>
       prov[r] = "good" /\ (KeepOffline => ~online)]_vars

(* The target has one user at a time: one guarded run, one attended         *)
(* provider and no import beside them (disk_clone.py:1081, 1707,            *)
(* locks.py:50).                                                            *)
CloneIsExclusive ==
  /\ OneLiveRunGuarded /\ OnlyTheDeadAreRobbed
  /\ OneProviderAtATime /\ ImportExcludesClone

(* An attended provider has ended before the target goes offline, and both  *)
(* before the row says success (disk_clone.py:1711, 1764).                  *)
ProviderIsWaitedFor == NeverOfflineUnderProvider /\ SuccessIsAtRest

=============================================================================
