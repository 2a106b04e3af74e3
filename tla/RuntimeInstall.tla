---------------------------- MODULE RuntimeInstall ----------------------------
(***************************************************************************)
(* The installer of the protected clone runtime: worker, snapshot helper   *)
(* and manifest are replaced one file after the other, under a journal and *)
(* with a backup of each, and an interrupted installation is undone or     *)
(* finished by the next one.  Installers are elevated processes that may   *)
(* be killed between two steps; clone workers are started by the app or by *)
(* an installer, check the runtime and then make themselves the active     *)
(* clone.                                                                  *)
(*                                                                         *)
(* An installer brings one build, and the three files of that build are    *)
(* called by the installer.                                                *)
(***************************************************************************)
CONSTANTS Installers,   \* runs of install_clone_worker.ps1 -Install
          Workers,      \* processes of LocalVaultCloneWorker.exe
          Nothing       \* no file, no process

ASSUME NothingAssumption == Nothing \notin Installers \cup Workers

VARIABLES
  files,       \* worker, helper and manifest in their places
  backups,     \* the backups of the journaled transaction
  journal,     \* runtime-install-transaction.json
  ownerSid,    \* owner.sid: "absent", "unbound" (created, not yet written), "bound"
  mutex,       \* who holds Local\L-vault-CloneRuntimeInstall
  installer,   \* installer[i]: pc, mode, the worker it started
  worker,      \* worker[w]: where a worker process stands
  active,      \* the worker that active.json names
  blocking     \* active.json forbids a new clone and a new installation

fileVars == <<files, backups, journal>>
cloneVars == <<worker, active, blocking>>
vars == <<fileVars, ownerSid, mutex, installer, cloneVars>>

------------------------------------------------------------------------------
Files == {"worker", "helper", "manifest"}
Contents == [Files -> Installers \cup {Nothing}]
Whole(c) == [f \in Files |-> c]
NoFiles == Whole(Nothing)

(* The journal, with the hashes of the files before (which name the backups)
   and the build they are replaced by. *)
Journals == [phase : {"none", "prepared", "committed"}, previous : Contents,
             next : Installers \cup {Nothing}]
NoJournal == [phase |-> "none", previous |-> NoFiles, next |-> Nothing]
Pending == journal.phase # "none"

(* The protected text of the journal says so, and so do the installed files. *)
Committed == journal.phase = "committed" /\ files = Whole(journal.next)

Working == {"owner", "bind", "check", "recover", "restore worker", "restore helper",
            "restore manifest", "tidy worker", "tidy helper", "tidy manifest", "forget",
            "prepare", "journal", "replace worker", "replace helper", "replace manifest",
            "commit", "audit", "launch", "waiting", "killing", "judging"}
Outcomes == {"installed", "started", "failed", "crashed"}
InstallerStates ==
  [pc : {"unused"} \cup Working \cup Outcomes,
   mode : {"recovering", "installing", "undoing"}, child : Workers \cup {Nothing}]

WorkerStates == {"unused", "spawned", "unpending", "trusted", "active", "ended", "killed"}
WorkerLive(w) == worker[w] \notin {"unused", "ended", "killed"}

(* Windows does not replace or delete the image of a running process. *)
InUse(f) == f = "worker" /\ \E w \in Workers : WorkerLive(w)

TypeOK ==
  /\ files \in Contents /\ backups \in Contents
  /\ journal \in Journals
  /\ ownerSid \in {"absent", "unbound", "bound"}
  /\ mutex \in Installers \cup {Nothing}
  /\ installer \in [Installers -> InstallerStates]
  /\ worker \in [Workers -> WorkerStates]
  /\ active \in Workers \cup {Nothing}
  /\ blocking \in BOOLEAN

Init ==
  /\ files = NoFiles /\ backups = NoFiles
  /\ journal = NoJournal
  /\ ownerSid = "absent"
  /\ mutex = Nothing
  /\ installer = [i \in Installers |-> [pc |-> "unused", mode |-> "recovering", child |-> Nothing]]
  /\ worker = [w \in Workers |-> "unused"]
  /\ active = Nothing /\ blocking = FALSE

------------------------------------------------------------------------------
At(i, pc) == installer[i].pc = pc

Goto(i, from, to) == At(i, from) /\ installer' = [installer EXCEPT ![i].pc = to]

(* The end of the process, or of its work: the mutex is released. *)
Leave(i, from, how) == Goto(i, from, how) /\ mutex' = Nothing

(* The mutex is taken without waiting, or the installer gives up. *)
IEnter(i) ==
  /\ IF mutex = Nothing
     THEN Goto(i, "unused", "owner") /\ mutex' = i
     ELSE Goto(i, "unused", "failed") /\ UNCHANGED mutex
  /\ UNCHANGED <<fileVars, ownerSid, cloneVars>>

(* owner.sid is read, or created exclusively: then it is written, and given
   its protection, in further steps. *)
IReadOwner(i) ==
  /\ ownerSid = "bound"
  /\ Goto(i, "owner", "check")
  /\ UNCHANGED <<fileVars, ownerSid, mutex, cloneVars>>

IOwnerDiffers(i) ==
  /\ ownerSid = "unbound"
  /\ Leave(i, "owner", "failed")
  /\ UNCHANGED <<fileVars, ownerSid, cloneVars>>

ICreateOwner(i) ==
  /\ ownerSid = "absent"
  /\ Goto(i, "owner", "bind")
  /\ ownerSid' = "unbound"
  /\ UNCHANGED <<fileVars, mutex, cloneVars>>

IBindOwner(i) ==
  /\ Goto(i, "bind", "check")
  /\ ownerSid' = "bound"
  /\ UNCHANGED <<fileVars, mutex, cloneVars>>

(* Assert-NoActiveClone. *)
ICheckActive(i) ==
  /\ ~blocking
  /\ Goto(i, "check", "recover")
  /\ UNCHANGED <<fileVars, ownerSid, mutex, cloneVars>>

(* Whatever fails before the journal is written, or because a clone is active,
   ends the installer and changes nothing else. *)
IRefuse(i) ==
  /\ \E at \in {"owner", "bind", "check", "prepare", "journal"} : Leave(i, at, "failed")
  /\ UNCHANGED <<fileVars, ownerSid, cloneVars>>

------------------------------------------------------------------------------
(* Recover-InterruptedInstall: at the start of an installation ("recovering")
   and after a failure of its own ("undoing"). *)

(* Where an installer goes once nothing is pending, in its mode. *)
Continue(i, from) ==
  \/ installer[i].mode = "recovering" /\ Goto(i, from, "prepare") /\ UNCHANGED mutex
  \/ installer[i].mode = "installing" /\ Goto(i, from, "launch") /\ UNCHANGED mutex
  \/ installer[i].mode = "undoing" /\ Leave(i, from, "failed")

INothingPending(i) ==
  /\ ~Pending
  /\ Continue(i, "recover")
  /\ UNCHANGED <<fileVars, ownerSid, cloneVars>>

(* A committed runtime is kept; its audit record is written once more.  To
   roll back is for any other - and for one that cannot be read just now. *)
IKeepCommitted(i) ==
  /\ Pending /\ Committed
  /\ Goto(i, "recover", "tidy worker")
  /\ UNCHANGED <<fileVars, ownerSid, mutex, cloneVars>>

IRollBack(i) ==
  /\ Pending
  /\ Goto(i, "recover", "restore worker")
  /\ UNCHANGED <<fileVars, ownerSid, mutex, cloneVars>>

(* Mutant of IRestore: what the installation put there is deleted. *)
IRestoreByDeleting(i, f, from, to) ==
  /\ Goto(i, from, to)
  /\ ~InUse(f)
  /\ files' = [files EXCEPT ![f] = Nothing]
  /\ UNCHANGED <<backups, journal, ownerSid, mutex, cloneVars>>

(* Restore-TransactionFile: a file that was there before is replaced by its
   verified backup, one that was not is deleted. *)
IRestore(i, f, from, to) ==
  /\ Goto(i, from, to)
  /\ ~InUse(f)
  /\ backups[f] = journal.previous[f]
  /\ files[f] \in {Nothing, journal.previous[f], journal.next}
  /\ files' = [files EXCEPT ![f] = journal.previous[f]]
  /\ UNCHANGED <<backups, journal, ownerSid, mutex, cloneVars>>

IRestoreWorker(i) == IRestore(i, "worker", "restore worker", "restore helper")

(* Mutant of IRestoreHelper: the manifest is not restored. *)
IRestoreWithoutManifest(i) == IRestore(i, "helper", "restore helper", "tidy worker")

IRestoreHelper(i) == IRestore(i, "helper", "restore helper", "restore manifest")
IRestoreManifest(i) == IRestore(i, "manifest", "restore manifest", "tidy worker")

(* Remove-TransactionBackups, and then the journal, of a recovery or of an
   installation that went well. *)
ITidy(i, f, from, to) ==
  /\ Goto(i, from, to)
  /\ backups' = [backups EXCEPT ![f] = Nothing]
  /\ UNCHANGED <<files, journal, ownerSid, mutex, cloneVars>>

ITidyWorker(i) == ITidy(i, "worker", "tidy worker", "tidy helper")
ITidyHelper(i) == ITidy(i, "helper", "tidy helper", "tidy manifest")
ITidyManifest(i) == ITidy(i, "manifest", "tidy manifest", "forget")

IForget(i) ==
  /\ Continue(i, "forget")
  /\ journal' = NoJournal
  /\ UNCHANGED <<files, backups, ownerSid, cloneVars>>

(* A recovery that fails anywhere ends the installer and keeps the journal. *)
IRecoveryFails(i) ==
  /\ installer[i].mode # "installing"
  /\ \E at \in {"recover", "restore worker", "restore helper", "restore manifest",
                "tidy worker", "tidy helper", "tidy manifest", "forget"} : Leave(i, at, "failed")
  /\ UNCHANGED <<fileVars, ownerSid, cloneVars>>

------------------------------------------------------------------------------
(* Install-CloneRuntime, once nothing is pending. *)

(* What earlier installers left behind is removed, the new files are staged
   and the installed ones are backed up. *)
IPrepare(i) ==
  /\ Goto(i, "prepare", "journal")
  /\ backups' = files
  /\ UNCHANGED <<files, journal, ownerSid, mutex, cloneVars>>

(* From here on a failure is undone - unless it is one of the steps that
   follow the replacement of the journal file itself. *)
IJournal(i) ==
  /\ journal' = [phase |-> "prepared", previous |-> files, next |-> i]
  /\ \/ /\ At(i, "journal")
        /\ installer' = [installer EXCEPT ![i].pc = "replace worker", ![i].mode = "installing"]
        /\ UNCHANGED mutex
     \/ Leave(i, "journal", "failed")
  /\ UNCHANGED <<files, backups, ownerSid, cloneVars>>

(* Mutant of IReplace: the manifest first, the worker last. *)
IReplaceReversed(i, f, from, to) ==
  LET g == [worker |-> "manifest", helper |-> "helper", manifest |-> "worker"][f]
  IN /\ Goto(i, from, to)
     /\ ~InUse(g)
     /\ files' = [files EXCEPT ![g] = i]
     /\ UNCHANGED <<backups, journal, ownerSid, mutex, cloneVars>>

IReplace(i, f, from, to) ==
  /\ Goto(i, from, to)
  /\ ~InUse(f)
  /\ files' = [files EXCEPT ![f] = i]
  /\ UNCHANGED <<backups, journal, ownerSid, mutex, cloneVars>>

IReplaceWorker(i) == IReplace(i, "worker", "replace worker", "replace helper")
IReplaceHelper(i) == IReplace(i, "helper", "replace helper", "replace manifest")
IReplaceManifest(i) == IReplace(i, "manifest", "replace manifest", "commit")

(* The three files are read back and are those of the build. *)
ICommit(i) ==
  /\ files = Whole(i)
  /\ Goto(i, "commit", "audit")
  /\ journal' = [journal EXCEPT !.phase = "committed"]
  /\ UNCHANGED <<files, backups, ownerSid, mutex, cloneVars>>

IAudit(i) ==
  /\ Goto(i, "audit", "tidy worker")
  /\ UNCHANGED <<fileVars, ownerSid, mutex, cloneVars>>

(* Any step of the installation fails; a file may be in use. *)
IInstallFails(i) ==
  /\ installer[i].mode = "installing"
  /\ \E at \in {"replace worker", "replace helper", "replace manifest", "commit", "audit",
                "tidy worker", "tidy helper", "tidy manifest", "forget"} : At(i, at)
  /\ installer' = [installer EXCEPT ![i].pc = "recover", ![i].mode = "undoing"]
  /\ UNCHANGED <<fileVars, ownerSid, mutex, cloneVars>>

------------------------------------------------------------------------------
(* The start of the worker, for an installer that was given a job. *)

INoLaunch(i) ==
  /\ \E how \in {"installed", "failed"} : Leave(i, "launch", how)
  /\ UNCHANGED <<fileVars, ownerSid, cloneVars>>

ILaunch(i, w) ==
  /\ At(i, "launch") /\ worker[w] = "unused"
  /\ installer' = [installer EXCEPT ![i].pc = "waiting", ![i].child = w]
  /\ worker' = [worker EXCEPT ![w] = "spawned"]
  /\ UNCHANGED <<fileVars, ownerSid, mutex, active, blocking>>

IAcknowledged(i) ==
  /\ active = installer[i].child
  /\ Leave(i, "waiting", "started")
  /\ UNCHANGED <<fileVars, ownerSid, cloneVars>>

IChildEnded(i) ==
  /\ At(i, "waiting") /\ ~WorkerLive(installer[i].child)
  /\ Leave(i, "waiting", "failed")
  /\ UNCHANGED <<fileVars, ownerSid, cloneVars>>

(* Mutant of IDeadline: no deadline, but the end of the worker. *)
IDeadlineAfterWorker(i) ==
  /\ Goto(i, "waiting", "killing")
  /\ ~WorkerLive(installer[i].child)
  /\ UNCHANGED <<fileVars, ownerSid, mutex, cloneVars>>

(* 30 seconds without a record: the worker is ended ... *)
IDeadline(i) ==
  /\ active # installer[i].child
  /\ Goto(i, "waiting", "killing")
  /\ UNCHANGED <<fileVars, ownerSid, mutex, cloneVars>>

IKill(i) ==
  /\ Goto(i, "killing", "judging")
  /\ worker' = IF WorkerLive(installer[i].child)
               THEN [worker EXCEPT ![installer[i].child] = "killed"] ELSE worker
  /\ UNCHANGED <<fileVars, ownerSid, mutex, active, blocking>>

IKillFails(i) ==
  /\ Leave(i, "killing", "failed")
  /\ UNCHANGED <<fileVars, ownerSid, cloneVars>>

(* ... and the record is read once more. *)
IJudge(i) ==
  /\ Leave(i, "judging", IF active = installer[i].child THEN "started" ELSE "failed")
  /\ UNCHANGED <<fileVars, ownerSid, cloneVars>>

(* The installer is ended from outside; nothing it did is undone. *)
ICrash(i) ==
  /\ \E at \in Working : Leave(i, at, "crashed")
  /\ UNCHANGED <<fileVars, ownerSid, cloneVars>>

InstallerStep(i) ==
  \/ IReadOwner(i) \/ IOwnerDiffers(i) \/ ICreateOwner(i) \/ IBindOwner(i)
  \/ ICheckActive(i) \/ IRefuse(i)
  \/ INothingPending(i) \/ IKeepCommitted(i) \/ IRollBack(i)
  \/ IRestoreWorker(i) \/ IRestoreHelper(i) \/ IRestoreManifest(i)
  \/ ITidyWorker(i) \/ ITidyHelper(i) \/ ITidyManifest(i) \/ IForget(i) \/ IRecoveryFails(i)
  \/ IPrepare(i) \/ IJournal(i)
  \/ IReplaceWorker(i) \/ IReplaceHelper(i) \/ IReplaceManifest(i)
  \/ ICommit(i) \/ IAudit(i) \/ IInstallFails(i)
  \/ INoLaunch(i) \/ (\E w \in Workers : ILaunch(i, w)) \/ IAcknowledged(i) \/ IChildEnded(i)
  \/ IDeadline(i) \/ IKill(i) \/ IKillFails(i) \/ IJudge(i)

------------------------------------------------------------------------------
(* The worker process, as far as it looks at the runtime. *)

WMove(w, from, to) == worker[w] = from /\ worker' = [worker EXCEPT ![w] = to]

elsewhere == <<fileVars, ownerSid, mutex, installer>>

(* The app starts a worker from the installed file.  (The check it makes
   before is the one the worker makes itself.) *)
WSpawn(w) ==
  /\ files["worker"] # Nothing
  /\ WMove(w, "unused", "spawned")
  /\ UNCHANGED <<elsewhere, active, blocking>>

(* verify_clone_runtime_security first finds no journal of an installation ... *)
WLookForJournal(w) ==
  /\ WMove(w, "spawned", IF Pending THEN "ended" ELSE "unpending")
  /\ UNCHANGED <<elsewhere, active, blocking>>

(* ... and then compares the owner, and the files with their manifest. *)
WVerify(w) ==
  /\ WMove(w, "unpending",
           IF ownerSid = "bound" /\ files["manifest"] # Nothing /\ files = Whole(files["manifest"])
           THEN "trusted" ELSE "ended")
  /\ UNCHANGED <<elsewhere, active, blocking>>

(* The worker of a new clone, or of a recovery whose predecessor is gone. *)
WClaim(w) ==
  /\ \/ ~blocking
     \/ active \in Workers /\ ~WorkerLive(active)
  /\ WMove(w, "trusted", "active")
  /\ active' = w /\ blocking' = TRUE
  /\ UNCHANGED elsewhere

WEnd(w) ==
  /\ WMove(w, "active", "ended")
  /\ blocking' \in BOOLEAN
  /\ UNCHANGED <<elsewhere, active>>

WRefuse(w) ==
  /\ WMove(w, "trusted", "ended")
  /\ UNCHANGED <<elsewhere, active, blocking>>

WKilled(w) ==
  /\ WorkerLive(w)
  /\ worker' = [worker EXCEPT ![w] = "killed"]
  /\ UNCHANGED <<elsewhere, active, blocking>>

WorkerStep(w) == WLookForJournal(w) \/ WVerify(w) \/ WClaim(w) \/ WEnd(w) \/ WRefuse(w)

Next ==
  \/ \E i \in Installers : IEnter(i) \/ InstallerStep(i) \/ ICrash(i)
  \/ \E w \in Workers : WSpawn(w) \/ WorkerStep(w) \/ WKilled(w)

(* An installer that runs goes on: it waits for nothing but its worker's
   record, and for that no longer than 30 seconds. *)
Fairness == \A i \in Installers : WF_vars(InstallerStep(i))

Spec == Init /\ [][Next]_vars
FairSpec == Spec /\ Fairness

------------------------------------------------------------------------------
(* Without a journal the runtime is one build, or there is none. *)
WholeWhenUsable == ~Pending => files = Whole(files["manifest"])

(* An installer that starts a worker, or reports success, has put its own
   build in place and leaves no backup behind. *)
SuccessIsComplete ==
  \A i \in Installers :
    installer[i].pc \in {"launch", "waiting", "killing", "judging"}
      => ~Pending /\ files = Whole(i) /\ backups = NoFiles

(* A runtime that is used is one whole build, and a successful installation has
   installed its own. *)
RuntimeIsWhole == WholeWhenUsable /\ SuccessIsComplete

(* While a worker that trusted the runtime lives, nobody changes the runtime:
   it never meets a helper of another build. *)
TrustedKeepsRuntime ==
  [][\A w \in Workers : worker[w] \in {"trusted", "active"} => files' = files]_vars

(* The installation implements "one build as a whole": the new one is in place
   from the instant of the committed journal, unless it is rolled back after. *)
Installed == IF Pending /\ ~Committed THEN journal.previous["manifest"] ELSE files["manifest"]
Bundle == INSTANCE RuntimeBundle WITH
  Builds <- Installers, NoBuild <- Nothing, installed <- Installed,
  previous <- IF Pending THEN journal.previous["manifest"] ELSE Installed,
  usable <- ~Pending
BundleKept == Bundle!Spec

(* Every installer ends. *)
InstallerEnds == \A i \in Installers : installer[i].pc \in Working ~> installer[i].pc \notin Working
==============================================================================
