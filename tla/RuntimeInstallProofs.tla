------------------------- MODULE RuntimeInstallProofs -------------------------
(***************************************************************************)
(* Proofs about the installer of the clone runtime, for any installers and *)
(* workers.                                                                *)
(***************************************************************************)
EXTENDS RuntimeInstall, TLAPS

MutexHeld == \A i \in Installers : installer[i].pc \in Working => mutex = i

(* With a journal, what it goes back to is one build; without, that is what is
   installed. *)
JournalSound ==
  IF Pending THEN journal.previous = Whole(journal.previous["manifest"])
             ELSE files = Whole(files["manifest"])

Undecided == {"unused", "owner", "bind", "check", "recover",
              "restore worker", "restore helper", "restore manifest"}
Replacing == {"replace worker", "replace helper", "replace manifest", "commit"}
Tidying == {"tidy worker", "tidy helper", "tidy manifest", "forget"}
Starting == {"launch", "waiting", "killing", "judging"}
Mixing == {"replace helper", "replace manifest", "restore helper", "restore manifest"}

(* What an installer has achieved so far, by where it stands. *)
Stage(i) ==
  LET pc == installer[i].pc
      mode == installer[i].mode
  IN /\ pc \in Undecided => mode # "installing"
     /\ pc \in {"prepare", "journal"} => ~Pending
     /\ pc \in Replacing => journal.phase = "prepared" /\ journal.next = i /\ mode = "installing"
     /\ pc = "audit" => Committed /\ journal.next = i /\ mode = "installing"
     /\ pc \in Tidying => /\ Pending
                          /\ Committed \/ files = journal.previous
                          /\ mode = "installing" => Committed /\ journal.next = i
     /\ pc \in {"restore worker", "restore helper", "restore manifest"} => Pending
     /\ pc \in {"restore helper", "restore manifest"} => files["worker"] = journal.previous["worker"]
     /\ pc = "restore manifest" => files["helper"] = journal.previous["helper"]
     /\ pc \in {"tidy helper", "tidy manifest", "forget"} => backups["worker"] = Nothing
     /\ pc \in {"tidy manifest", "forget"} => backups["helper"] = Nothing
     /\ pc = "forget" => backups["manifest"] = Nothing
     /\ pc \in Starting => ~Pending /\ files = Whole(i) /\ backups = NoFiles
     /\ pc \in Mixing => \A w \in Workers : worker[w] \notin {"unpending", "trusted", "active"}

InstallInv ==
  /\ TypeOK
  /\ MutexHeld
  /\ JournalSound
  /\ \A i \in Installers : Stage(i)

LEMMA InitInv == Init => InstallInv
<1> SUFFICES ASSUME Init PROVE InstallInv
  OBVIOUS
<1> USE NothingAssumption DEF Init, NoFiles, Whole, NoJournal
<1>1. TypeOK
  BY DEF TypeOK, Contents, Journals, InstallerStates, WorkerStates
<1>2. MutexHeld
  BY DEF MutexHeld, Working
<1>3. JournalSound
  BY DEF JournalSound, Pending, Files
<1>4. ASSUME NEW i \in Installers PROVE Stage(i)
  BY DEF Stage, Undecided, Replacing, Tidying, Starting, Mixing
<1> QED BY <1>1, <1>2, <1>3, <1>4 DEF InstallInv

------------------------------------------------------------------------------
(* What a step of installer i leaves to the others: they do not run. *)
OnlyMoves(i) == \A j \in Installers \ {i} : installer'[j] = installer[j]

LEMMA GotoMoves ==
  ASSUME InstallInv, NEW i \in Installers, NEW from, NEW to, Goto(i, from, to),
         to \in {"unused"} \cup Working \cup Outcomes
  PROVE  /\ installer' \in [Installers -> InstallerStates]
         /\ OnlyMoves(i)
         /\ installer[i].pc = from /\ installer'[i].pc = to
         /\ installer'[i].mode = installer[i].mode /\ installer'[i].child = installer[i].child
<1>1. installer \in [Installers -> InstallerStates]
  BY DEF InstallInv, TypeOK
<1>2. installer' = [installer EXCEPT ![i].pc = to] /\ installer[i].pc = from
  BY DEF Goto, At
<1>3. installer[i] \in InstallerStates
  BY <1>1
<1>4. installer'[i] = [installer[i] EXCEPT !.pc = to]
  BY <1>1, <1>2
<1>5. /\ installer'[i].pc = to /\ installer'[i].mode = installer[i].mode
      /\ installer'[i].child = installer[i].child /\ installer'[i] \in InstallerStates
  BY <1>3, <1>4 DEF InstallerStates
<1>6. OnlyMoves(i)
  BY <1>1, <1>2 DEF OnlyMoves
<1>7. installer' \in [Installers -> InstallerStates]
  BY <1>1, <1>2, <1>5
<1> QED BY <1>2, <1>5, <1>6, <1>7

(* So the invariant is kept when it is kept for installer i. *)
LEMMA OthersRest ==
  ASSUME InstallInv, NEW i \in Installers, OnlyMoves(i), TypeOK', JournalSound', Stage(i)',
         installer[i].pc \in Working \/ mutex = Nothing,
         installer'[i].pc \in Working => mutex' = i
  PROVE  InstallInv'
<1>1. ASSUME NEW j \in Installers, j # i PROVE installer[j].pc \notin Working
  BY <1>1, NothingAssumption DEF InstallInv, MutexHeld
<1>2. ASSUME NEW j \in Installers, j # i
      PROVE installer'[j].pc \notin Working /\ installer'[j] = installer[j]
  BY <1>1, <1>2 DEF OnlyMoves
<1>3. MutexHeld'
  BY <1>2 DEF MutexHeld
<1>4. ASSUME NEW j \in Installers, j # i PROVE Stage(j)'
  BY <1>2, <1>4 DEF InstallInv, Stage, Working, Undecided, Replacing, Tidying, Starting, Mixing
<1> QED BY <1>3, <1>4 DEF InstallInv

(* An installer that leaves keeps all promises. *)
LEMMA LeaveKeeps ==
  ASSUME InstallInv, NEW i \in Installers, NEW from \in Working, NEW how \in Outcomes,
         Leave(i, from, how), UNCHANGED <<fileVars, ownerSid, cloneVars>>
  PROVE  InstallInv'
<1>1. Goto(i, from, how) /\ mutex' = Nothing
  BY DEF Leave
<1>2. /\ installer' \in [Installers -> InstallerStates] /\ OnlyMoves(i)
      /\ installer[i].pc = from /\ installer'[i].pc = how
  BY <1>1, GotoMoves
<1>3. TypeOK'
  BY <1>1, <1>2 DEF InstallInv, TypeOK, fileVars, cloneVars
<1>4. JournalSound'
  BY DEF InstallInv, JournalSound, Pending, fileVars
<1>5. Stage(i)' /\ installer'[i].pc \notin Working
  BY <1>2 DEF Stage, Outcomes, Working, Undecided, Replacing, Tidying, Starting, Mixing
<1> QED BY <1>2, <1>3, <1>4, <1>5, OthersRest

LEMMA EnterKeeps == ASSUME InstallInv, NEW i \in Installers, IEnter(i) PROVE InstallInv'
<1>1. /\ UNCHANGED <<files, backups, journal, ownerSid, worker, active, blocking>>
  BY DEF IEnter, fileVars, cloneVars
<1>2. JournalSound'
  BY <1>1 DEF InstallInv, JournalSound, Pending
<1>3. CASE mutex = Nothing
  <2>1. Goto(i, "unused", "owner") /\ mutex' = i
    BY <1>3 DEF IEnter
  <2>2. /\ installer' \in [Installers -> InstallerStates] /\ OnlyMoves(i)
        /\ installer[i].pc = "unused" /\ installer'[i].pc = "owner"
        /\ installer'[i].mode = installer[i].mode
    BY <2>1, GotoMoves DEF Working
  <2>3. TypeOK'
    BY <1>1, <2>1, <2>2 DEF InstallInv, TypeOK
  <2>4. Stage(i)'
    BY <2>2 DEF InstallInv, Stage, Undecided, Replacing, Tidying, Starting, Mixing
  <2> QED BY <1>2, <1>3, <2>1, <2>2, <2>3, <2>4, OthersRest
<1>4. CASE mutex # Nothing
  <2>1. Goto(i, "unused", "failed") /\ mutex' = mutex
    BY <1>4 DEF IEnter
  <2>2. /\ installer' \in [Installers -> InstallerStates] /\ OnlyMoves(i)
        /\ installer'[i].pc = "failed"
    BY <2>1, GotoMoves DEF Outcomes
  <2>3. TypeOK'
    BY <1>1, <2>1, <2>2 DEF InstallInv, TypeOK
  <2>4. ASSUME NEW j \in Installers, j # i PROVE Stage(j)'
    BY <1>1, <2>2, <2>4 DEF InstallInv, OnlyMoves, Stage, Pending, Committed
  <2>5. Stage(i)'
    BY <2>2 DEF Stage, Undecided, Replacing, Tidying, Starting, Mixing
  <2>6. MutexHeld'
    BY <2>1, <2>2 DEF InstallInv, MutexHeld, OnlyMoves, Working
  <2> QED BY <1>2, <2>3, <2>4, <2>5, <2>6 DEF InstallInv
<1> QED BY <1>3, <1>4

(* An installer that goes on without a change to files or workers: what is left
   to show is that it has achieved what its next place says. *)
LEMMA ProgressKeeps ==
  ASSUME InstallInv, NEW i \in Installers, NEW from \in Working, NEW to \in Working,
         Goto(i, from, to), UNCHANGED <<fileVars, mutex, cloneVars>>,
         ownerSid' \in {"absent", "unbound", "bound"}, Stage(i)'
  PROVE  InstallInv'
<1>1. /\ installer' \in [Installers -> InstallerStates] /\ OnlyMoves(i)
      /\ installer[i].pc = from /\ installer'[i].pc = to
  BY GotoMoves
<1>2. TypeOK'
  BY <1>1 DEF InstallInv, TypeOK, fileVars, cloneVars
<1>3. JournalSound'
  BY DEF InstallInv, JournalSound, Pending, fileVars
<1>4. mutex' = i
  BY <1>1 DEF InstallInv, MutexHeld
<1> QED BY <1>1, <1>2, <1>3, <1>4, OthersRest

(* Where it stands among the steps before the journal, and where it decides
   what to do with one. *)
Deciding(i) ==
  \/ IReadOwner(i) \/ ICreateOwner(i) \/ IBindOwner(i) \/ ICheckActive(i)
  \/ IKeepCommitted(i) \/ IRollBack(i) \/ IAudit(i) \/ IDeadline(i)

LEMMA DecidingKeeps == ASSUME InstallInv, NEW i \in Installers, Deciding(i) PROVE InstallInv'
<1> USE DEF Stage, Undecided, Replacing, Tidying, Starting, Mixing
<1>a. ownerSid \in {"absent", "unbound", "bound"} /\ Stage(i)
  BY DEF InstallInv, TypeOK
<1>b. ASSUME NEW from \in Working, NEW to \in Working, Goto(i, from, to)
      PROVE  /\ installer[i].pc = from /\ installer'[i].pc = to
             /\ installer'[i].mode = installer[i].mode
  <2> HIDE DEF Stage
  <2> QED BY <1>b, GotoMoves
<1>1. CASE IReadOwner(i)
  <2>1. Goto(i, "owner", "check")
    BY <1>1 DEF IReadOwner
  <2>2. Stage(i)'
    BY <2>1, <1>a, <1>b DEF Working
  <2> QED BY <1>1, <2>1, <2>2, <1>a, ProgressKeeps DEF IReadOwner, Working
<1>2. CASE ICreateOwner(i)
  <2>1. Goto(i, "owner", "bind")
    BY <1>2 DEF ICreateOwner
  <2>2. Stage(i)'
    BY <2>1, <1>a, <1>b DEF Working
  <2> QED BY <1>2, <2>1, <2>2, ProgressKeeps DEF ICreateOwner, Working
<1>3. CASE IBindOwner(i)
  <2>1. Goto(i, "bind", "check")
    BY <1>3 DEF IBindOwner
  <2>2. Stage(i)'
    BY <2>1, <1>a, <1>b DEF Working
  <2> QED BY <1>3, <2>1, <2>2, ProgressKeeps DEF IBindOwner, Working
<1>4. CASE ICheckActive(i)
  <2>1. Goto(i, "check", "recover")
    BY <1>4 DEF ICheckActive
  <2>2. Stage(i)'
    BY <2>1, <1>a, <1>b DEF Working
  <2> QED BY <1>4, <2>1, <2>2, <1>a, ProgressKeeps DEF ICheckActive, Working
<1>5. CASE IKeepCommitted(i)
  <2>1. Goto(i, "recover", "tidy worker") /\ Pending /\ Committed /\ UNCHANGED fileVars
    BY <1>5 DEF IKeepCommitted
  <2>2. Stage(i)'
    BY <2>1, <1>a, <1>b DEF Working, Pending, Committed, fileVars
  <2> QED BY <1>5, <2>1, <2>2, <1>a, ProgressKeeps DEF IKeepCommitted, Working
<1>6. CASE IRollBack(i)
  <2>1. Goto(i, "recover", "restore worker") /\ Pending /\ UNCHANGED fileVars
    BY <1>6 DEF IRollBack
  <2>2. Stage(i)'
    BY <2>1, <1>a, <1>b DEF Working, Pending, fileVars
  <2> QED BY <1>6, <2>1, <2>2, <1>a, ProgressKeeps DEF IRollBack, Working
<1>7. CASE IAudit(i)
  <2>1. Goto(i, "audit", "tidy worker") /\ UNCHANGED fileVars
    BY <1>7 DEF IAudit
  <2>2. Stage(i)'
    BY <2>1, <1>a, <1>b DEF Working, Pending, Committed, fileVars
  <2> QED BY <1>7, <2>1, <2>2, <1>a, ProgressKeeps DEF IAudit, Working
<1>8. CASE IDeadline(i)
  <2>1. Goto(i, "waiting", "killing") /\ UNCHANGED fileVars
    BY <1>8 DEF IDeadline
  <2>2. Stage(i)'
    BY <2>1, <1>a, <1>b DEF Working, Pending, fileVars
  <2> QED BY <1>8, <2>1, <2>2, <1>a, ProgressKeeps DEF IDeadline, Working
<1> QED BY <1>1, <1>2, <1>3, <1>4, <1>5, <1>6, <1>7, <1>8 DEF Deciding

(* The ends of an installer. *)
Leaving(i) ==
  \/ IOwnerDiffers(i) \/ IRefuse(i) \/ IRecoveryFails(i) \/ INoLaunch(i) \/ IAcknowledged(i)
  \/ IChildEnded(i) \/ IKillFails(i) \/ IJudge(i) \/ ICrash(i)

LEMMA LeavingKeeps == ASSUME InstallInv, NEW i \in Installers, Leaving(i) PROVE InstallInv'
<1>1. \E from \in Working, how \in Outcomes :
        Leave(i, from, how) /\ UNCHANGED <<fileVars, ownerSid, cloneVars>>
  BY DEF Leaving, IOwnerDiffers, IRefuse, IRecoveryFails, INoLaunch, IAcknowledged, IChildEnded,
         IKillFails, IJudge, ICrash, Working, Outcomes
<1> QED BY <1>1, LeaveKeeps

------------------------------------------------------------------------------
(* The end of a recovery, and the launch. *)

LEMMA NothingPendingKeeps ==
  ASSUME InstallInv, NEW i \in Installers, INothingPending(i) PROVE InstallInv'
<1>1. ~Pending /\ UNCHANGED <<fileVars, ownerSid, cloneVars>> /\ Continue(i, "recover")
  BY DEF INothingPending
<1>2. CASE Goto(i, "recover", "prepare") /\ UNCHANGED mutex
  <2>1. installer'[i].pc = "prepare"
    BY <1>2, GotoMoves DEF Working
  <2>2. Stage(i)'
    BY <1>1, <2>1 DEF Stage, Pending, fileVars, Undecided, Replacing, Tidying, Starting, Mixing
  <2> QED BY <1>1, <1>2, <2>2, ProgressKeeps DEF InstallInv, TypeOK, Working
<1>3. CASE Leave(i, "recover", "failed")
  BY <1>1, <1>3, LeaveKeeps DEF Working, Outcomes
<1>4. installer[i].mode # "installing"
  <2>1. installer[i].pc = "recover"
    BY <1>1 DEF Continue, Leave, Goto, At
  <2> QED BY <2>1 DEF InstallInv, Stage, Undecided
<1> QED BY <1>1, <1>2, <1>3, <1>4 DEF Continue

LEMMA InstallFailsKeeps ==
  ASSUME InstallInv, NEW i \in Installers, IInstallFails(i) PROVE InstallInv'
<1>1. /\ installer[i].pc \in Working
      /\ installer' = [installer EXCEPT ![i].pc = "recover", ![i].mode = "undoing"]
      /\ UNCHANGED <<files, backups, journal, ownerSid, mutex, worker, active, blocking>>
  BY DEF IInstallFails, At, Working, fileVars, cloneVars
<1>2. installer \in [Installers -> InstallerStates] /\ installer[i] \in InstallerStates
  BY DEF InstallInv, TypeOK
<1>3. installer'[i] = [installer[i] EXCEPT !.pc = "recover", !.mode = "undoing"]
  BY <1>1, <1>2
<1>4. installer'[i].pc = "recover" /\ installer'[i].mode = "undoing" /\ installer'[i] \in InstallerStates
  BY <1>2, <1>3 DEF InstallerStates, Working
<1>5. installer' \in [Installers -> InstallerStates] /\ OnlyMoves(i)
  BY <1>1, <1>2, <1>4 DEF OnlyMoves
<1>6. TypeOK'
  BY <1>1, <1>5 DEF InstallInv, TypeOK
<1>7. JournalSound'
  BY <1>1 DEF InstallInv, JournalSound, Pending
<1>8. Stage(i)'
  BY <1>4 DEF Stage, Undecided, Replacing, Tidying, Starting, Mixing
<1>9. mutex' = i
  BY <1>1 DEF InstallInv, MutexHeld
<1> QED BY <1>1, <1>5, <1>6, <1>7, <1>8, <1>9, OthersRest

LEMMA LaunchKeeps ==
  ASSUME InstallInv, NEW i \in Installers, NEW w \in Workers, ILaunch(i, w) PROVE InstallInv'
<1>1. /\ installer[i].pc = "launch"
      /\ installer' = [installer EXCEPT ![i].pc = "waiting", ![i].child = w]
      /\ worker' = [worker EXCEPT ![w] = "spawned"]
      /\ UNCHANGED <<files, backups, journal, ownerSid, mutex, active, blocking>>
  BY DEF ILaunch, At, fileVars
<1>2. installer \in [Installers -> InstallerStates] /\ installer[i] \in InstallerStates
  BY DEF InstallInv, TypeOK
<1>3. installer'[i] = [installer[i] EXCEPT !.pc = "waiting", !.child = w]
  BY <1>1, <1>2
<1>4. installer'[i].pc = "waiting" /\ installer'[i].mode = installer[i].mode /\ installer'[i] \in InstallerStates
  BY <1>2, <1>3 DEF InstallerStates, Working
<1>5. installer' \in [Installers -> InstallerStates] /\ OnlyMoves(i)
  BY <1>1, <1>2, <1>4 DEF OnlyMoves
<1>6. TypeOK'
  BY <1>1, <1>5 DEF InstallInv, TypeOK, WorkerStates
<1>7. JournalSound'
  BY <1>1 DEF InstallInv, JournalSound, Pending
<1>8. Stage(i)'
  BY <1>1, <1>4 DEF InstallInv, Stage, Pending, Undecided, Replacing, Tidying, Starting, Mixing
<1>9. mutex' = i /\ installer[i].pc \in Working
  BY <1>1 DEF InstallInv, MutexHeld, Working
<1> QED BY <1>5, <1>6, <1>7, <1>8, <1>9, OthersRest

LEMMA KillKeeps == ASSUME InstallInv, NEW i \in Installers, IKill(i) PROVE InstallInv'
<1>1. /\ Goto(i, "killing", "judging")
      /\ UNCHANGED <<files, backups, journal, ownerSid, mutex, active, blocking>>
      /\ worker' \in [Workers -> WorkerStates]
  BY DEF IKill, fileVars, InstallInv, TypeOK, WorkerStates
<1>2. /\ installer' \in [Installers -> InstallerStates] /\ OnlyMoves(i)
      /\ installer[i].pc = "killing" /\ installer'[i].pc = "judging"
  BY <1>1, GotoMoves DEF Working
<1>3. TypeOK'
  BY <1>1, <1>2 DEF InstallInv, TypeOK
<1>4. JournalSound'
  BY <1>1 DEF InstallInv, JournalSound, Pending
<1>5. Stage(i)'
  BY <1>1, <1>2 DEF InstallInv, Stage, Pending, Undecided, Replacing, Tidying, Starting, Mixing
<1>6. mutex' = i /\ installer[i].pc \in Working
  BY <1>1, <1>2 DEF InstallInv, MutexHeld, Working
<1> QED BY <1>2, <1>3, <1>4, <1>5, <1>6, OthersRest

------------------------------------------------------------------------------
(* The steps that change files, backups or journal. *)

LEMMA FileStepKeeps ==
  ASSUME InstallInv, NEW i \in Installers, NEW from \in Working, NEW to \in Working,
         Goto(i, from, to), UNCHANGED <<ownerSid, mutex, cloneVars>>,
         files' \in Contents, backups' \in Contents, journal' \in Journals,
         JournalSound', Stage(i)'
  PROVE  InstallInv'
<1>1. /\ installer' \in [Installers -> InstallerStates] /\ OnlyMoves(i)
      /\ installer[i].pc = from /\ installer'[i].pc = to
  BY GotoMoves
<1>2. TypeOK'
  BY <1>1 DEF InstallInv, TypeOK, cloneVars
<1>3. mutex' = i
  BY <1>1 DEF InstallInv, MutexHeld
<1> QED BY <1>1, <1>2, <1>3, OthersRest

LEMMA QuietWhenUnused ==
  ASSUME TypeOK, ~InUse("worker")
  PROVE  \A w \in Workers : worker[w] \notin {"unpending", "trusted", "active"}
BY DEF InUse, WorkerLive

(* One file goes back to what it was: the rest stays, and the journal. *)
LEMMA RestoreChanges ==
  ASSUME InstallInv, NEW i \in Installers, NEW f \in Files, NEW from, NEW to, IRestore(i, f, from, to)
  PROVE  /\ files' \in Contents /\ files'[f] = journal.previous[f]
         /\ \A g \in Files \ {f} : files'[g] = files[g]
         /\ UNCHANGED <<backups, journal, ownerSid, mutex, cloneVars>>
         /\ Goto(i, from, to)
<1>1. files \in Contents /\ journal.previous \in Contents
  BY DEF InstallInv, TypeOK, Journals
<1>2. files' = [files EXCEPT ![f] = journal.previous[f]]
  BY DEF IRestore
<1> QED BY <1>1, <1>2 DEF IRestore, Contents

LEMMA RestoringKeeps ==
  ASSUME InstallInv, NEW i \in Installers,
         IRestoreWorker(i) \/ IRestoreHelper(i) \/ IRestoreManifest(i)
  PROVE  InstallInv'
<1> USE DEF Stage, Undecided, Replacing, Tidying, Starting, Mixing
<1>a. TypeOK /\ backups \in Contents /\ journal \in Journals /\ Stage(i) /\ JournalSound
  BY DEF InstallInv, TypeOK
<1>b. journal.previous \in Contents
  BY <1>a DEF Journals
<1>1. CASE IRestoreWorker(i)
  <2> HIDE DEF Stage
  <2>1. /\ files' \in Contents /\ files'["worker"] = journal.previous["worker"]
        /\ UNCHANGED <<backups, journal, ownerSid, mutex, cloneVars>>
        /\ Goto(i, "restore worker", "restore helper")
    BY <1>1, RestoreChanges DEF IRestoreWorker, Files
  <2>2. /\ installer[i].pc = "restore worker" /\ installer'[i].pc = "restore helper"
        /\ installer'[i].mode = installer[i].mode
    BY <2>1, GotoMoves DEF Working
  <2>3. \A w \in Workers : worker[w] \notin {"unpending", "trusted", "active"}
    BY <1>1, <1>a, QuietWhenUnused DEF IRestoreWorker, IRestore
  <2>4. Pending /\ JournalSound'
    BY <1>a, <2>1, <2>2 DEF Stage, JournalSound, Pending
  <2>5. Stage(i)'
    BY <1>a, <2>1, <2>2, <2>3, <2>4 DEF Stage, Pending, cloneVars
  <2> QED BY <1>a, <2>1, <2>4, <2>5, FileStepKeeps DEF Working
<1>2. CASE IRestoreHelper(i)
  <2> HIDE DEF Stage
  <2>1. /\ files' \in Contents /\ files'["helper"] = journal.previous["helper"]
        /\ files'["worker"] = files["worker"]
        /\ UNCHANGED <<backups, journal, ownerSid, mutex, cloneVars>>
        /\ Goto(i, "restore helper", "restore manifest")
    BY <1>2, RestoreChanges DEF IRestoreHelper, Files
  <2>2. /\ installer[i].pc = "restore helper" /\ installer'[i].pc = "restore manifest"
        /\ installer'[i].mode = installer[i].mode
    BY <2>1, GotoMoves DEF Working
  <2>4. Pending /\ JournalSound'
    BY <1>a, <2>1, <2>2 DEF Stage, JournalSound, Pending
  <2>5. Stage(i)'
    BY <1>a, <2>1, <2>2, <2>4 DEF Stage, Pending, cloneVars
  <2> QED BY <1>a, <2>1, <2>4, <2>5, FileStepKeeps DEF Working
<1>3. CASE IRestoreManifest(i)
  <2> HIDE DEF Stage
  <2>1. /\ files' \in Contents /\ files'["manifest"] = journal.previous["manifest"]
        /\ files'["worker"] = files["worker"] /\ files'["helper"] = files["helper"]
        /\ UNCHANGED <<backups, journal, ownerSid, mutex, cloneVars>>
        /\ Goto(i, "restore manifest", "tidy worker")
    BY <1>3, RestoreChanges DEF IRestoreManifest, Files
  <2>2. /\ installer[i].pc = "restore manifest" /\ installer'[i].pc = "tidy worker"
        /\ installer'[i].mode = installer[i].mode
    BY <2>1, GotoMoves DEF Working
  <2>3. files' = journal.previous
    <3>1. files'["worker"] = journal.previous["worker"] /\ files'["helper"] = journal.previous["helper"]
      BY <1>a, <2>1, <2>2 DEF Stage
    <3>2. \A f \in Files : files'[f] = journal.previous[f]
      BY <2>1, <3>1 DEF Files
    <3>3. files' \in [Files -> Installers \cup {Nothing}]
          /\ journal.previous \in [Files -> Installers \cup {Nothing}]
      BY <1>b, <2>1 DEF Contents
    <3> QED BY <3>2, <3>3
  <2>4. Pending /\ JournalSound'
    BY <1>a, <2>1, <2>2 DEF Stage, JournalSound, Pending
  <2>5. Stage(i)'
    BY <1>a, <2>1, <2>2, <2>3, <2>4 DEF Stage, Pending
  <2> QED BY <1>a, <2>1, <2>4, <2>5, FileStepKeeps DEF Working
<1> QED BY <1>1, <1>2, <1>3

LEMMA TidyingKeeps ==
  ASSUME InstallInv, NEW i \in Installers, ITidyWorker(i) \/ ITidyHelper(i) \/ ITidyManifest(i)
  PROVE  InstallInv'
<1>a. /\ files \in Contents /\ backups \in [Files -> Installers \cup {Nothing}]
      /\ journal \in Journals /\ Stage(i) /\ JournalSound
  BY DEF InstallInv, TypeOK, Contents
<1>1. ASSUME NEW f \in Files, NEW from \in Tidying, NEW to \in Tidying, ITidy(i, f, from, to)
      PROVE  /\ installer[i].pc = from /\ installer'[i].pc = to
             /\ installer'[i].mode = installer[i].mode /\ Goto(i, from, to)
             /\ UNCHANGED <<files, journal, ownerSid, mutex, cloneVars>>
             /\ JournalSound' /\ backups' \in Contents
             /\ backups'[f] = Nothing /\ \A g \in Files \ {f} : backups'[g] = backups[g]
  <2>1. /\ Goto(i, from, to) /\ UNCHANGED <<files, journal, ownerSid, mutex, cloneVars>>
        /\ backups' = [backups EXCEPT ![f] = Nothing]
    BY <1>1 DEF ITidy
  <2>2. to \in Working /\ from \in Working
    BY DEF Tidying, Working
  <2>3. /\ installer[i].pc = from /\ installer'[i].pc = to
        /\ installer'[i].mode = installer[i].mode
    BY <2>1, <2>2, GotoMoves
  <2>4. JournalSound'
    BY <1>a, <2>1 DEF JournalSound, Pending
  <2> QED BY <1>a, <2>1, <2>3, <2>4 DEF Contents
<1>2. CASE ITidyWorker(i)
  <2>1. Stage(i)'
    BY <1>a, <1>1, <1>2 DEF ITidyWorker, Files, Stage, Pending, Committed, Undecided, Replacing,
                            Tidying, Starting, Mixing
  <2> QED BY <1>a, <1>1, <1>2, <2>1, FileStepKeeps DEF ITidyWorker, Files, Tidying, Working
<1>3. CASE ITidyHelper(i)
  <2>1. Stage(i)'
    BY <1>a, <1>1, <1>3 DEF ITidyHelper, Files, Stage, Pending, Committed, Undecided, Replacing,
                            Tidying, Starting, Mixing
  <2> QED BY <1>a, <1>1, <1>3, <2>1, FileStepKeeps DEF ITidyHelper, Files, Tidying, Working
<1>4. CASE ITidyManifest(i)
  <2>1. Stage(i)'
    BY <1>a, <1>1, <1>4 DEF ITidyManifest, Files, Stage, Pending, Committed, Undecided, Replacing,
                            Tidying, Starting, Mixing
  <2> QED BY <1>a, <1>1, <1>4, <2>1, FileStepKeeps DEF ITidyManifest, Files, Tidying, Working
<1> QED BY <1>2, <1>3, <1>4

LEMMA ForgetKeeps == ASSUME InstallInv, NEW i \in Installers, IForget(i) PROVE InstallInv'
<1>1. /\ journal' = NoJournal /\ UNCHANGED <<files, backups, ownerSid, cloneVars>>
      /\ Continue(i, "forget")
  BY DEF IForget
<1>2. /\ installer[i].pc = "forget" /\ Stage(i) /\ TypeOK /\ JournalSound
  BY <1>1 DEF Continue, Leave, Goto, At, InstallInv
<1>3. journal' \in Journals /\ ~Pending'
  BY <1>1 DEF NoJournal, NoFiles, Whole, Journals, Contents, Pending
<1>4. JournalSound'
  <2>1. Pending /\ (Committed \/ files = journal.previous)
    BY <1>2 DEF Stage, Tidying
  <2>2. files = Whole(files["manifest"])
    BY <1>2, <2>1 DEF JournalSound, Committed, Whole, Files
  <2> QED BY <1>1, <1>3, <2>2 DEF JournalSound, Whole
<1>5. CASE Goto(i, "forget", "prepare") /\ UNCHANGED mutex
  <2>1. installer'[i].pc = "prepare"
    BY <1>5, GotoMoves DEF Working
  <2>2. Stage(i)'
    BY <1>3, <2>1 DEF Stage, Undecided, Replacing, Tidying, Starting, Mixing
  <2> QED BY <1>1, <1>2, <1>3, <1>4, <1>5, <2>2, FileStepKeeps DEF TypeOK, Working
<1>6. CASE /\ installer[i].mode = "installing" /\ UNCHANGED mutex
           /\ Goto(i, "forget", "launch")
  <2>1. installer'[i].pc = "launch"
    BY <1>6, GotoMoves DEF Working
  <2>2. files = Whole(i)
    BY <1>2, <1>6 DEF Stage, Tidying, Committed
  <2>3. backups = NoFiles
    <3>1. /\ backups["worker"] = Nothing /\ backups["helper"] = Nothing
          /\ backups["manifest"] = Nothing
      BY <1>2 DEF Stage
    <3>2. \A f \in Files : backups[f] = Nothing
      BY <3>1 DEF Files
    <3> QED BY <1>2, <3>2 DEF TypeOK, Contents, NoFiles, Whole
  <2>4. Stage(i)'
    BY <1>1, <1>3, <2>1, <2>2, <2>3 DEF Stage, Whole, NoFiles, Undecided, Replacing, Tidying, Starting, Mixing
  <2> QED BY <1>1, <1>2, <1>3, <1>4, <1>6, <2>4, FileStepKeeps DEF TypeOK, Working
<1>7. CASE Leave(i, "forget", "failed")
  <2>1. Goto(i, "forget", "failed") /\ mutex' = Nothing
    BY <1>7 DEF Leave
  <2>2. /\ installer' \in [Installers -> InstallerStates] /\ OnlyMoves(i)
        /\ installer'[i].pc = "failed"
    BY <2>1, GotoMoves DEF Outcomes
  <2>3. TypeOK'
    BY <1>1, <1>2, <1>3, <2>1, <2>2 DEF TypeOK, cloneVars
  <2>4. Stage(i)' /\ installer'[i].pc \notin Working
    BY <2>2 DEF Stage, Working, Undecided, Replacing, Tidying, Starting, Mixing
  <2>5. installer[i].pc \in Working
    BY <1>2 DEF Working
  <2> QED BY <1>4, <2>2, <2>3, <2>4, <2>5, OthersRest
<1> QED BY <1>1, <1>5, <1>6, <1>7 DEF Continue

LEMMA PrepareKeeps == ASSUME InstallInv, NEW i \in Installers, IPrepare(i) PROVE InstallInv'
<1>1. /\ Goto(i, "prepare", "journal") /\ backups' = files
      /\ UNCHANGED <<files, journal, ownerSid, mutex, cloneVars>>
  BY DEF IPrepare
<1>2. installer[i].pc = "prepare" /\ installer'[i].pc = "journal"
  BY <1>1, GotoMoves DEF Working
<1>3. files \in Contents /\ journal \in Journals /\ Stage(i) /\ JournalSound
  BY DEF InstallInv, TypeOK
<1>4. Stage(i)'
  BY <1>1, <1>2, <1>3 DEF Stage, Pending, Undecided, Replacing, Tidying, Starting, Mixing
<1>5. JournalSound'
  BY <1>1, <1>3 DEF JournalSound, Pending
<1> QED BY <1>1, <1>3, <1>4, <1>5, FileStepKeeps DEF Working

LEMMA JournalKeeps == ASSUME InstallInv, NEW i \in Installers, IJournal(i) PROVE InstallInv'
<1>1. /\ journal' = [phase |-> "prepared", previous |-> files, next |-> i]
      /\ UNCHANGED <<files, backups, ownerSid, worker, active, blocking>>
  BY DEF IJournal, cloneVars
<1>2. installer[i].pc = "journal" /\ Stage(i) /\ TypeOK /\ JournalSound /\ MutexHeld
  BY DEF IJournal, Leave, Goto, At, InstallInv
<1>3. journal' \in Journals /\ Pending'
  BY <1>1, <1>2 DEF TypeOK, Journals, Pending
<1>4. files = Whole(files["manifest"])
  BY <1>2 DEF Stage, JournalSound
<1>5. JournalSound'
  BY <1>1, <1>3, <1>4 DEF JournalSound, Whole
<1>6. CASE /\ installer' = [installer EXCEPT ![i].pc = "replace worker", ![i].mode = "installing"]
           /\ mutex' = mutex
  <2>1. installer \in [Installers -> InstallerStates] /\ installer[i] \in InstallerStates
    BY <1>2 DEF TypeOK
  <2>2. installer'[i] = [installer[i] EXCEPT !.pc = "replace worker", !.mode = "installing"]
    BY <1>6, <2>1
  <2>3. /\ installer'[i].pc = "replace worker" /\ installer'[i].mode = "installing"
        /\ installer'[i] \in InstallerStates
    BY <2>1, <2>2 DEF InstallerStates, Working
  <2>4. installer' \in [Installers -> InstallerStates] /\ OnlyMoves(i)
    BY <1>6, <2>1, <2>3 DEF OnlyMoves
  <2>5. TypeOK'
    BY <1>1, <1>2, <1>3, <1>6, <2>4 DEF TypeOK
  <2>6. Stage(i)'
    BY <1>1, <2>3 DEF Stage, Undecided, Replacing, Tidying, Starting, Mixing
  <2>7. mutex' = i /\ installer[i].pc \in Working
    BY <1>2, <1>6 DEF MutexHeld, Working
  <2> QED BY <1>5, <2>4, <2>5, <2>6, <2>7, OthersRest
<1>7. CASE Leave(i, "journal", "failed")
  <2>1. Goto(i, "journal", "failed") /\ mutex' = Nothing
    BY <1>7 DEF Leave
  <2>2. /\ installer' \in [Installers -> InstallerStates] /\ OnlyMoves(i)
        /\ installer'[i].pc = "failed"
    BY <2>1, GotoMoves DEF Outcomes
  <2>3. TypeOK'
    BY <1>1, <1>2, <1>3, <2>1, <2>2 DEF TypeOK
  <2>4. Stage(i)' /\ installer'[i].pc \notin Working
    BY <2>2 DEF Stage, Working, Undecided, Replacing, Tidying, Starting, Mixing
  <2>5. installer[i].pc \in Working
    BY <1>2 DEF Working
  <2> QED BY <1>5, <2>2, <2>3, <2>4, <2>5, OthersRest
<1> QED BY <1>6, <1>7 DEF IJournal

LEMMA ReplacingKeeps ==
  ASSUME InstallInv, NEW i \in Installers,
         IReplaceWorker(i) \/ IReplaceHelper(i) \/ IReplaceManifest(i)
  PROVE  InstallInv'
<1>a. /\ TypeOK /\ files \in Contents /\ backups \in Contents
      /\ journal \in Journals /\ Stage(i) /\ JournalSound
  BY DEF InstallInv, TypeOK
<1>1. ASSUME NEW f \in Files, NEW from \in Replacing, NEW to \in Replacing, IReplace(i, f, from, to)
      PROVE  /\ installer[i].pc = from /\ installer'[i].pc = to
             /\ installer'[i].mode = installer[i].mode /\ Goto(i, from, to)
             /\ UNCHANGED <<backups, journal, ownerSid, mutex, cloneVars>>
             /\ JournalSound' /\ files' \in Contents
  <2>1. /\ Goto(i, from, to) /\ UNCHANGED <<backups, journal, ownerSid, mutex, cloneVars>>
        /\ files' = [files EXCEPT ![f] = i]
    BY <1>1 DEF IReplace
  <2>2. to \in Working /\ from \in Working
    BY DEF Replacing, Working
  <2>3. /\ installer[i].pc = from /\ installer'[i].pc = to
        /\ installer'[i].mode = installer[i].mode
    BY <2>1, <2>2, GotoMoves
  <2>4. Pending
    BY <1>a, <2>3 DEF Stage, Pending
  <2>5. JournalSound'
    BY <1>a, <2>1, <2>4 DEF JournalSound, Pending
  <2> QED BY <1>a, <2>1, <2>3, <2>5 DEF Contents
<1>2. CASE IReplaceWorker(i)
  <2>1. IReplace(i, "worker", "replace worker", "replace helper")
    BY <1>2 DEF IReplaceWorker
  <2>2. \A w \in Workers : worker[w] \notin {"unpending", "trusted", "active"}
    BY <1>a, <2>1, QuietWhenUnused DEF IReplace
  <2>3. Stage(i)'
    BY <1>a, <1>1, <2>1, <2>2 DEF Files, Stage, Undecided, Replacing, Tidying, Starting, Mixing, cloneVars
  <2> QED BY <1>a, <1>1, <2>1, <2>3, FileStepKeeps DEF Files, Replacing, Working
<1>3. CASE IReplaceHelper(i)
  <2>1. IReplace(i, "helper", "replace helper", "replace manifest")
    BY <1>3 DEF IReplaceHelper
  <2>2. Stage(i)'
    BY <1>a, <1>1, <2>1 DEF Files, Stage, Undecided, Replacing, Tidying, Starting, Mixing, cloneVars
  <2> QED BY <1>a, <1>1, <2>1, <2>2, FileStepKeeps DEF Files, Replacing, Working
<1>4. CASE IReplaceManifest(i)
  <2>1. IReplace(i, "manifest", "replace manifest", "commit")
    BY <1>4 DEF IReplaceManifest
  <2>2. Stage(i)'
    BY <1>a, <1>1, <2>1 DEF Files, Stage, Undecided, Replacing, Tidying, Starting, Mixing
  <2> QED BY <1>a, <1>1, <2>1, <2>2, FileStepKeeps DEF Files, Replacing, Working
<1> QED BY <1>2, <1>3, <1>4

LEMMA CommitChanges ==
  ASSUME InstallInv, NEW i \in Installers, ICommit(i)
  PROVE  /\ journal.phase = "prepared" /\ journal.next = i /\ installer[i].mode = "installing"
         /\ journal' \in Journals /\ journal'.phase = "committed"
         /\ journal'.next = i /\ journal'.previous = journal.previous
         /\ files = Whole(i) /\ files' = files
<1>1. installer[i].pc = "commit" /\ files = Whole(i) /\ files' = files
      /\ journal' = [journal EXCEPT !.phase = "committed"]
  BY DEF ICommit, Goto, At
<1>2. journal \in Journals /\ Stage(i)
  BY DEF InstallInv, TypeOK
<1>3. journal.phase = "prepared" /\ journal.next = i /\ installer[i].mode = "installing"
  BY <1>1, <1>2 DEF Stage, Replacing
<1> QED BY <1>1, <1>2, <1>3 DEF Journals

LEMMA CommitKeeps == ASSUME InstallInv, NEW i \in Installers, ICommit(i) PROVE InstallInv'
<1>1. Goto(i, "commit", "audit") /\ UNCHANGED <<files, backups, ownerSid, mutex, cloneVars>>
  BY DEF ICommit
<1>2. installer'[i].pc = "audit" /\ installer'[i].mode = installer[i].mode
  BY <1>1, GotoMoves DEF Working
<1>3. JournalSound /\ files \in Contents /\ backups \in Contents
  BY DEF InstallInv, TypeOK
<1>4. Committed'
  BY <1>1, CommitChanges DEF Committed, Whole
<1>5. JournalSound'
  BY <1>3, CommitChanges DEF JournalSound, Pending
<1>6. Stage(i)'
  BY <1>2, <1>4, CommitChanges DEF Stage, Undecided, Replacing, Tidying, Starting, Mixing
<1> QED BY <1>1, <1>3, <1>5, <1>6, CommitChanges, FileStepKeeps DEF Working

------------------------------------------------------------------------------
(* Workers leave installers and files alone; what they look at is the journal. *)

LEMMA WorkerKeeps ==
  ASSUME InstallInv, NEW w \in Workers, WSpawn(w) \/ WorkerStep(w) \/ WKilled(w)
  PROVE  InstallInv' /\ UNCHANGED <<fileVars, ownerSid, mutex, installer>>
<1>1. UNCHANGED <<files, backups, journal, ownerSid, mutex, installer>>
  BY DEF WSpawn, WorkerStep, WLookForJournal, WVerify, WClaim, WEnd, WRefuse, WKilled, elsewhere, fileVars
<1>2. /\ worker' \in [Workers -> WorkerStates]
      /\ active' \in Workers \cup {Nothing} /\ blocking' \in BOOLEAN
  BY DEF InstallInv, TypeOK, WorkerStates, WSpawn, WorkerStep, WLookForJournal, WVerify, WClaim, WEnd,
         WRefuse, WKilled, WMove
<1>3. TypeOK'
  BY <1>1, <1>2 DEF InstallInv, TypeOK
<1>4. MutexHeld' /\ JournalSound'
  BY <1>1 DEF InstallInv, MutexHeld, JournalSound, Pending
<1>5. \A v \in Workers :
        Pending /\ worker[v] \notin {"unpending", "trusted", "active"}
          => worker'[v] \notin {"unpending", "trusted", "active"}
  BY DEF InstallInv, TypeOK, WorkerStates, WSpawn, WorkerStep, WLookForJournal, WVerify, WClaim, WEnd,
         WRefuse, WKilled, WMove
<1>6. ASSUME NEW i \in Installers PROVE Stage(i)'
  <2>1. Stage(i)
    BY DEF InstallInv
  <2>2. installer[i].pc \in Mixing => Pending
    BY <2>1 DEF Stage, Mixing, Replacing, Pending
  <2> QED BY <1>1, <1>5, <2>1, <2>2 DEF Stage, Pending, Committed
<1> QED BY <1>1, <1>3, <1>4, <1>6 DEF InstallInv, fileVars

LEMMA StutterKeeps == ASSUME InstallInv, UNCHANGED vars PROVE InstallInv'
BY DEF InstallInv, vars, fileVars, cloneVars, TypeOK, MutexHeld, JournalSound, Stage, Pending, Committed

LEMMA InstallerStepKeeps ==
  ASSUME InstallInv, NEW i \in Installers, InstallerStep(i) PROVE InstallInv'
BY DecidingKeeps, LeavingKeeps, NothingPendingKeeps, InstallFailsKeeps, LaunchKeeps, KillKeeps,
   RestoringKeeps, TidyingKeeps, ForgetKeeps, PrepareKeeps, JournalKeeps, ReplacingKeeps, CommitKeeps
   DEF InstallerStep, Deciding, Leaving

LEMMA NextKeeps == ASSUME InstallInv, [Next]_vars PROVE InstallInv'
<1>1. CASE \E i \in Installers : IEnter(i) \/ InstallerStep(i) \/ ICrash(i)
  BY <1>1, EnterKeeps, InstallerStepKeeps, LeavingKeeps DEF Leaving
<1>2. CASE \E w \in Workers : WSpawn(w) \/ WorkerStep(w) \/ WKilled(w)
  BY <1>2, WorkerKeeps
<1>3. CASE UNCHANGED vars
  BY <1>3, StutterKeeps
<1> QED BY <1>1, <1>2, <1>3 DEF Next

LEMMA InvariantHolds == Spec => []InstallInv
<1>1. Init => InstallInv
  BY InitInv
<1>2. InstallInv /\ [Next]_vars => InstallInv'
  BY NextKeeps
<1> QED BY <1>1, <1>2, PTL DEF Spec

(* Files, journal, mutex, installers and workers keep their types. *)
THEOREM InstallerTypeCorrect == Spec => []TypeOK
<1>1. InstallInv => TypeOK
  BY DEF InstallInv
<1> QED BY <1>1, InvariantHolds, PTL

(* Whatever was interrupted, and however often: without a journal worker,
   helper and manifest are of one build.  (A worker refuses to run with one.) *)
THEOREM UsableIsWhole == Spec => []WholeWhenUsable
<1>1. InstallInv => WholeWhenUsable
  BY DEF InstallInv, JournalSound, WholeWhenUsable
<1> QED BY <1>1, InvariantHolds, PTL

(* An installer that starts a worker or is about to report success has put its
   own build in place and removed the backups. *)
THEOREM SuccessComplete == Spec => []SuccessIsComplete
<1>1. InstallInv => SuccessIsComplete
  BY DEF InstallInv, Stage, Starting, SuccessIsComplete
<1> QED BY <1>1, InvariantHolds, PTL

------------------------------------------------------------------------------
(* The steps that touch the installed files or the journal are few. *)
Writing(i) ==
  \/ IRestoreWorker(i) \/ IRestoreHelper(i) \/ IRestoreManifest(i) \/ IForget(i) \/ IJournal(i)
  \/ IReplaceWorker(i) \/ IReplaceHelper(i) \/ IReplaceManifest(i) \/ ICommit(i)

LEMMA OtherStepsWriteNothing ==
  ASSUME InstallInv, [Next]_vars
  PROVE  UNCHANGED <<files, journal>> \/ \E i \in Installers : Writing(i)
<1>1. ASSUME NEW i \in Installers, IEnter(i) \/ ICrash(i) PROVE UNCHANGED <<files, journal>>
  BY <1>1 DEF IEnter, ICrash, fileVars
<1>2. ASSUME NEW i \in Installers, InstallerStep(i), ~Writing(i) PROVE UNCHANGED <<files, journal>>
  BY <1>2 DEF InstallerStep, Writing, IReadOwner, IOwnerDiffers, ICreateOwner, IBindOwner, ICheckActive,
       IRefuse, INothingPending, IKeepCommitted, IRollBack, ITidyWorker, ITidyHelper, ITidyManifest, ITidy,
       IRecoveryFails, IPrepare, IAudit, IInstallFails, INoLaunch, ILaunch, IAcknowledged, IChildEnded,
       IDeadline, IKill, IKillFails, IJudge, fileVars
<1>3. ASSUME NEW w \in Workers, WSpawn(w) \/ WorkerStep(w) \/ WKilled(w) PROVE UNCHANGED <<files, journal>>
  BY <1>3, WorkerKeeps DEF fileVars
<1>4. CASE UNCHANGED vars
  BY <1>4 DEF vars, fileVars
<1> QED BY <1>1, <1>2, <1>3, <1>4 DEF Next

(* No step changes the files under a worker that trusted them: the worker's own
   image is replaced first, and only while no worker runs; until the journal is
   gone no other worker gets so far. *)
THEOREM TrustedRuntimeKept == Spec => TrustedKeepsRuntime
<1>1. ASSUME InstallInv, [Next]_vars, NEW w \in Workers, worker[w] \in {"trusted", "active"}
      PROVE  files' = files
  <2>1. ASSUME NEW i \in Installers, Writing(i) PROVE files' = files
    <3>1. Stage(i) /\ InUse("worker")
      BY <1>1 DEF InstallInv, InUse, WorkerLive
    <3>2. installer[i].pc \notin Mixing
      BY <1>1, <3>1 DEF Stage
    <3>3. CASE IRestoreWorker(i) \/ IReplaceWorker(i)
      BY <3>1, <3>3 DEF IRestoreWorker, IReplaceWorker, IRestore, IReplace
    <3>4. CASE \/ IRestoreHelper(i) \/ IRestoreManifest(i)
               \/ IReplaceHelper(i) \/ IReplaceManifest(i)
      BY <3>2, <3>4 DEF IRestoreHelper, IRestoreManifest, IReplaceHelper, IReplaceManifest, IRestore,
                        IReplace, Goto, At, Mixing
    <3>5. CASE IForget(i) \/ IJournal(i) \/ ICommit(i)
      BY <3>5 DEF IForget, IJournal, ICommit
    <3> QED BY <2>1, <3>3, <3>4, <3>5 DEF Writing
  <2> QED BY <1>1, <2>1, OtherStepsWriteNothing
<1>2. InstallInv /\ [Next]_vars
        => [\A w \in Workers : worker[w] \in {"trusted", "active"} => files' = files]_vars
  BY <1>1
<1> QED BY <1>2, InvariantHolds, PTL DEF Spec, TrustedKeepsRuntime

------------------------------------------------------------------------------
(* The installation implements RuntimeBundle. *)

LEMMA BundleStep == ASSUME InstallInv, [Next]_vars PROVE [Bundle!Next]_Bundle!vars
<1> USE DEF Bundle!Next, Bundle!vars, Bundle!Begin, Bundle!Commit, Bundle!Revert, Bundle!End
<1>1. CASE UNCHANGED <<files, journal>>
  BY <1>1 DEF Installed, Pending, Committed
<1>2. ASSUME NEW i \in Installers, Writing(i) PROVE [Bundle!Next]_Bundle!vars
  <2>a. Stage(i) /\ JournalSound
    BY DEF InstallInv
  <2>1. CASE IRestoreWorker(i) \/ IRestoreHelper(i) \/ IRestoreManifest(i)
    <3>1. PICK f \in Files, from \in {"restore worker", "restore helper", "restore manifest"},
               to \in Working : IRestore(i, f, from, to)
      BY <2>1 DEF IRestoreWorker, IRestoreHelper, IRestoreManifest, Files, Working
    <3>2. journal' = journal /\ files'[f] = journal.previous[f]
      BY <3>1, RestoreChanges
    <3>3. installer[i].pc = from
      BY <3>1 DEF IRestore, Goto, At
    <3>4. Pending /\ Pending'
      BY <2>a, <3>2, <3>3 DEF Stage, Pending
    <3>5. journal.previous[f] = journal.previous["manifest"]
      BY <2>a, <3>4 DEF JournalSound, Whole
    <3>6. Installed' = journal.previous["manifest"]
      BY <3>2, <3>4, <3>5 DEF Installed, Committed, Whole, Files
    <3> QED BY <3>2, <3>4, <3>6
  <2>2. CASE IForget(i)
    <3>1. installer[i].pc = "forget" /\ journal' = NoJournal /\ files' = files
      BY <2>2 DEF IForget, Continue, Leave, Goto, At
    <3>2. Pending /\ (Committed \/ files = journal.previous) /\ ~Pending'
      BY <2>a, <3>1 DEF Stage, Tidying, Pending, NoJournal
    <3>3. Installed = files["manifest"] /\ Installed' = files["manifest"]
      BY <3>1, <3>2 DEF Installed
    <3> QED BY <3>2, <3>3
  <2>3. CASE IJournal(i)
    <3>1. /\ installer[i].pc = "journal" /\ files' = files
          /\ journal' = [phase |-> "prepared", previous |-> files, next |-> i]
      BY <2>3 DEF IJournal, Leave, Goto, At
    <3>2. ~Pending /\ Pending' /\ ~Committed'
      BY <2>a, <3>1 DEF Stage, Pending, Committed
    <3>3. Installed = files["manifest"] /\ Installed' = files["manifest"]
      BY <3>1, <3>2 DEF Installed
    <3> QED BY <3>1, <3>2, <3>3
  <2>4. CASE IReplaceWorker(i) \/ IReplaceHelper(i) \/ IReplaceManifest(i)
    <3>1. installer[i].pc \in Replacing /\ journal' = journal
      BY <2>4 DEF IReplaceWorker, IReplaceHelper, IReplaceManifest, IReplace, Goto, At, Replacing
    <3>2. Pending /\ ~Committed /\ Pending' /\ ~Committed'
      BY <2>a, <3>1 DEF Stage, Pending, Committed
    <3> QED BY <3>1, <3>2 DEF Installed
  <2>5. CASE ICommit(i)
    <3>1. Pending /\ Pending' /\ Committed'
      BY <2>5, CommitChanges DEF Pending, Committed, Whole
    <3>2. Installed' = i
      BY <2>5, <3>1, CommitChanges DEF Installed, Whole, Files
    <3> QED BY <2>5, <3>1, <3>2, CommitChanges
  <2> QED BY <1>2, <2>1, <2>2, <2>3, <2>4, <2>5 DEF Writing
<1> QED BY <1>1, <1>2, OtherStepsWriteNothing

(* At every moment one build is in place as a whole, or none: it changes at the
   commit of an installation, or back at the roll-back of one. *)
THEOREM BundleImplemented == Spec => BundleKept
<1>1. Init => Bundle!Init
  BY DEF Init, Bundle!Init, Installed, Pending, NoJournal, NoFiles, Whole, Files
<1>2. InstallInv /\ [Next]_vars => [Bundle!Next]_Bundle!vars
  BY BundleStep
<1> QED BY <1>1, <1>2, InvariantHolds, PTL DEF Spec, BundleKept, Bundle!Spec

(* Whole builds only, and after a success the one that was installed. *)
THEOREM WholeAndOwn == Spec => []RuntimeIsWhole
BY UsableIsWhole, SuccessComplete, PTL DEF RuntimeIsWhole
==============================================================================
