------------------------- MODULE CloneServiceProofs -------------------------
(***************************************************************************)
(* The safety properties of CloneService, for any number of runs, imports,  *)
(* crashes and half days.                                                   *)
(***************************************************************************)
EXTENDS CloneService, TLAPS

----------------------------------------------------------------------------
(* The inductive invariant.                                                 *)

Waiting == {"look", "unlink", "create", "write", "leave"}
Outside == {"idle", "reconcile", "preflight", "countdown", "done"}
Writing(p, l) == pc[p] = "write" /\ Wanted(p) = l

(* Whose file it is holds it, is writing it, or is gone.                    *)
HeldInv ==
  /\ \A p \in Processes, l \in Locks :
       file[l].owner = p => \/ pc[p] = "dead" \/ Writing(p, l)
                            \/ l \in held[p] /\ file[l].written
  /\ \A p \in Processes : pc[p] \in Outside => held[p] = {}
  /\ \A p \in Processes : pc[p] \in Waiting => "clone" \notin held[p]
  /\ \A p \in Importers : pc[p] \in {"look", "unlink", "create", "write"} => held[p] = {}
  /\ \A p \in Processes : pc[p] \in Guarded => "backup" \in held[p] /\ p \in Runs

(* Without a stolen lock the clone lock is that of the run that has the     *)
(* target: what is unlinked has no live owner.                              *)
GuardInv ==
  ~stolen => \A r \in Runs : pc[r] \in Guarded \/ Writing(r, "clone") => file["clone"].owner = r

(* Within the first twelve hours no file is taken over.                     *)
FreshInv ==
  halfDays = 0 =>
    /\ ~stolen /\ \A l \in Locks : ~file[l].old
    /\ \A p \in Processes : pc[p] \notin {"unlink", "create"}
    /\ \A p \in Processes, l \in Locks : Writing(p, l) => file[l].owner = p
    /\ \A p \in Processes : "backup" \in held[p] => file["backup"].owner = p

(* The provider of a run runs from its start to its result, or after an     *)
(* exception between these.                                                 *)
ProviderInv ==
  \A r \in Runs :
    /\ prov[r] = "running" =>
         pc[r] \in {"cloning", "inspect", "cleanup", "unlock", "leave", "done", "dead"}
    /\ pc[r] \in {"verify", "return", "succeed"} => prov[r] = "good"

(* Who owns a lock file has a row, and that is at least as old.             *)
RowInv ==
  \A r \in Runs :
    /\ pc[r] \notin {"idle", "reconcile", "dead"} => state[r] # "none"
    /\ \A l \in Locks : file[l].owner = r => state[r] # "none" /\ (file[l].old => old[r])

(* A provider that is attended has the clone lock of its run before it.     *)
AttendInv ==
  ~stolen => \A r \in Runs : prov[r] = "running" => file["clone"].owner = r \/ Unattended(r)

(* A clone lock is taken over from a process that is dead.                  *)
DeadInv ==
  stolen \/ (\E p \in Processes : pc[p] = "unlink" /\ Wanted(p) = "clone")
    => \E p \in Processes : pc[p] = "dead"

(* A target that is online is accounted for.                                *)
Given == {"failed_offline_cleanup", "interrupted"}
After == {"unlock", "leave", "done", "dead"}
OnlineInv ==
  /\ KeepOffline /\ online =>
       \E r \in Runs : brought[r] # "no" \/ (state[r] \in Given /\ pc[r] \in After)
  /\ \A r \in Runs : brought[r] = "known"
       => KeepOffline /\ pc[r] \in (Guarded \ {"succeed", "close", "unlock"}) \cup {"dead"}

(* A run that is about to be a success has the target to itself, offline.   *)
SucceedInv ==
  ~stolen /\ KeepOffline => \A r \in Runs : pc[r] = "succeed" => ~online

Inv ==
  /\ TypeOK /\ HeldInv /\ GuardInv /\ FreshInv /\ ProviderInv /\ OnlineInv /\ SucceedInv
  /\ RowInv /\ AttendInv /\ DeadInv

(* What a lock file may become.                                             *)
LEMMA LockFilesAre ==
  /\ Free \in LockFiles
  /\ \A p \in Processes : [owner |-> p, written |-> FALSE, old |-> FALSE] \in LockFiles
  /\ \A f \in LockFiles :
       /\ f.owner \in Processes => [f EXCEPT !.written = TRUE] \in LockFiles
       /\ f # Free => [f EXCEPT !.old = TRUE] \in LockFiles
<1>1. Free \in LockFiles /\ \A p \in Processes : [owner |-> p, written |-> FALSE, old |-> FALSE] \in LockFiles
  BY DEF LockFiles
<1>2. ASSUME NEW f \in [owner : Processes, written : BOOLEAN, old : BOOLEAN]
      PROVE  [f EXCEPT !.written = TRUE] \in LockFiles /\ [f EXCEPT !.old = TRUE] \in LockFiles
  BY DEF LockFiles
<1>3. Free.owner \notin Processes
  BY NobodyIsNoProcess DEF Free, Processes
<1> QED
  BY <1>1, <1>2, <1>3 DEF LockFiles

(* Init establishes the invariant.                                          *)
LEMMA InitInv == Init => Inv
<1> SUFFICES ASSUME Init PROVE Inv
  OBVIOUS
<1>1. TypeOK
  <2>1. Free \in LockFiles
    BY DEF LockFiles
  <2>2. file \in [Locks -> LockFiles]
    BY <2>1 DEF Init
  <2>3. online \in BOOLEAN
    BY KeepOfflineIsFlag DEF Init
  <2>4. listed \in [Runs -> SUBSET [run : Runs, pid : BOOLEAN]]
    BY DEF Init
  <2>5. halfDays \in 0..MaxHalfDays
    BY BoundsAreNumbers DEF Init
  <2>6. held \in [Processes -> SUBSET Locks] /\ pc \in [Processes -> Steps]
    BY DEF Init, Steps
  <2>7. /\ state \in [Runs -> States] /\ old \in [Runs -> BOOLEAN] /\ pidSaved \in [Runs -> BOOLEAN]
        /\ prov \in [Runs -> {"none", "running", "good", "bad"}]
        /\ brought \in [Runs -> {"no", "known", "lost"}] /\ stolen \in BOOLEAN
    BY DEF Init, States
  <2> QED
    BY <2>2, <2>3, <2>4, <2>5, <2>6, <2>7 DEF TypeOK
<1>2. HeldInv /\ GuardInv /\ FreshInv /\ ProviderInv
  BY NobodyIsNoProcess DEF Init, HeldInv, GuardInv, FreshInv, ProviderInv, Waiting,
     Outside, Guarded,
    Writing, Free, Processes, Locks
<1>3. OnlineInv /\ SucceedInv
  BY DEF Init, OnlineInv, SucceedInv
<1>4. RowInv /\ AttendInv /\ DeadInv
  BY NobodyIsNoProcess DEF Init, RowInv, AttendInv, DeadInv, Free, Processes, Locks
<1> QED
  BY <1>1, <1>2, <1>3, <1>4 DEF Inv

----------------------------------------------------------------------------
(* Every action keeps it.                                                   *)

LEMMA TryLockKeeps ==
  ASSUME Inv, NEW p \in Processes, TryLock(p) PROVE Inv'
<1> USE NobodyIsNoProcess, ProcessesDiffer DEF Goto, Become, Raise, Bring, rows, locals, Processes
<1>1. TypeOK'
  <2> USE DEF Inv, TypeOK, TryLock, Steps
  <2>1. Wanted(p) \in Locks
    BY DEF Wanted, Locks
  <2>2. CASE file[Wanted(p)] = Free /\ CreateFile(p, Wanted(p)) /\ UNCHANGED state
    <3>1. file' \in [Locks -> LockFiles] /\ pc' \in [Processes -> Steps]
      BY <2>1, <2>2, LockFilesAre DEF CreateFile
    <3> QED
      BY <2>2, <3>1
  <2>3. CASE Goto(p, "unlink") /\ UNCHANGED <<state, file>>
    BY <2>3
  <2>4. CASE Refused(p) /\ UNCHANGED file
    BY <2>4 DEF Refused, States, TerminalStates
  <2> QED
    BY <2>2, <2>3, <2>4
<1>2. HeldInv'
  BY DEF Inv, TypeOK, HeldInv, TryLock, CreateFile, Refused, Abandoned, Stale, Writing,
     Wanted, Waiting, Outside, Guarded, Free, Locks, LockFiles
<1>3. GuardInv'
  BY DEF Inv, TypeOK, HeldInv, GuardInv, TryLock, CreateFile, Refused, Abandoned, Stale,
     Writing, Wanted, Guarded, Free, Locks, LockFiles
<1>4. FreshInv'
  BY BoundsAreNumbers DEF Inv, TypeOK, HeldInv, GuardInv, FreshInv, ProviderInv, TryLock,
     CreateFile, Refused, Abandoned, Stale, Writing, Wanted, Guarded, Free, Locks, LockFiles
<1>5. ProviderInv'
  BY DEF Inv, TypeOK, ProviderInv, TryLock, CreateFile, Refused, Abandoned, Stale
<1>6. OnlineInv'
  BY DEF Inv, TypeOK, OnlineInv, TryLock, CreateFile, Refused, Abandoned, Stale, Given,
     After, Guarded
<1>7. SucceedInv'
  BY DEF Inv, TypeOK, SucceedInv, GuardInv, TryLock, CreateFile, Refused, Abandoned,
     Stale, Guarded
<1>8. RowInv'
  BY DEF Inv, TypeOK, HeldInv, RowInv, TryLock, CreateFile, Refused, Abandoned, Stale,
     Writing, Wanted, Free, Locks, LockFiles, States, TerminalStates
<1>9. AttendInv'
  BY DEF Inv, TypeOK, HeldInv, GuardInv, ProviderInv, RowInv, AttendInv, Unattended,
     TryLock, CreateFile, Refused, Abandoned, Stale, Writing, Wanted, Guarded, Free,
     Locks, LockFiles
<1>10. DeadInv'
  <2> USE DEF Inv, TypeOK, HeldInv, DeadInv
  <2>1. CASE file[Wanted(p)] # Free /\ Abandoned(Wanted(p)) /\ Goto(p, "unlink")
    <3>1. held' = held /\ UNCHANGED stolen /\ \A q \in Processes : pc[q] = "dead" => pc'[q] = "dead"
      BY <2>1 DEF TryLock
    <3>2. ASSUME Wanted(p) = "clone" PROVE \E q \in Processes : pc[q] = "dead"
      <4>1. file["clone"] # Free /\ file["clone"].owner \in Processes /\ ~Live(file["clone"].owner)
        BY <2>1, <3>2 DEF Abandoned, OwnerLive, Locks, LockFiles
      <4> QED
        BY <4>1 DEF Live, Writing, Outside, Locks
    <3> QED
      BY <2>1, <3>1, <3>2 DEF TryLock, Wanted
  <2>2. CASE CreateFile(p, Wanted(p)) \/ Refused(p)
    BY <2>2 DEF TryLock, CreateFile, Refused, Wanted
  <2> QED
    BY <2>1, <2>2 DEF TryLock
<1> QED
  BY <1>1, <1>2, <1>3, <1>4, <1>5, <1>6, <1>7, <1>8, <1>9, <1>10 DEF Inv

LEMMA UnlinkLockKeeps ==
  ASSUME Inv, NEW p \in Processes, UnlinkLock(p) PROVE Inv'
<1> USE NobodyIsNoProcess, ProcessesDiffer DEF Goto, Become, Raise, Bring, rows, locals, Processes
<1>1. TypeOK'
  BY BoundsAreNumbers DEF Inv, TypeOK, UnlinkLock, Abandoned, OwnerLive, Live, Stale,
     States, TerminalStates, Steps, LockFiles, Free, Locks
<1>2. HeldInv'
  BY DEF Inv, TypeOK, HeldInv, UnlinkLock, Abandoned, OwnerLive, Live, Stale, Writing,
     Wanted, Waiting, Outside, Guarded, Free, Locks, LockFiles
<1>3. GuardInv'
  BY DEF Inv, TypeOK, HeldInv, GuardInv, UnlinkLock, Abandoned, OwnerLive, Live, Stale,
     Writing, Wanted, Guarded, Free, Locks, LockFiles
<1>4. FreshInv'
  BY BoundsAreNumbers DEF Inv, TypeOK, HeldInv, GuardInv, FreshInv, ProviderInv,
     UnlinkLock, Abandoned, OwnerLive, Live, Stale, Writing, Wanted, Guarded, Free, Locks,
     LockFiles
<1>5. ProviderInv'
  BY DEF Inv, TypeOK, ProviderInv, UnlinkLock, Abandoned, OwnerLive, Live, Stale
<1>6. OnlineInv'
  BY DEF Inv, TypeOK, OnlineInv, UnlinkLock, Abandoned, OwnerLive, Live, Stale, Given,
     After, Guarded
<1>7. SucceedInv'
  BY DEF Inv, TypeOK, SucceedInv, GuardInv, UnlinkLock, Abandoned, OwnerLive, Live, Stale,
     Guarded
<1>8. RowInv'
  BY DEF Inv, TypeOK, HeldInv, RowInv, UnlinkLock, Abandoned, OwnerLive, Live, Stale,
     Writing, Wanted, Free, Locks, LockFiles, States, TerminalStates
<1>9. AttendInv'
  <2> SUFFICES ASSUME ~stolen', NEW r \in Runs, prov'[r] = "running"
               PROVE  file'["clone"].owner = r \/ Unattended(r)'
    BY DEF AttendInv
  <2>1. /\ pc[p] = "unlink" /\ pc' = [pc EXCEPT ![p] = "create"] /\ p # r
        /\ file' = [file EXCEPT ![Wanted(p)] = Free] /\ ~stolen
        /\ Wanted(p) = "clone" => file["clone"] = Free \/ Abandoned("clone")
        /\ UNCHANGED <<held, old, prov>>
    BY DEF UnlinkLock, Inv, ProviderInv
  <2>2. Unattended(r) => Unattended(r)'
    BY <2>1 DEF Unattended, Inv, TypeOK
  <2>3. CASE Wanted(p) # "clone"
    BY <2>1, <2>2, <2>3 DEF Inv, TypeOK, AttendInv, Wanted, Locks
  <2>4. CASE Wanted(p) = "clone" /\ file["clone"].owner = r
    <3>1. file["clone"] # Free
      BY <2>4 DEF Free
    <3>2. file["clone"].old /\ pc[r] \in {"idle", "done", "dead"}
      BY <2>1, <2>4, <3>1 DEF Abandoned, Stale, OwnerLive, Live
    <3>3. pc[r] = "dead" /\ old[r]
      BY <2>4, <3>2 DEF Inv, HeldInv, RowInv, Writing, Outside, Locks
    <3> QED
      BY <2>2, <3>3 DEF Unattended
  <2>5. CASE file["clone"].owner # r
    BY <2>1, <2>2, <2>5 DEF Inv, AttendInv
  <2> QED
    BY <2>3, <2>4, <2>5
<1>10. DeadInv'
  BY DEF Inv, TypeOK, HeldInv, GuardInv, DeadInv, UnlinkLock, Abandoned, OwnerLive, Live,
     Stale, Writing, Wanted, Waiting, Outside, Guarded, Free, Locks, LockFiles
<1> QED
  BY <1>1, <1>2, <1>3, <1>4, <1>5, <1>6, <1>7, <1>8, <1>9, <1>10 DEF Inv

LEMMA CreateLockKeeps ==
  ASSUME Inv, NEW p \in Processes, CreateLock(p) PROVE Inv'
<1> USE NobodyIsNoProcess, ProcessesDiffer DEF Goto, Become, Raise, Bring, rows, locals, Processes
<1>1. TypeOK'
  <2> USE DEF Inv, TypeOK, CreateLock, Steps
  <2>1. Wanted(p) \in Locks
    BY DEF Wanted, Locks
  <2>2. CASE CreateFile(p, Wanted(p)) /\ UNCHANGED state
    <3>1. file' \in [Locks -> LockFiles] /\ pc' \in [Processes -> Steps]
      BY <2>1, <2>2, LockFilesAre DEF CreateFile
    <3> QED
      BY <2>2, <3>1
  <2>3. CASE Refused(p) /\ UNCHANGED file
    BY <2>3 DEF Refused, States, TerminalStates
  <2> QED
    BY <2>2, <2>3
<1>2. HeldInv'
  BY DEF Inv, TypeOK, HeldInv, CreateLock, CreateFile, Refused, Writing, Wanted, Waiting,
     Outside, Guarded, Free, Locks, LockFiles
<1>3. GuardInv'
  BY DEF Inv, TypeOK, HeldInv, GuardInv, CreateLock, CreateFile, Refused, Writing, Wanted,
     Guarded, Free, Locks, LockFiles
<1>4. FreshInv'
  BY BoundsAreNumbers DEF Inv, TypeOK, HeldInv, GuardInv, FreshInv, ProviderInv,
     CreateLock, CreateFile, Refused, Writing, Wanted, Guarded, Free, Locks, LockFiles
<1>5. ProviderInv'
  BY DEF Inv, TypeOK, ProviderInv, CreateLock, CreateFile, Refused
<1>6. OnlineInv'
  BY DEF Inv, TypeOK, OnlineInv, CreateLock, CreateFile, Refused, Given, After, Guarded
<1>7. SucceedInv'
  BY DEF Inv, TypeOK, SucceedInv, GuardInv, CreateLock, CreateFile, Refused, Guarded
<1>8. RowInv'
  BY DEF Inv, TypeOK, HeldInv, RowInv, CreateLock, CreateFile, Refused, Writing, Wanted,
     Free, Locks, LockFiles, States, TerminalStates
<1>9. AttendInv'
  BY DEF Inv, TypeOK, HeldInv, GuardInv, ProviderInv, RowInv, AttendInv, Unattended,
     CreateLock, CreateFile, Refused, Writing, Wanted, Guarded, Free, Locks, LockFiles
<1>10. DeadInv'
  BY DEF Inv, TypeOK, HeldInv, GuardInv, DeadInv, CreateLock, CreateFile, Refused,
     Writing, Wanted, Waiting, Outside, Guarded, Free, Locks, LockFiles
<1> QED
  BY <1>1, <1>2, <1>3, <1>4, <1>5, <1>6, <1>7, <1>8, <1>9, <1>10 DEF Inv

LEMMA ReleaseBackupKeeps ==
  ASSUME Inv, NEW p \in Processes, ReleaseBackup(p) PROVE Inv'
<1> USE NobodyIsNoProcess, ProcessesDiffer DEF Goto, Become, Raise, Bring, rows, locals, Processes
<1>1. TypeOK'
  BY BoundsAreNumbers DEF Inv, TypeOK, ReleaseBackup, States, TerminalStates, Steps,
     LockFiles, Free, Locks
<1>2. HeldInv'
  BY DEF Inv, TypeOK, HeldInv, ReleaseBackup, Writing, Wanted, Waiting, Outside, Guarded,
     Free, Locks, LockFiles
<1>3. GuardInv'
  BY DEF Inv, TypeOK, HeldInv, GuardInv, ReleaseBackup, Writing, Wanted, Guarded, Free,
     Locks, LockFiles
<1>4. FreshInv'
  BY BoundsAreNumbers DEF Inv, TypeOK, HeldInv, GuardInv, FreshInv, ProviderInv,
     ReleaseBackup, Writing, Wanted, Guarded, Free, Locks, LockFiles
<1>5. ProviderInv'
  BY DEF Inv, TypeOK, ProviderInv, ReleaseBackup
<1>6. OnlineInv'
  BY DEF Inv, TypeOK, OnlineInv, ReleaseBackup, Given, After, Guarded
<1>7. SucceedInv'
  BY DEF Inv, TypeOK, SucceedInv, GuardInv, ReleaseBackup, Guarded
<1>8. RowInv'
  BY DEF Inv, TypeOK, HeldInv, RowInv, ReleaseBackup, Writing, Wanted, Free, Locks,
     LockFiles, States, TerminalStates
<1>9. AttendInv'
  BY DEF Inv, TypeOK, HeldInv, GuardInv, ProviderInv, RowInv, AttendInv, Unattended,
     ReleaseBackup, Writing, Wanted, Guarded, Free, Locks, LockFiles
<1>10. DeadInv'
  BY DEF Inv, TypeOK, HeldInv, GuardInv, DeadInv, ReleaseBackup, Writing, Wanted, Waiting,
     Outside, Guarded, Free, Locks, LockFiles
<1> QED
  BY <1>1, <1>2, <1>3, <1>4, <1>5, <1>6, <1>7, <1>8, <1>9, <1>10 DEF Inv

LEMMA CrashKeeps ==
  ASSUME Inv, NEW p \in Processes, Crash(p) PROVE Inv'
<1> USE NobodyIsNoProcess, ProcessesDiffer DEF Goto, Become, Raise, Bring, rows, locals, Processes
<1>1. TypeOK'
  BY BoundsAreNumbers DEF Inv, TypeOK, Crash, Live, States, TerminalStates, Steps,
     LockFiles, Free, Locks
<1>2. HeldInv'
  BY DEF Inv, TypeOK, HeldInv, Crash, Live, Writing, Wanted, Waiting, Outside, Guarded,
     Free, Locks, LockFiles
<1>3. GuardInv'
  BY DEF Inv, TypeOK, HeldInv, GuardInv, Crash, Live, Writing, Wanted, Guarded, Free,
     Locks, LockFiles
<1>4. FreshInv'
  BY BoundsAreNumbers DEF Inv, TypeOK, HeldInv, GuardInv, FreshInv, ProviderInv, Crash,
     Live, Writing, Wanted, Guarded, Free, Locks, LockFiles
<1>5. ProviderInv'
  BY DEF Inv, TypeOK, ProviderInv, Crash, Live
<1>6. OnlineInv'
  BY DEF Inv, TypeOK, OnlineInv, Crash, Live, Given, After, Guarded
<1>7. SucceedInv'
  BY DEF Inv, TypeOK, SucceedInv, GuardInv, Crash, Live, Guarded
<1>8. RowInv'
  BY DEF Inv, TypeOK, HeldInv, RowInv, Crash, Live, Writing, Wanted, Free, Locks,
     LockFiles, States, TerminalStates
<1>9. AttendInv'
  BY DEF Inv, TypeOK, HeldInv, GuardInv, ProviderInv, RowInv, AttendInv, Unattended,
     Crash, Live, Writing, Wanted, Guarded, Free, Locks, LockFiles
<1>10. DeadInv'
  BY DEF Inv, TypeOK, HeldInv, GuardInv, DeadInv, Crash, Live, Writing, Wanted, Waiting,
     Outside, Guarded, Free, Locks, LockFiles
<1> QED
  BY <1>1, <1>2, <1>3, <1>4, <1>5, <1>6, <1>7, <1>8, <1>9, <1>10 DEF Inv

LEMMA WriteLockKeeps ==
  ASSUME Inv, NEW p \in Processes, WriteLock(p) PROVE Inv'
<1> USE NobodyIsNoProcess, ProcessesDiffer DEF Goto, rows, locals, Inv
<1> DEFINE l == Wanted(p)
           to == IF p \in Importers THEN "leave" ELSE IF l = "clone" THEN "online" ELSE "look"
<1>1. pc[p] = "write" /\ l \in Locks /\ "clone" \notin held[p] /\ l \notin held[p]
      /\ UNCHANGED <<state, old, pidSaved, prov, online, brought, listed, halfDays>>
  BY DEF WriteLock, Wanted, Locks, HeldInv, Waiting
<1>2. CASE /\ file' = [file EXCEPT ![l] = IF file[l].owner = p
                                        THEN [file[l] EXCEPT !.written = TRUE] ELSE file[l]]
           /\ held' = [held EXCEPT ![p] = held[p] \cup {l}]
           /\ pc' = [pc EXCEPT ![p] = to] /\ UNCHANGED stolen
  <2>1. to \in {"leave", "online", "look"} /\ (to = "online" => p \in Runs /\ l = "clone")
        /\ (to = "look" => l = "backup") /\ (to = "leave" <=> p \in Importers)
    BY <1>1 DEF Processes, Locks
  <2>2. /\ file' \in [Locks -> LockFiles]
        /\ \A k \in Locks : file'[k].owner = file[k].owner /\ file'[k].old = file[k].old
        /\ \A k \in Locks : k # l => file'[k] = file[k]
        /\ file[l].owner = p => file'[l].written
        /\ file[l].owner # p => file'[l] = file[l]
    <3>1. file \in [Locks -> LockFiles]
      BY DEF TypeOK
    <3>2. \A k \in Locks : k # l => file'[k] = file[k]
      BY <1>2, <3>1
    <3>3. CASE file[l].owner = p
      <4>1. file'[l] = [file[l] EXCEPT !.written = TRUE] /\ DOMAIN file' = Locks
        BY <1>1, <1>2, <3>1, <3>3
      <4>2. [file[l] EXCEPT !.written = TRUE] \in LockFiles
        BY <1>1, <3>1, <3>3, LockFilesAre
      <4>3. file' \in [Locks -> LockFiles]
        BY <1>1, <1>2, <3>1, <3>3, <4>2
      <4>4. \E q \in Processes, w, o \in BOOLEAN : file[l] = [owner |-> q, written |-> w, old |-> o]
        BY <1>1, <3>1, <3>3, NobodyIsNoProcess DEF LockFiles, Free, Processes
      <4>5. file'[l].owner = file[l].owner /\ file'[l].old = file[l].old /\ file'[l].written
        BY <4>1, <4>4
      <4> QED
        BY <3>2, <3>3, <4>3, <4>5
    <3>4. CASE file[l].owner # p
      BY <1>1, <1>2, <3>1, <3>4
    <3> QED
      BY <3>3, <3>4
  <2>3. /\ \A q \in Processes : q # p => pc'[q] = pc[q] /\ held'[q] = held[q]
        /\ pc'[p] = to /\ held'[p] = held[p] \cup {l}
        /\ held' \in [Processes -> SUBSET Locks] /\ pc' \in [Processes -> Steps]
    BY <1>1, <1>2, <2>1 DEF TypeOK, Steps
  <2> HIDE DEF to
  <2>4. TypeOK'
    BY <1>1, <1>2, <2>2, <2>3 DEF TypeOK
  <2>5. p \in Importers => l = "backup"
    BY <1>1 DEF HeldInv, Waiting, Wanted
  <2>6. l = "clone" => "backup" \in held[p]
    BY DEF Wanted
  <2>7. HeldInv'
    <3>1. \A k \in Locks : file'[k].owner = p => k \in held'[p] /\ file'[k].written
      BY <1>1, <2>2, <2>3 DEF HeldInv, Writing
    <3>2. ASSUME NEW q \in Processes, NEW k \in Locks, q # p, file'[k].owner = q
          PROVE  pc'[q] = "dead" \/ Writing(q, k)' \/ (k \in held'[q] /\ file'[k].written)
      <4>1. file'[k] = file[k] /\ pc'[q] = pc[q] /\ held'[q] = held[q]
        BY <2>2, <2>3, <3>2
      <4> QED
        BY <3>2, <4>1 DEF HeldInv, Writing, Wanted
    <3>3. \A q \in Processes : pc'[q] \in Outside => held'[q] = {}
      BY <2>1, <2>3 DEF HeldInv, Outside
    <3>4. \A q \in Processes : pc'[q] \in Waiting => "clone" \notin held'[q]
      BY <1>1, <2>1, <2>3, <2>5 DEF HeldInv, Waiting
    <3>5. \A q \in Processes : pc'[q] \in Guarded => "backup" \in held'[q] /\ q \in Runs
      BY <1>1, <2>1, <2>3, <2>6 DEF HeldInv, Guarded
    <3>6. \A q \in Importers : pc'[q] \in {"look", "unlink", "create", "write"} => held'[q] = {}
      BY <2>1, <2>3, ProcessesDiffer DEF HeldInv, Processes
    <3> QED
      BY <3>1, <3>2, <3>3, <3>4, <3>5, <3>6 DEF HeldInv
  <2>8. GuardInv'
    BY <1>1, <1>2, <2>1, <2>2, <2>3 DEF GuardInv, Writing, Wanted, Guarded, Locks, Processes
  <2>9. FreshInv'
    BY <1>1, <1>2, <2>1, <2>2, <2>3 DEF FreshInv, Writing, Wanted, Guarded, Locks, Processes
  <2>10. ProviderInv' /\ OnlineInv' /\ SucceedInv'
    BY <1>1, <1>2, <2>1, <2>3 DEF ProviderInv, OnlineInv, SucceedInv, Given, After,
       Guarded, Processes
  <2>11. RowInv' /\ AttendInv' /\ DeadInv'
    BY <1>1, <1>2, <2>1, <2>2, <2>3 DEF TypeOK, HeldInv, GuardInv, ProviderInv, RowInv,
       AttendInv,
      DeadInv, Unattended, Writing, Wanted, Locks, Processes
  <2> QED
    BY <2>4, <2>7, <2>8, <2>9, <2>10, <2>11
<1>3. CASE /\ file' = [file EXCEPT ![l] = Free] /\ UNCHANGED held
           /\ stolen' = (stolen \/ (l = "clone" /\ file["clone"] # Free
                                  /\ file["clone"].owner # p))
           /\ pc' = [pc EXCEPT ![p] = "leave"]
  <2>1. TypeOK'
    BY <1>1, <1>3 DEF TypeOK, LockFiles, Steps
  <2>2. HeldInv'
    <3>1. /\ \A k \in Locks : k # l => file'[k] = file[k]
          /\ file'[l].owner \notin Processes
          /\ \A q \in Processes : q # p => pc'[q] = pc[q]
          /\ pc'[p] = "leave" /\ held' = held
      BY <1>1, <1>3 DEF TypeOK, Free, Processes
    <3>2. ASSUME NEW q \in Processes, NEW k \in Locks, file'[k].owner = q
          PROVE  pc'[q] = "dead" \/ Writing(q, k)' \/ (k \in held'[q] /\ file'[k].written)
      <4>1. k # l /\ file'[k] = file[k]
        BY <3>1, <3>2
      <4> QED
        BY <1>1, <3>1, <3>2, <4>1 DEF HeldInv, Writing, Wanted
    <3>3. \A q \in Processes : pc'[q] \in Outside => held'[q] = {}
      BY <3>1 DEF HeldInv, Outside
    <3>6. \A q \in Processes : pc'[q] \in Guarded => "backup" \in held'[q] /\ q \in Runs
      BY <3>1 DEF HeldInv, Guarded
    <3>4. \A q \in Processes : pc'[q] \in Waiting => "clone" \notin held'[q]
      BY <1>1, <3>1 DEF HeldInv, Waiting
    <3>5. \A q \in Importers : pc'[q] \in {"look", "unlink", "create", "write"} => held'[q] = {}
      BY <3>1 DEF HeldInv, Processes
    <3> QED
      BY <3>2, <3>3, <3>4, <3>5, <3>6 DEF HeldInv
  <2>3. GuardInv'
    BY <1>1, <1>3 DEF TypeOK, GuardInv, Writing, Wanted, Guarded, Free, Locks, Processes
  <2>4. FreshInv'
    BY <1>1, <1>3 DEF TypeOK, HeldInv, GuardInv, FreshInv, ProviderInv, Writing, Wanted,
       Guarded, Free,
      Locks, Processes
  <2>5. ProviderInv' /\ OnlineInv' /\ SucceedInv'
    BY <1>1, <1>3 DEF TypeOK, ProviderInv, OnlineInv, SucceedInv, Given, After, Guarded,
       Processes
  <2>6. RowInv' /\ AttendInv' /\ DeadInv'
    BY <1>1, <1>3 DEF TypeOK, HeldInv, GuardInv, ProviderInv, RowInv, AttendInv, DeadInv,
       Unattended,
      Writing, Wanted, Free, Locks, LockFiles, Processes
  <2> QED
    BY <2>1, <2>2, <2>3, <2>4, <2>5, <2>6
<1> QED
  BY <1>2, <1>3 DEF WriteLock

LEMMA BeginExecuteKeeps ==
  ASSUME Inv, NEW r \in Runs, BeginExecute(r) PROVE Inv'
<1> USE NobodyIsNoProcess, ProcessesDiffer DEF Goto, Become, Raise, Bring, rows, locals, Processes
<1>1. TypeOK'
  BY BoundsAreNumbers DEF Inv, TypeOK, BeginExecute, States, TerminalStates, Steps,
     LockFiles, Free, Locks
<1>2. HeldInv'
  BY DEF Inv, TypeOK, HeldInv, BeginExecute, Writing, Wanted, Waiting, Outside, Guarded,
     Free, Locks, LockFiles
<1>3. GuardInv'
  BY DEF Inv, TypeOK, HeldInv, GuardInv, BeginExecute, Writing, Wanted, Guarded, Free,
     Locks, LockFiles
<1>4. FreshInv'
  BY BoundsAreNumbers DEF Inv, TypeOK, HeldInv, GuardInv, FreshInv, ProviderInv,
     BeginExecute, Writing, Wanted, Guarded, Free, Locks, LockFiles
<1>5. ProviderInv'
  BY DEF Inv, TypeOK, ProviderInv, BeginExecute
<1>6. OnlineInv'
  BY DEF Inv, TypeOK, OnlineInv, BeginExecute, Given, After, Guarded
<1>7. SucceedInv'
  BY DEF Inv, TypeOK, SucceedInv, GuardInv, BeginExecute, Guarded
<1>8. RowInv'
  BY DEF Inv, TypeOK, HeldInv, RowInv, BeginExecute, Writing, Wanted, Free, Locks,
     LockFiles, States, TerminalStates
<1>9. AttendInv'
  BY DEF Inv, TypeOK, HeldInv, GuardInv, ProviderInv, RowInv, AttendInv, Unattended,
     BeginExecute, Writing, Wanted, Guarded, Free, Locks, LockFiles
<1>10. DeadInv'
  BY DEF Inv, TypeOK, HeldInv, GuardInv, DeadInv, BeginExecute, Writing, Wanted, Waiting,
     Outside, Guarded, Free, Locks, LockFiles
<1> QED
  BY <1>1, <1>2, <1>3, <1>4, <1>5, <1>6, <1>7, <1>8, <1>9, <1>10 DEF Inv

LEMMA ReconcileRowKeeps ==
  ASSUME Inv, NEW r \in Runs, ReconcileRow(r) PROVE Inv'
<1> USE NobodyIsNoProcess, ProcessesDiffer DEF Goto, Become, Raise, Bring, rows, locals, Processes
<1>1. TypeOK'
  BY BoundsAreNumbers DEF Inv, TypeOK, ReconcileRow, States, TerminalStates, Steps,
     LockFiles, Free, Locks
<1>2. HeldInv'
  BY DEF Inv, TypeOK, HeldInv, ReconcileRow, Writing, Wanted, Waiting, Outside, Guarded,
     Free, Locks, LockFiles
<1>3. GuardInv'
  BY DEF Inv, TypeOK, HeldInv, GuardInv, ReconcileRow, Writing, Wanted, Guarded, Free,
     Locks, LockFiles
<1>4. FreshInv'
  BY BoundsAreNumbers DEF Inv, TypeOK, HeldInv, GuardInv, FreshInv, ProviderInv,
     ReconcileRow, Writing, Wanted, Guarded, Free, Locks, LockFiles
<1>5. ProviderInv'
  BY DEF Inv, TypeOK, ProviderInv, ReconcileRow
<1>6. OnlineInv'
  BY DEF Inv, TypeOK, OnlineInv, ReconcileRow, Given, After, Guarded
<1>7. SucceedInv'
  BY DEF Inv, TypeOK, SucceedInv, GuardInv, ReconcileRow, Guarded
<1>8. RowInv'
  BY DEF Inv, TypeOK, HeldInv, RowInv, ReconcileRow, Writing, Wanted, Free, Locks,
     LockFiles, States, TerminalStates
<1>9. AttendInv'
  BY DEF Inv, TypeOK, HeldInv, GuardInv, ProviderInv, RowInv, AttendInv, Unattended,
     ReconcileRow, Writing, Wanted, Guarded, Free, Locks, LockFiles
<1>10. DeadInv'
  BY DEF Inv, TypeOK, HeldInv, GuardInv, DeadInv, ReconcileRow, Writing, Wanted, Waiting,
     Outside, Guarded, Free, Locks, LockFiles
<1> QED
  BY <1>1, <1>2, <1>3, <1>4, <1>5, <1>6, <1>7, <1>8, <1>9, <1>10 DEF Inv

LEMMA CreateRunKeeps ==
  ASSUME Inv, NEW r \in Runs, CreateRun(r) PROVE Inv'
<1> USE NobodyIsNoProcess, ProcessesDiffer DEF Goto, Become, Raise, Bring, rows, locals, Processes
<1>1. TypeOK'
  BY BoundsAreNumbers DEF Inv, TypeOK, CreateRun, States, TerminalStates, Steps,
     LockFiles, Free, Locks
<1>2. HeldInv'
  BY DEF Inv, TypeOK, HeldInv, CreateRun, Writing, Wanted, Waiting, Outside, Guarded,
     Free, Locks, LockFiles
<1>3. GuardInv'
  BY DEF Inv, TypeOK, HeldInv, GuardInv, CreateRun, Writing, Wanted, Guarded, Free, Locks,
     LockFiles
<1>4. FreshInv'
  BY BoundsAreNumbers DEF Inv, TypeOK, HeldInv, GuardInv, FreshInv, ProviderInv,
     CreateRun, Writing, Wanted, Guarded, Free, Locks, LockFiles
<1>5. ProviderInv'
  BY DEF Inv, TypeOK, ProviderInv, CreateRun
<1>6. OnlineInv'
  BY DEF Inv, TypeOK, OnlineInv, CreateRun, Given, After, Guarded
<1>7. SucceedInv'
  BY DEF Inv, TypeOK, SucceedInv, GuardInv, CreateRun, Guarded
<1>8. RowInv'
  BY DEF Inv, TypeOK, HeldInv, RowInv, CreateRun, Writing, Wanted, Free, Locks, LockFiles,
     States, TerminalStates
<1>9. AttendInv'
  BY DEF Inv, TypeOK, HeldInv, GuardInv, ProviderInv, RowInv, AttendInv, Unattended,
     CreateRun, Writing, Wanted, Guarded, Free, Locks, LockFiles
<1>10. DeadInv'
  BY DEF Inv, TypeOK, HeldInv, GuardInv, DeadInv, CreateRun, Writing, Wanted, Waiting,
     Outside, Guarded, Free, Locks, LockFiles
<1> QED
  BY <1>1, <1>2, <1>3, <1>4, <1>5, <1>6, <1>7, <1>8, <1>9, <1>10 DEF Inv

LEMMA PreflightKeeps ==
  ASSUME Inv, NEW r \in Runs, Preflight(r) PROVE Inv'
<1> USE NobodyIsNoProcess, ProcessesDiffer DEF Goto, Become, Raise, Bring, rows, locals, Processes
<1>1. TypeOK'
  BY BoundsAreNumbers DEF Inv, TypeOK, Preflight, EndBeforeLocks, States, TerminalStates,
     Steps, LockFiles, Free, Locks
<1>2. HeldInv'
  BY DEF Inv, TypeOK, HeldInv, Preflight, EndBeforeLocks, Writing, Wanted, Waiting,
     Outside, Guarded, Free, Locks, LockFiles
<1>3. GuardInv'
  BY DEF Inv, TypeOK, HeldInv, GuardInv, Preflight, EndBeforeLocks, Writing, Wanted,
     Guarded, Free, Locks, LockFiles
<1>4. FreshInv'
  BY BoundsAreNumbers DEF Inv, TypeOK, HeldInv, GuardInv, FreshInv, ProviderInv,
     Preflight, EndBeforeLocks, Writing, Wanted, Guarded, Free, Locks, LockFiles
<1>5. ProviderInv'
  BY DEF Inv, TypeOK, ProviderInv, Preflight, EndBeforeLocks
<1>6. OnlineInv'
  BY DEF Inv, TypeOK, OnlineInv, Preflight, EndBeforeLocks, Given, After, Guarded
<1>7. SucceedInv'
  BY DEF Inv, TypeOK, SucceedInv, GuardInv, Preflight, EndBeforeLocks, Guarded
<1>8. RowInv'
  BY DEF Inv, TypeOK, HeldInv, RowInv, Preflight, EndBeforeLocks, Writing, Wanted, Free,
     Locks, LockFiles, States, TerminalStates
<1>9. AttendInv'
  BY DEF Inv, TypeOK, HeldInv, GuardInv, ProviderInv, RowInv, AttendInv, Unattended,
     Preflight, EndBeforeLocks, Writing, Wanted, Guarded, Free, Locks, LockFiles
<1>10. DeadInv'
  BY DEF Inv, TypeOK, HeldInv, GuardInv, DeadInv, Preflight, EndBeforeLocks, Writing,
     Wanted, Waiting, Outside, Guarded, Free, Locks, LockFiles
<1> QED
  BY <1>1, <1>2, <1>3, <1>4, <1>5, <1>6, <1>7, <1>8, <1>9, <1>10 DEF Inv

LEMMA CountdownKeeps ==
  ASSUME Inv, NEW r \in Runs, Countdown(r) PROVE Inv'
<1> USE NobodyIsNoProcess, ProcessesDiffer DEF Goto, Become, Raise, Bring, rows, locals, Processes
<1>1. TypeOK'
  BY BoundsAreNumbers DEF Inv, TypeOK, Countdown, EndBeforeLocks, States, TerminalStates,
     Steps, LockFiles, Free, Locks
<1>2. HeldInv'
  BY DEF Inv, TypeOK, HeldInv, Countdown, EndBeforeLocks, Writing, Wanted, Waiting,
     Outside, Guarded, Free, Locks, LockFiles
<1>3. GuardInv'
  BY DEF Inv, TypeOK, HeldInv, GuardInv, Countdown, EndBeforeLocks, Writing, Wanted,
     Guarded, Free, Locks, LockFiles
<1>4. FreshInv'
  BY BoundsAreNumbers DEF Inv, TypeOK, HeldInv, GuardInv, FreshInv, ProviderInv,
     Countdown, EndBeforeLocks, Writing, Wanted, Guarded, Free, Locks, LockFiles
<1>5. ProviderInv'
  BY DEF Inv, TypeOK, ProviderInv, Countdown, EndBeforeLocks
<1>6. OnlineInv'
  BY DEF Inv, TypeOK, OnlineInv, Countdown, EndBeforeLocks, Given, After, Guarded
<1>7. SucceedInv'
  BY DEF Inv, TypeOK, SucceedInv, GuardInv, Countdown, EndBeforeLocks, Guarded
<1>8. RowInv'
  BY DEF Inv, TypeOK, HeldInv, RowInv, Countdown, EndBeforeLocks, Writing, Wanted, Free,
     Locks, LockFiles, States, TerminalStates
<1>9. AttendInv'
  BY DEF Inv, TypeOK, HeldInv, GuardInv, ProviderInv, RowInv, AttendInv, Unattended,
     Countdown, EndBeforeLocks, Writing, Wanted, Guarded, Free, Locks, LockFiles
<1>10. DeadInv'
  BY DEF Inv, TypeOK, HeldInv, GuardInv, DeadInv, Countdown, EndBeforeLocks, Writing,
     Wanted, Waiting, Outside, Guarded, Free, Locks, LockFiles
<1> QED
  BY <1>1, <1>2, <1>3, <1>4, <1>5, <1>6, <1>7, <1>8, <1>9, <1>10 DEF Inv

LEMMA BringTargetOnlineKeeps ==
  ASSUME Inv, NEW r \in Runs, BringTargetOnline(r) PROVE Inv'
<1> USE NobodyIsNoProcess, ProcessesDiffer DEF Goto, Become, Raise, Bring, rows, locals, Processes
<1>1. TypeOK'
  <2> USE DEF Inv, TypeOK, Steps, States, TerminalStates
  <2>1. state' \in [Runs -> States] /\ pc' \in [Processes -> Steps]
    BY DEF BringTargetOnline
  <2>2. online' \in BOOLEAN /\ brought' \in [Runs -> {"no", "known", "lost"}]
    BY KeepOfflineIsFlag DEF BringTargetOnline
  <2> QED
    BY <2>1, <2>2 DEF BringTargetOnline
<1>2. HeldInv'
  BY DEF Inv, TypeOK, HeldInv, BringTargetOnline, Writing, Wanted, Waiting, Outside,
     Guarded, Free, Locks, LockFiles
<1>3. GuardInv'
  BY DEF Inv, TypeOK, HeldInv, GuardInv, BringTargetOnline, Writing, Wanted, Guarded,
     Free, Locks, LockFiles
<1>4. FreshInv'
  BY BoundsAreNumbers DEF Inv, TypeOK, HeldInv, GuardInv, FreshInv, ProviderInv,
     BringTargetOnline, Writing, Wanted, Guarded, Free, Locks, LockFiles
<1>5. ProviderInv'
  BY DEF Inv, TypeOK, ProviderInv, BringTargetOnline
<1>6. OnlineInv'
  BY DEF Inv, TypeOK, OnlineInv, BringTargetOnline, Given, After, Guarded
<1>7. SucceedInv'
  BY DEF Inv, TypeOK, SucceedInv, GuardInv, BringTargetOnline, Guarded
<1>8. RowInv'
  BY DEF Inv, TypeOK, HeldInv, RowInv, BringTargetOnline, Writing, Wanted, Free, Locks,
     LockFiles, States, TerminalStates
<1>9. AttendInv'
  BY DEF Inv, TypeOK, HeldInv, GuardInv, ProviderInv, RowInv, AttendInv, Unattended,
     BringTargetOnline, Writing, Wanted, Guarded, Free, Locks, LockFiles
<1>10. DeadInv'
  BY DEF Inv, TypeOK, HeldInv, GuardInv, DeadInv, BringTargetOnline, Writing, Wanted,
     Waiting, Outside, Guarded, Free, Locks, LockFiles
<1> QED
  BY <1>1, <1>2, <1>3, <1>4, <1>5, <1>6, <1>7, <1>8, <1>9, <1>10 DEF Inv

LEMMA RevalidateKeeps ==
  ASSUME Inv, NEW r \in Runs, Revalidate(r) PROVE Inv'
<1> USE NobodyIsNoProcess, ProcessesDiffer DEF Goto, Become, Raise, Bring, rows, locals, Processes
<1>1. TypeOK'
  BY BoundsAreNumbers DEF Inv, TypeOK, Revalidate, States, TerminalStates, Steps,
     LockFiles, Free, Locks
<1>2. HeldInv'
  BY DEF Inv, TypeOK, HeldInv, Revalidate, Writing, Wanted, Waiting, Outside, Guarded,
     Free, Locks, LockFiles
<1>3. GuardInv'
  BY DEF Inv, TypeOK, HeldInv, GuardInv, Revalidate, Writing, Wanted, Guarded, Free,
     Locks, LockFiles
<1>4. FreshInv'
  BY BoundsAreNumbers DEF Inv, TypeOK, HeldInv, GuardInv, FreshInv, ProviderInv,
     Revalidate, Writing, Wanted, Guarded, Free, Locks, LockFiles
<1>5. ProviderInv'
  BY DEF Inv, TypeOK, ProviderInv, Revalidate
<1>6. OnlineInv'
  BY DEF Inv, TypeOK, OnlineInv, Revalidate, Given, After, Guarded
<1>7. SucceedInv'
  BY DEF Inv, TypeOK, SucceedInv, GuardInv, Revalidate, Guarded
<1>8. RowInv'
  BY DEF Inv, TypeOK, HeldInv, RowInv, Revalidate, Writing, Wanted, Free, Locks,
     LockFiles, States, TerminalStates
<1>9. AttendInv'
  BY DEF Inv, TypeOK, HeldInv, GuardInv, ProviderInv, RowInv, AttendInv, Unattended,
     Revalidate, Writing, Wanted, Guarded, Free, Locks, LockFiles
<1>10. DeadInv'
  BY DEF Inv, TypeOK, HeldInv, GuardInv, DeadInv, Revalidate, Writing, Wanted, Waiting,
     Outside, Guarded, Free, Locks, LockFiles
<1> QED
  BY <1>1, <1>2, <1>3, <1>4, <1>5, <1>6, <1>7, <1>8, <1>9, <1>10 DEF Inv

LEMMA StartProviderKeeps ==
  ASSUME Inv, NEW r \in Runs, StartProvider(r) PROVE Inv'
<1> USE NobodyIsNoProcess, ProcessesDiffer DEF Goto, Become, Raise, Bring, rows, locals, Processes
<1>1. TypeOK'
  BY BoundsAreNumbers DEF Inv, TypeOK, StartProvider, States, TerminalStates, Steps,
     LockFiles, Free, Locks
<1>2. HeldInv'
  BY DEF Inv, TypeOK, HeldInv, StartProvider, Writing, Wanted, Waiting, Outside, Guarded,
     Free, Locks, LockFiles
<1>3. GuardInv'
  BY DEF Inv, TypeOK, HeldInv, GuardInv, StartProvider, Writing, Wanted, Guarded, Free,
     Locks, LockFiles
<1>4. FreshInv'
  BY BoundsAreNumbers DEF Inv, TypeOK, HeldInv, GuardInv, FreshInv, ProviderInv,
     StartProvider, Writing, Wanted, Guarded, Free, Locks, LockFiles
<1>5. ProviderInv'
  BY DEF Inv, TypeOK, ProviderInv, StartProvider
<1>6. OnlineInv'
  BY DEF Inv, TypeOK, OnlineInv, StartProvider, Given, After, Guarded
<1>7. SucceedInv'
  BY DEF Inv, TypeOK, SucceedInv, GuardInv, StartProvider, Guarded
<1>8. RowInv'
  BY DEF Inv, TypeOK, HeldInv, RowInv, StartProvider, Writing, Wanted, Free, Locks,
     LockFiles, States, TerminalStates
<1>9. AttendInv'
  BY DEF Inv, TypeOK, HeldInv, GuardInv, ProviderInv, RowInv, AttendInv, Unattended,
     StartProvider, Writing, Wanted, Guarded, Free, Locks, LockFiles
<1>10. DeadInv'
  BY DEF Inv, TypeOK, HeldInv, GuardInv, DeadInv, StartProvider, Writing, Wanted, Waiting,
     Outside, Guarded, Free, Locks, LockFiles
<1> QED
  BY <1>1, <1>2, <1>3, <1>4, <1>5, <1>6, <1>7, <1>8, <1>9, <1>10 DEF Inv

LEMMA SavePidKeeps ==
  ASSUME Inv, NEW r \in Runs, SavePid(r) PROVE Inv'
<1> USE NobodyIsNoProcess, ProcessesDiffer DEF Goto, Become, Raise, Bring, rows, locals, Processes
<1>1. TypeOK'
  BY BoundsAreNumbers DEF Inv, TypeOK, SavePid, States, TerminalStates, Steps, LockFiles,
     Free, Locks
<1>2. HeldInv'
  BY DEF Inv, TypeOK, HeldInv, SavePid, Writing, Wanted, Waiting, Outside, Guarded, Free,
     Locks, LockFiles
<1>3. GuardInv'
  BY DEF Inv, TypeOK, HeldInv, GuardInv, SavePid, Writing, Wanted, Guarded, Free, Locks,
     LockFiles
<1>4. FreshInv'
  BY BoundsAreNumbers DEF Inv, TypeOK, HeldInv, GuardInv, FreshInv, ProviderInv, SavePid,
     Writing, Wanted, Guarded, Free, Locks, LockFiles
<1>5. ProviderInv'
  BY DEF Inv, TypeOK, ProviderInv, SavePid
<1>6. OnlineInv'
  BY DEF Inv, TypeOK, OnlineInv, SavePid, Given, After, Guarded
<1>7. SucceedInv'
  BY DEF Inv, TypeOK, SucceedInv, GuardInv, SavePid, Guarded
<1>8. RowInv'
  BY DEF Inv, TypeOK, HeldInv, RowInv, SavePid, Writing, Wanted, Free, Locks, LockFiles,
     States, TerminalStates
<1>9. AttendInv'
  BY DEF Inv, TypeOK, HeldInv, GuardInv, ProviderInv, RowInv, AttendInv, Unattended,
     SavePid, Writing, Wanted, Guarded, Free, Locks, LockFiles
<1>10. DeadInv'
  BY DEF Inv, TypeOK, HeldInv, GuardInv, DeadInv, SavePid, Writing, Wanted, Waiting,
     Outside, Guarded, Free, Locks, LockFiles
<1> QED
  BY <1>1, <1>2, <1>3, <1>4, <1>5, <1>6, <1>7, <1>8, <1>9, <1>10 DEF Inv

LEMMA InspectResultKeeps ==
  ASSUME Inv, NEW r \in Runs, InspectResult(r) PROVE Inv'
<1> USE NobodyIsNoProcess, ProcessesDiffer DEF Goto, Become, Raise, Bring, rows, locals, Processes
<1>1. TypeOK'
  BY BoundsAreNumbers DEF Inv, TypeOK, InspectResult, States, TerminalStates, Steps,
     LockFiles, Free, Locks
<1>2. HeldInv'
  BY DEF Inv, TypeOK, HeldInv, InspectResult, Writing, Wanted, Waiting, Outside, Guarded,
     Free, Locks, LockFiles
<1>3. GuardInv'
  BY DEF Inv, TypeOK, HeldInv, GuardInv, InspectResult, Writing, Wanted, Guarded, Free,
     Locks, LockFiles
<1>4. FreshInv'
  BY BoundsAreNumbers DEF Inv, TypeOK, HeldInv, GuardInv, FreshInv, ProviderInv,
     InspectResult, Writing, Wanted, Guarded, Free, Locks, LockFiles
<1>5. ProviderInv'
  BY DEF Inv, TypeOK, ProviderInv, InspectResult
<1>6. OnlineInv'
  BY DEF Inv, TypeOK, OnlineInv, InspectResult, Given, After, Guarded
<1>7. SucceedInv'
  BY DEF Inv, TypeOK, SucceedInv, GuardInv, InspectResult, Guarded
<1>8. RowInv'
  BY DEF Inv, TypeOK, HeldInv, RowInv, InspectResult, Writing, Wanted, Free, Locks,
     LockFiles, States, TerminalStates
<1>9. AttendInv'
  BY DEF Inv, TypeOK, HeldInv, GuardInv, ProviderInv, RowInv, AttendInv, Unattended,
     InspectResult, Writing, Wanted, Guarded, Free, Locks, LockFiles
<1>10. DeadInv'
  BY DEF Inv, TypeOK, HeldInv, GuardInv, DeadInv, InspectResult, Writing, Wanted, Waiting,
     Outside, Guarded, Free, Locks, LockFiles
<1> QED
  BY <1>1, <1>2, <1>3, <1>4, <1>5, <1>6, <1>7, <1>8, <1>9, <1>10 DEF Inv

LEMMA VerifyTargetKeeps ==
  ASSUME Inv, NEW r \in Runs, VerifyTarget(r) PROVE Inv'
<1> USE NobodyIsNoProcess, ProcessesDiffer DEF Goto, Become, Raise, Bring, rows, locals, Processes
<1>1. TypeOK'
  BY BoundsAreNumbers DEF Inv, TypeOK, VerifyTarget, States, TerminalStates, Steps,
     LockFiles, Free, Locks
<1>2. HeldInv'
  BY DEF Inv, TypeOK, HeldInv, VerifyTarget, Writing, Wanted, Waiting, Outside, Guarded,
     Free, Locks, LockFiles
<1>3. GuardInv'
  BY DEF Inv, TypeOK, HeldInv, GuardInv, VerifyTarget, Writing, Wanted, Guarded, Free,
     Locks, LockFiles
<1>4. FreshInv'
  BY BoundsAreNumbers DEF Inv, TypeOK, HeldInv, GuardInv, FreshInv, ProviderInv,
     VerifyTarget, Writing, Wanted, Guarded, Free, Locks, LockFiles
<1>5. ProviderInv'
  BY DEF Inv, TypeOK, ProviderInv, VerifyTarget
<1>6. OnlineInv'
  BY DEF Inv, TypeOK, OnlineInv, VerifyTarget, Given, After, Guarded
<1>7. SucceedInv'
  BY DEF Inv, TypeOK, SucceedInv, GuardInv, VerifyTarget, Guarded
<1>8. RowInv'
  BY DEF Inv, TypeOK, HeldInv, RowInv, VerifyTarget, Writing, Wanted, Free, Locks,
     LockFiles, States, TerminalStates
<1>9. AttendInv'
  BY DEF Inv, TypeOK, HeldInv, GuardInv, ProviderInv, RowInv, AttendInv, Unattended,
     VerifyTarget, Writing, Wanted, Guarded, Free, Locks, LockFiles
<1>10. DeadInv'
  BY DEF Inv, TypeOK, HeldInv, GuardInv, DeadInv, VerifyTarget, Writing, Wanted, Waiting,
     Outside, Guarded, Free, Locks, LockFiles
<1> QED
  BY <1>1, <1>2, <1>3, <1>4, <1>5, <1>6, <1>7, <1>8, <1>9, <1>10 DEF Inv

LEMMA ReturnTargetOfflineKeeps ==
  ASSUME Inv, NEW r \in Runs, ReturnTargetOffline(r) PROVE Inv'
<1> USE NobodyIsNoProcess, ProcessesDiffer DEF Goto, Become, Raise, Bring, rows, locals, Processes
<1>1. TypeOK'
  BY BoundsAreNumbers DEF Inv, TypeOK, ReturnTargetOffline, States, TerminalStates, Steps,
     LockFiles, Free, Locks
<1>2. HeldInv'
  BY DEF Inv, TypeOK, HeldInv, ReturnTargetOffline, Writing, Wanted, Waiting, Outside,
     Guarded, Free, Locks, LockFiles
<1>3. GuardInv'
  BY DEF Inv, TypeOK, HeldInv, GuardInv, ReturnTargetOffline, Writing, Wanted, Guarded,
     Free, Locks, LockFiles
<1>4. FreshInv'
  BY BoundsAreNumbers DEF Inv, TypeOK, HeldInv, GuardInv, FreshInv, ProviderInv,
     ReturnTargetOffline, Writing, Wanted, Guarded, Free, Locks, LockFiles
<1>5. ProviderInv'
  BY DEF Inv, TypeOK, ProviderInv, ReturnTargetOffline
<1>6. OnlineInv'
  BY DEF Inv, TypeOK, OnlineInv, ReturnTargetOffline, Given, After, Guarded
<1>7. SucceedInv'
  BY DEF Inv, TypeOK, SucceedInv, GuardInv, ReturnTargetOffline, Guarded
<1>8. RowInv'
  BY DEF Inv, TypeOK, HeldInv, RowInv, ReturnTargetOffline, Writing, Wanted, Free, Locks,
     LockFiles, States, TerminalStates
<1>9. AttendInv'
  BY DEF Inv, TypeOK, HeldInv, GuardInv, ProviderInv, RowInv, AttendInv, Unattended,
     ReturnTargetOffline, Writing, Wanted, Guarded, Free, Locks, LockFiles
<1>10. DeadInv'
  BY DEF Inv, TypeOK, HeldInv, GuardInv, DeadInv, ReturnTargetOffline, Writing, Wanted,
     Waiting, Outside, Guarded, Free, Locks, LockFiles
<1> QED
  BY <1>1, <1>2, <1>3, <1>4, <1>5, <1>6, <1>7, <1>8, <1>9, <1>10 DEF Inv

LEMMA MarkSuccessKeeps ==
  ASSUME Inv, NEW r \in Runs, MarkSuccess(r) PROVE Inv'
<1> USE NobodyIsNoProcess, ProcessesDiffer DEF Goto, Become, Raise, Bring, rows, locals, Processes
<1>1. TypeOK'
  BY BoundsAreNumbers DEF Inv, TypeOK, MarkSuccess, States, TerminalStates, Steps,
     LockFiles, Free, Locks
<1>2. HeldInv'
  BY DEF Inv, TypeOK, HeldInv, MarkSuccess, Writing, Wanted, Waiting, Outside, Guarded,
     Free, Locks, LockFiles
<1>3. GuardInv'
  BY DEF Inv, TypeOK, HeldInv, GuardInv, MarkSuccess, Writing, Wanted, Guarded, Free,
     Locks, LockFiles
<1>4. FreshInv'
  BY BoundsAreNumbers DEF Inv, TypeOK, HeldInv, GuardInv, FreshInv, ProviderInv,
     MarkSuccess, Writing, Wanted, Guarded, Free, Locks, LockFiles
<1>5. ProviderInv'
  BY DEF Inv, TypeOK, ProviderInv, MarkSuccess
<1>6. OnlineInv'
  BY DEF Inv, TypeOK, OnlineInv, MarkSuccess, Given, After, Guarded
<1>7. SucceedInv'
  BY DEF Inv, TypeOK, SucceedInv, GuardInv, MarkSuccess, Guarded
<1>8. RowInv'
  BY DEF Inv, TypeOK, HeldInv, RowInv, MarkSuccess, Writing, Wanted, Free, Locks,
     LockFiles, States, TerminalStates
<1>9. AttendInv'
  BY DEF Inv, TypeOK, HeldInv, GuardInv, ProviderInv, RowInv, AttendInv, Unattended,
     MarkSuccess, Writing, Wanted, Guarded, Free, Locks, LockFiles
<1>10. DeadInv'
  BY DEF Inv, TypeOK, HeldInv, GuardInv, DeadInv, MarkSuccess, Writing, Wanted, Waiting,
     Outside, Guarded, Free, Locks, LockFiles
<1> QED
  BY <1>1, <1>2, <1>3, <1>4, <1>5, <1>6, <1>7, <1>8, <1>9, <1>10 DEF Inv

LEMMA CloseRunKeeps ==
  ASSUME Inv, NEW r \in Runs, CloseRun(r) PROVE Inv'
<1> USE NobodyIsNoProcess, ProcessesDiffer DEF Goto, Become, Raise, Bring, rows, locals, Processes
<1>1. TypeOK'
  BY BoundsAreNumbers DEF Inv, TypeOK, CloseRun, States, TerminalStates, Steps, LockFiles,
     Free, Locks
<1>2. HeldInv'
  BY DEF Inv, TypeOK, HeldInv, CloseRun, Writing, Wanted, Waiting, Outside, Guarded, Free,
     Locks, LockFiles
<1>3. GuardInv'
  BY DEF Inv, TypeOK, HeldInv, GuardInv, CloseRun, Writing, Wanted, Guarded, Free, Locks,
     LockFiles
<1>4. FreshInv'
  BY BoundsAreNumbers DEF Inv, TypeOK, HeldInv, GuardInv, FreshInv, ProviderInv, CloseRun,
     Writing, Wanted, Guarded, Free, Locks, LockFiles
<1>5. ProviderInv'
  BY DEF Inv, TypeOK, ProviderInv, CloseRun
<1>6. OnlineInv'
  BY DEF Inv, TypeOK, OnlineInv, CloseRun, Given, After, Guarded
<1>7. SucceedInv'
  BY DEF Inv, TypeOK, SucceedInv, GuardInv, CloseRun, Guarded
<1>8. RowInv'
  BY DEF Inv, TypeOK, HeldInv, RowInv, CloseRun, Writing, Wanted, Free, Locks, LockFiles,
     States, TerminalStates
<1>9. AttendInv'
  BY DEF Inv, TypeOK, HeldInv, GuardInv, ProviderInv, RowInv, AttendInv, Unattended,
     CloseRun, Writing, Wanted, Guarded, Free, Locks, LockFiles
<1>10. DeadInv'
  BY DEF Inv, TypeOK, HeldInv, GuardInv, DeadInv, CloseRun, Writing, Wanted, Waiting,
     Outside, Guarded, Free, Locks, LockFiles
<1> QED
  BY <1>1, <1>2, <1>3, <1>4, <1>5, <1>6, <1>7, <1>8, <1>9, <1>10 DEF Inv

LEMMA CleanUpKeeps ==
  ASSUME Inv, NEW r \in Runs, CleanUp(r) PROVE Inv'
<1> USE NobodyIsNoProcess, ProcessesDiffer DEF Goto, Become, Raise, Bring, rows, locals, Processes
<1>1. TypeOK'
  BY BoundsAreNumbers DEF Inv, TypeOK, CleanUp, States, TerminalStates, Steps, LockFiles,
     Free, Locks
<1>2. HeldInv'
  BY DEF Inv, TypeOK, HeldInv, CleanUp, Writing, Wanted, Waiting, Outside, Guarded, Free,
     Locks, LockFiles
<1>3. GuardInv'
  BY DEF Inv, TypeOK, HeldInv, GuardInv, CleanUp, Writing, Wanted, Guarded, Free, Locks,
     LockFiles
<1>4. FreshInv'
  BY BoundsAreNumbers DEF Inv, TypeOK, HeldInv, GuardInv, FreshInv, ProviderInv, CleanUp,
     Writing, Wanted, Guarded, Free, Locks, LockFiles
<1>5. ProviderInv'
  BY DEF Inv, TypeOK, ProviderInv, CleanUp
<1>6. OnlineInv'
  BY DEF Inv, TypeOK, OnlineInv, CleanUp, Given, After, Guarded
<1>7. SucceedInv'
  BY DEF Inv, TypeOK, SucceedInv, GuardInv, CleanUp, Guarded
<1>8. RowInv'
  <2>1. UNCHANGED <<file, old>> /\ \A q \in Runs : state[q] # "none" => state'[q] # "none"
    BY DEF Inv, TypeOK, CleanUp
  <2>2. \A q \in Runs : pc'[q] \notin {"idle", "reconcile", "dead"} => pc[q] \notin {"idle", "reconcile", "dead"}
    BY DEF Inv, TypeOK, CleanUp
  <2> QED
    BY <2>1, <2>2 DEF Inv, RowInv
<1>9. AttendInv'
  BY DEF Inv, TypeOK, HeldInv, GuardInv, ProviderInv, RowInv, AttendInv, Unattended,
     CleanUp, Writing, Wanted, Guarded, Free, Locks, LockFiles
<1>10. DeadInv'
  BY DEF Inv, TypeOK, HeldInv, GuardInv, DeadInv, CleanUp, Writing, Wanted, Waiting,
     Outside, Guarded, Free, Locks, LockFiles
<1> QED
  BY <1>1, <1>2, <1>3, <1>4, <1>5, <1>6, <1>7, <1>8, <1>9, <1>10 DEF Inv

LEMMA ReleaseCloneKeeps ==
  ASSUME Inv, NEW r \in Runs, ReleaseClone(r) PROVE Inv'
<1> USE NobodyIsNoProcess, ProcessesDiffer DEF Goto, Become, Raise, Bring, rows, locals, Processes
<1>1. TypeOK'
  BY BoundsAreNumbers DEF Inv, TypeOK, ReleaseClone, States, TerminalStates, Steps,
     LockFiles, Free, Locks
<1>2. HeldInv'
  BY DEF Inv, TypeOK, HeldInv, ReleaseClone, Writing, Wanted, Waiting, Outside, Guarded,
     Free, Locks, LockFiles
<1>3. GuardInv'
  BY DEF Inv, TypeOK, HeldInv, GuardInv, ReleaseClone, Writing, Wanted, Guarded, Free,
     Locks, LockFiles
<1>4. FreshInv'
  BY BoundsAreNumbers DEF Inv, TypeOK, HeldInv, GuardInv, FreshInv, ProviderInv,
     ReleaseClone, Writing, Wanted, Guarded, Free, Locks, LockFiles
<1>5. ProviderInv'
  BY DEF Inv, TypeOK, ProviderInv, ReleaseClone
<1>6. OnlineInv'
  BY DEF Inv, TypeOK, OnlineInv, ReleaseClone, Given, After, Guarded
<1>7. SucceedInv'
  BY DEF Inv, TypeOK, SucceedInv, GuardInv, ReleaseClone, Guarded
<1>8. RowInv'
  BY DEF Inv, TypeOK, HeldInv, RowInv, ReleaseClone, Writing, Wanted, Free, Locks,
     LockFiles, States, TerminalStates
<1>9. AttendInv'
  BY DEF Inv, TypeOK, HeldInv, GuardInv, ProviderInv, RowInv, AttendInv, Unattended,
     ReleaseClone, Writing, Wanted, Guarded, Free, Locks, LockFiles
<1>10. DeadInv'
  BY DEF Inv, TypeOK, HeldInv, GuardInv, DeadInv, ReleaseClone, Writing, Wanted, Waiting,
     Outside, Guarded, Free, Locks, LockFiles
<1> QED
  BY <1>1, <1>2, <1>3, <1>4, <1>5, <1>6, <1>7, <1>8, <1>9, <1>10 DEF Inv

LEMMA ProviderEndsKeeps ==
  ASSUME Inv, NEW r \in Runs, ProviderEnds(r) PROVE Inv'
<1> USE NobodyIsNoProcess, ProcessesDiffer DEF Goto, Become, Raise, Bring, rows, locals, Processes
<1>1. TypeOK'
  BY BoundsAreNumbers DEF Inv, TypeOK, ProviderEnds, States, TerminalStates, Steps,
     LockFiles, Free, Locks
<1>2. HeldInv'
  BY DEF Inv, TypeOK, HeldInv, ProviderEnds, Writing, Wanted, Waiting, Outside, Guarded,
     Free, Locks, LockFiles
<1>3. GuardInv'
  BY DEF Inv, TypeOK, HeldInv, GuardInv, ProviderEnds, Writing, Wanted, Guarded, Free,
     Locks, LockFiles
<1>4. FreshInv'
  BY BoundsAreNumbers DEF Inv, TypeOK, HeldInv, GuardInv, FreshInv, ProviderInv,
     ProviderEnds, Writing, Wanted, Guarded, Free, Locks, LockFiles
<1>5. ProviderInv'
  BY DEF Inv, TypeOK, ProviderInv, ProviderEnds
<1>6. OnlineInv'
  BY DEF Inv, TypeOK, OnlineInv, ProviderEnds, Given, After, Guarded
<1>7. SucceedInv'
  BY DEF Inv, TypeOK, SucceedInv, GuardInv, ProviderEnds, Guarded
<1>8. RowInv'
  BY DEF Inv, TypeOK, HeldInv, RowInv, ProviderEnds, Writing, Wanted, Free, Locks,
     LockFiles, States, TerminalStates
<1>9. AttendInv'
  BY DEF Inv, TypeOK, HeldInv, GuardInv, ProviderInv, RowInv, AttendInv, Unattended,
     ProviderEnds, Writing, Wanted, Guarded, Free, Locks, LockFiles
<1>10. DeadInv'
  BY DEF Inv, TypeOK, HeldInv, GuardInv, DeadInv, ProviderEnds, Writing, Wanted, Waiting,
     Outside, Guarded, Free, Locks, LockFiles
<1> QED
  BY <1>1, <1>2, <1>3, <1>4, <1>5, <1>6, <1>7, <1>8, <1>9, <1>10 DEF Inv

LEMMA BeginImportKeeps ==
  ASSUME Inv, NEW p \in Importers, BeginImport(p) PROVE Inv'
<1> USE NobodyIsNoProcess, ProcessesDiffer DEF Goto, Become, Raise, Bring, rows, locals, Processes
<1>1. TypeOK'
  BY BoundsAreNumbers DEF Inv, TypeOK, BeginImport, States, TerminalStates, Steps,
     LockFiles, Free, Locks
<1>2. HeldInv'
  BY DEF Inv, TypeOK, HeldInv, BeginImport, Writing, Wanted, Waiting, Outside, Guarded,
     Free, Locks, LockFiles
<1>3. GuardInv'
  BY DEF Inv, TypeOK, HeldInv, GuardInv, BeginImport, Writing, Wanted, Guarded, Free,
     Locks, LockFiles
<1>4. FreshInv'
  BY BoundsAreNumbers DEF Inv, TypeOK, HeldInv, GuardInv, FreshInv, ProviderInv,
     BeginImport, Writing, Wanted, Guarded, Free, Locks, LockFiles
<1>5. ProviderInv'
  BY DEF Inv, TypeOK, ProviderInv, BeginImport
<1>6. OnlineInv'
  BY DEF Inv, TypeOK, OnlineInv, BeginImport, Given, After, Guarded
<1>7. SucceedInv'
  BY DEF Inv, TypeOK, SucceedInv, GuardInv, BeginImport, Guarded
<1>8. RowInv'
  BY DEF Inv, TypeOK, HeldInv, RowInv, BeginImport, Writing, Wanted, Free, Locks,
     LockFiles, States, TerminalStates
<1>9. AttendInv'
  BY DEF Inv, TypeOK, HeldInv, GuardInv, ProviderInv, RowInv, AttendInv, Unattended,
     BeginImport, Writing, Wanted, Guarded, Free, Locks, LockFiles
<1>10. DeadInv'
  BY DEF Inv, TypeOK, HeldInv, GuardInv, DeadInv, BeginImport, Writing, Wanted, Waiting,
     Outside, Guarded, Free, Locks, LockFiles
<1> QED
  BY <1>1, <1>2, <1>3, <1>4, <1>5, <1>6, <1>7, <1>8, <1>9, <1>10 DEF Inv

LEMMA TwelveHoursPassKeeps ==
  ASSUME Inv, TwelveHoursPass PROVE Inv'
<1> USE NobodyIsNoProcess, ProcessesDiffer DEF Goto, Become, Raise, Bring, rows, locals, Processes
<1>1. TypeOK'
  <2> USE DEF Inv, TypeOK, TwelveHoursPass
  <2>1. file' \in [Locks -> LockFiles]
    BY LockFilesAre
  <2>2. halfDays' \in 0..MaxHalfDays
    BY BoundsAreNumbers
  <2>3. old' \in [Runs -> BOOLEAN]
    OBVIOUS
  <2> QED
    BY <2>1, <2>2, <2>3
<1>2. HeldInv'
  BY DEF Inv, TypeOK, HeldInv, TwelveHoursPass, Writing, Wanted, Waiting, Outside,
     Guarded, Free, Locks, LockFiles
<1>3. GuardInv'
  BY DEF Inv, TypeOK, HeldInv, GuardInv, TwelveHoursPass, Writing, Wanted, Guarded, Free,
     Locks, LockFiles
<1>4. FreshInv'
  BY BoundsAreNumbers DEF Inv, TypeOK, HeldInv, GuardInv, FreshInv, ProviderInv,
     TwelveHoursPass, Writing, Wanted, Guarded, Free, Locks, LockFiles
<1>5. ProviderInv'
  BY DEF Inv, TypeOK, ProviderInv, TwelveHoursPass
<1>6. OnlineInv'
  BY DEF Inv, TypeOK, OnlineInv, TwelveHoursPass, Given, After, Guarded
<1>7. SucceedInv'
  BY DEF Inv, TypeOK, SucceedInv, GuardInv, TwelveHoursPass, Guarded
<1>8. RowInv'
  <2>1. UNCHANGED <<state, pc>> /\ \A r \in Runs : old'[r] = (old[r] \/ state[r] # "none")
    BY DEF TwelveHoursPass
  <2>2. \A l \in Locks : file[l] = Free \/ file'[l].owner = file[l].owner
    BY DEF Inv, TypeOK, TwelveHoursPass, LockFiles, Free
  <2>3. \A l \in Locks : file[l] = Free => file'[l].owner \notin Runs
    BY DEF TwelveHoursPass, Free
  <2> QED
    BY <2>1, <2>2, <2>3 DEF Inv, RowInv
<1>9. AttendInv'
  BY DEF Inv, TypeOK, HeldInv, GuardInv, ProviderInv, RowInv, AttendInv, Unattended,
     TwelveHoursPass, Writing, Wanted, Guarded, Free, Locks, LockFiles
<1>10. DeadInv'
  BY DEF Inv, TypeOK, HeldInv, GuardInv, DeadInv, TwelveHoursPass, Writing, Wanted,
     Waiting, Outside, Guarded, Free, Locks, LockFiles
<1> QED
  BY <1>1, <1>2, <1>3, <1>4, <1>5, <1>6, <1>7, <1>8, <1>9, <1>10 DEF Inv

----------------------------------------------------------------------------
LEMMA LockStepKeeps ==
  ASSUME Inv, NEW p \in Processes, LockStep(p) PROVE Inv'
BY TryLockKeeps, UnlinkLockKeeps, CreateLockKeeps, WriteLockKeeps, ReleaseBackupKeeps
   DEF LockStep

LEMMA RunStepKeeps ==
  ASSUME Inv, NEW r \in Runs, RunStep(r) PROVE Inv'
BY ReconcileRowKeeps, CreateRunKeeps, PreflightKeeps, CountdownKeeps,
   BringTargetOnlineKeeps,
  RevalidateKeeps, StartProviderKeeps, SavePidKeeps, InspectResultKeeps, VerifyTargetKeeps,
  ReturnTargetOfflineKeeps, MarkSuccessKeeps, CloseRunKeeps, CleanUpKeeps, ReleaseCloneKeeps DEF RunStep

LEMMA StepKeeps == Inv /\ [Next]_vars => Inv'
<1> SUFFICES ASSUME Inv, [Next]_vars PROVE Inv'
  OBVIOUS
<1>1. CASE UNCHANGED vars
  BY <1>1 DEF vars, Inv, TypeOK, HeldInv, GuardInv, FreshInv, ProviderInv, OnlineInv,
     SucceedInv,
    RowInv, AttendInv, DeadInv, Unattended, Writing, Wanted
<1>2. ASSUME NEW p \in Processes, LockStep(p) \/ Crash(p) PROVE Inv'
  BY <1>2, LockStepKeeps, CrashKeeps
<1>3. ASSUME NEW r \in Runs, BeginExecute(r) \/ RunStep(r) \/ ProviderEnds(r) PROVE Inv'
  BY <1>3, BeginExecuteKeeps, RunStepKeeps, ProviderEndsKeeps
<1>4. ASSUME NEW p \in Importers, BeginImport(p) PROVE Inv'
  BY <1>4, BeginImportKeeps
<1>5. CASE TwelveHoursPass
  BY <1>5, TwelveHoursPassKeeps
<1> QED
  BY <1>1, <1>2, <1>3, <1>4, <1>5 DEF Next

LEMMA AlwaysInv == Spec => []Inv
BY InitInv, StepKeeps, PTL DEF Spec

(* The rows, the lock files and what the processes believe to hold keep     *)
(* their types (disk_clone.py:60-110, locks.py:20-60).                      *)
THEOREM ServiceTypeCorrect == Spec => []TypeOK
<1>1. Inv => TypeOK
  BY DEF Inv
<1> QED
  BY <1>1, AlwaysInv, PTL

(* Two live runs never have the target both, however many hours, crashes    *)
(* and take-overs there are, unless a lock was unlinked by mistake.         *)
THEOREM OneGuarded == Spec => []OneLiveRunGuarded
<1>1. Inv => OneLiveRunGuarded
  BY DEF Inv, GuardInv, OneLiveRunGuarded
<1> QED
  BY <1>1, AlwaysInv, PTL

(* A clone lock that is not the abandoned one is unlinked only after a      *)
(* process has died and twelve hours have passed.                           *)
THEOREM TakenFromTheDead == Spec => []OnlyTheDeadAreRobbed
<1>1. Inv => OnlyTheDeadAreRobbed
  BY DEF Inv, TypeOK, FreshInv, DeadInv, OnlyTheDeadAreRobbed
<1> QED
  BY <1>1, AlwaysInv, PTL

(* A provider whose run waits for it, or has been dead for less than twelve *)
(* hours, keeps every other one out.                                        *)
THEOREM OneProvider == Spec => []OneProviderAtATime
<1>1. Inv => OneProviderAtATime
  BY DEF Inv, AttendInv, OneProviderAtATime
<1> QED
  BY <1>1, AlwaysInv, PTL

(* In the first twelve hours no import has the vault while a run has the    *)
(* target.                                                                  *)
THEOREM ImportsAreExcluded == Spec => []ImportExcludesClone
<1>1. Inv => ImportExcludesClone
  <2> SUFFICES ASSUME Inv, halfDays = 0, NEW p \in Importers, NEW r \in Runs,
                      pc[p] = "leave", held[p] # {}, pc[r] \in Guarded
               PROVE  FALSE
    BY DEF ImportExcludesClone
  <2>1. "backup" \in held[r] /\ file["backup"].owner = r
    BY DEF Inv, HeldInv, FreshInv, Processes
  <2>2. "backup" \in held[p]
    BY DEF Inv, TypeOK, HeldInv, Waiting, Locks, Processes
  <2>3. file["backup"].owner = p
    BY <2>2 DEF Inv, FreshInv, Processes
  <2> QED
    BY <2>1, <2>3, ProcessesDiffer
<1> QED
  BY <1>1, AlwaysInv, PTL

(* Every way out of a run or an import, the escaping OSError included,      *)
(* leaves neither a lock nor a file of its own.                             *)
THEOREM EndedIsUnlocked == Spec => []EndedHoldsNoLock
<1>1. Inv => EndedHoldsNoLock
  BY DEF Inv, HeldInv, EndedHoldsNoLock, Outside, Writing
<1> QED
  BY <1>1, AlwaysInv, PTL

(* At rest the target is offline, or a run tells why it is not.             *)
THEOREM OfflineAtRest == Spec => []TargetOfflineAtRest
<1>1. Inv => TargetOfflineAtRest
  <2> SUFFICES ASSUME Inv, KeepOffline, \A p \in Processes : pc[p] \in {"idle", "done"}, online
               PROVE  \E r \in Runs : state[r] \in {"failed_offline_cleanup", "interrupted"}
                                       \/ brought[r] = "lost"
    BY DEF TargetOfflineAtRest
  <2>1. PICK r \in Runs : brought[r] # "no" \/ (state[r] \in Given /\ pc[r] \in After)
    BY DEF Inv, OnlineInv
  <2>2. brought[r] # "known"
    BY DEF Inv, OnlineInv, Guarded, Processes
  <2>3. brought[r] \in {"no", "known", "lost"}
    BY DEF Inv, TypeOK
  <2> QED
    BY <2>1, <2>2, <2>3 DEF Given
<1> QED
  BY <1>1, AlwaysInv, PTL

(* A run that becomes a success has the end of its own provider behind it   *)
(* and the target offline: no other run has brought it online in between.   *)
THEOREM SuccessAtRest == Spec => SuccessIsAtRest
<1>1. ASSUME Inv, [Next]_vars, NEW r \in Runs, ~stolen, state[r] # "success", state'[r] = "success"
      PROVE  prov[r] = "good" /\ (KeepOffline => ~online)
  <2> USE DEF Inv, TypeOK, Become, Raise, Bring, Goto, rows, locals
  <2>1. CASE UNCHANGED vars
    BY <1>1, <2>1 DEF vars
  <2>2. ASSUME NEW p \in Processes, LockStep(p) \/ Crash(p) PROVE FALSE
    BY <1>1, <2>2 DEF LockStep, TryLock, CreateFile, Refused, UnlinkLock, CreateLock,
       WriteLock,
      ReleaseBackup, Crash
  <2>3. ASSUME NEW q \in Runs, BeginExecute(q) \/ ProviderEnds(q) \/ ReleaseClone(q) PROVE FALSE
    BY <1>1, <2>3 DEF BeginExecute, ProviderEnds, ReleaseClone
  <2>4. ASSUME NEW q \in Runs, \/ ReconcileRow(q) \/ CreateRun(q) \/ Preflight(q) \/ Countdown(q)
                               \/ BringTargetOnline(q) \/ Revalidate(q) \/ StartProvider(q)
        PROVE FALSE
    <3>1. ~ReconcileRow(q)
      BY <1>1 DEF ReconcileRow
    <3>2. ~CreateRun(q) /\ ~Preflight(q) /\ ~Countdown(q)
      BY <1>1 DEF CreateRun, Preflight, Countdown, EndBeforeLocks
    <3>3. ~BringTargetOnline(q) /\ ~Revalidate(q) /\ ~StartProvider(q)
      BY <1>1 DEF BringTargetOnline, Revalidate, StartProvider
    <3> QED
      BY <2>4, <3>1, <3>2, <3>3
  <2>5. ASSUME NEW q \in Runs, \/ SavePid(q) \/ InspectResult(q) \/ VerifyTarget(q)
                               \/ ReturnTargetOffline(q) \/ CleanUp(q) \/ CloseRun(q)
        PROVE FALSE
    <3>1. ~SavePid(q) /\ ~InspectResult(q)
      BY <1>1 DEF SavePid, InspectResult
    <3>2. ~VerifyTarget(q)
      BY <1>1 DEF VerifyTarget
    <3>3. ~ReturnTargetOffline(q) /\ ~CleanUp(q) /\ ~CloseRun(q)
      BY <1>1 DEF ReturnTargetOffline, CleanUp, CloseRun
    <3> QED
      BY <2>5, <3>1, <3>2, <3>3
  <2>6. ASSUME NEW q \in Runs, MarkSuccess(q) PROVE prov[r] = "good" /\ (KeepOffline => ~online)
    <3>1. q = r /\ pc[r] = "succeed"
      BY <1>1, <2>6 DEF MarkSuccess
    <3> QED
      BY <1>1, <3>1 DEF ProviderInv, SucceedInv
  <2>7. ASSUME NEW p \in Importers, BeginImport(p) PROVE FALSE
    BY <1>1, <2>7 DEF BeginImport
  <2>8. CASE TwelveHoursPass
    BY <1>1, <2>8 DEF TwelveHoursPass
  <2> QED
    BY <1>1, <2>1, <2>2, <2>3, <2>4, <2>5, <2>6, <2>7, <2>8 DEF Next, RunStep
<1>2. Inv /\ [Next]_vars =>
        [\A r \in Runs : ~stolen /\ state[r] # "success" /\ state'[r] = "success" =>
           prov[r] = "good" /\ (KeepOffline => ~online)]_vars
  BY <1>1
<1> QED
  BY <1>2, AlwaysInv, PTL DEF Spec, SuccessIsAtRest

(* The target goes offline at the hands of the run that has the clone lock: *)
(* a provider that runs at that moment is one that nobody waits for.        *)
THEOREM NeverUnderProvider == Spec => NeverOfflineUnderProvider
<1>1. ASSUME Inv, [Next]_vars, ~stolen, online, ~online', NEW q \in Runs, prov[q] = "running"
      PROVE  Unattended(q)
  <2>1. PICK r \in Runs : ReturnTargetOffline(r) \/ CleanUp(r)
    <3>1. ~UNCHANGED vars
      BY <1>1 DEF vars
    <3>2. \A p \in Processes : ~LockStep(p) /\ ~Crash(p)
      BY <1>1 DEF LockStep, TryLock, UnlinkLock, CreateLock, WriteLock, ReleaseBackup, Crash
    <3>3. \A p \in Importers : ~BeginImport(p)
      BY <1>1 DEF BeginImport
    <3>4. ~TwelveHoursPass
      BY <1>1 DEF TwelveHoursPass
    <3>5. PICK r \in Runs : BeginExecute(r) \/ RunStep(r) \/ ProviderEnds(r)
      BY <1>1, <3>1, <3>2, <3>3, <3>4 DEF Next
    <3>6. ~BeginExecute(r) /\ ~ProviderEnds(r)
      BY <1>1 DEF BeginExecute, ProviderEnds
    <3>7. /\ ~ReconcileRow(r) /\ ~CreateRun(r) /\ ~Preflight(r) /\ ~Countdown(r)
          /\ ~BringTargetOnline(r) /\ ~Revalidate(r) /\ ~StartProvider(r) /\ ~SavePid(r)
          /\ ~InspectResult(r) /\ ~VerifyTarget(r) /\ ~MarkSuccess(r) /\ ~CloseRun(r) /\ ~ReleaseClone(r)
      BY <1>1 DEF ReconcileRow, CreateRun, Preflight, Countdown, BringTargetOnline,
         Revalidate,
        StartProvider, SavePid, InspectResult, VerifyTarget, MarkSuccess, CloseRun,
        ReleaseClone
    <3> QED
      BY <3>5, <3>6, <3>7 DEF RunStep
  <2>2. pc[r] \in {"return", "cleanup"}
    BY <2>1 DEF ReturnTargetOffline, CleanUp
  <2>3. file["clone"].owner = r
    BY <1>1, <2>2 DEF Inv, GuardInv, Guarded
  <2>4. q = r \/ Unattended(q)
    BY <1>1, <2>3 DEF Inv, AttendInv
  <2> QED
    BY <1>1, <2>2, <2>4 DEF Inv, ProviderInv, Unattended
<1>2. Inv /\ [Next]_vars =>
        [~stolen /\ online /\ ~online' => \A r \in Runs : prov[r] = "running" => Unattended(r)]_vars
  BY <1>1
<1> QED
  BY <1>2, AlwaysInv, PTL DEF Spec, NeverOfflineUnderProvider

(* One user of the target at a time, in the senses above.                   *)
THEOREM Exclusive == Spec => []CloneIsExclusive
BY OneGuarded, TakenFromTheDead, OneProvider, ImportsAreExcluded, PTL DEF CloneIsExclusive

(* The provider ends before the target goes offline and the run succeeds.   *)
THEOREM ProviderFirst == Spec => ProviderIsWaitedFor
BY NeverUnderProvider, SuccessAtRest, PTL DEF ProviderIsWaitedFor
=============================================================================
