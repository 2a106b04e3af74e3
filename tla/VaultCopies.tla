----------------------------- MODULE VaultCopies ----------------------------
(***************************************************************************)
(* Copies of the vault: the replica, which is planned without the vault     *)
(* lock and executed under it, and the restore of indexed files to a folder *)
(* of the owner, which takes no lock.  Commands run beside each other and   *)
(* beside what changes the vault: imports (under the lock), and the         *)
(* cleaning of the index, rename-gmail-files, the viewer and the owner      *)
(* (without it).                                                            *)
(*                                                                         *)
(* The contents of files are numbered as they come; 0 is no file.           *)
(***************************************************************************)
EXTENDS Integers, FiniteSets

CONSTANTS
  Files,       \* names under the vault
  Commands,    \* processes
  MaxVersion,  \* contents (bound of the model)
  MaxChanges,  \* changes of the vault or the restore folder (bound of the model)
  MaxStarts,   \* commands started (bound of the model)
  MaxCrashes   \* processes cut off (bound of the model)

ASSUME LimitsAreNatural ==
  MaxVersion \in Nat /\ MaxChanges \in Nat /\ MaxStarts \in Nat /\ MaxCrashes \in Nat

VARIABLES
  vault,     \* the files of the vault
  hash,      \* the hash the index has for them
  newest,    \* the last content that came
  moving,    \* files a rename has moved, their rows not yet
  lock,      \* who has the vault lock
  replica,   \* the files of the replica
  snapshot,  \* the index in the replica
  manifest,  \* the status and the files the replica's manifest records
  dest,      \* the restore folder: a target and the name a conflict gives it
  cmd,       \* the commands
  spent,     \* starts, changes and crashes so far
  lost,      \* history: a replica run ended without its manifest, overlapped, or
             \* forgot files because it could not read the last manifest
  indexed,   \* history: contents the index has ever had
  doubt      \* history: copies that a restore reported as not verified, or that it
             \* had not reported when it ended

source == <<vault, hash, newest, moving, indexed>>
mirror == <<replica, snapshot, manifest, lost>>
folder == <<dest, doubt>>
copiesVars == <<source, lock, mirror, folder, cmd, spent>>

Unlocked == "nobody"
ASSUME UnlockedIsNoCommand == Unlocked \notin Commands

Own == -1   \* a file of the owner's in the restore folder

Contents == 0..MaxVersion
Targets == Files \X {0, 1}
Written == Targets \X Contents
Free == [kind |-> "none", pc |-> "idle", policy |-> "skip", todo |-> {},
         plan |-> [f \in Files |-> 0], keep |-> {}, stale |-> FALSE, blind |-> FALSE,
         at |-> {}, target |-> 0, staged |-> 0, errors |-> FALSE, bad |-> {}, late |-> {}]
Policies == {"skip", "rename", "overwrite"}

CopiesTypeOK ==
  /\ vault \in [Files -> Contents] /\ hash \in [Files -> Contents]
  /\ newest \in Contents /\ moving \subseteq Files \X Files
  /\ lock \in Commands \cup {Unlocked}
  /\ replica \in [Files -> Contents] /\ snapshot \in [Files -> Contents]
  /\ manifest.status \in {"none", "completed", "stale", "incomplete"}
  /\ manifest.files \subseteq Files
  /\ dest \in [Targets -> Contents \cup {Own}]
  /\ \A c \in Commands :
       /\ cmd[c].kind \in {"none", "replica", "restore"}
       /\ cmd[c].pc \in {"idle", "walk", "wait", "copy", "restore"}
       /\ cmd[c].at \subseteq Files /\ Cardinality(cmd[c].at) <= 1
       /\ cmd[c].plan \in [Files -> Contents]
       /\ cmd[c].todo \cap cmd[c].keep = {}
       /\ cmd[c].bad \subseteq Written
  /\ spent \in [starts : 0..MaxStarts, changes : 0..MaxChanges, crashes : 0..MaxCrashes]
  /\ lost \in BOOLEAN /\ indexed \subseteq Files \X Contents
  /\ doubt \subseteq Written

CopiesInit ==
  /\ vault = [f \in Files |-> 0] /\ hash = [f \in Files |-> 0]
  /\ newest = 0 /\ moving = {}
  /\ lock = Unlocked
  /\ replica = [f \in Files |-> 0] /\ snapshot = [f \in Files |-> 0]
  /\ manifest = [status |-> "none", files |-> {}]
  /\ dest = [t \in Targets |-> 0]
  /\ cmd = [c \in Commands |-> Free]
  /\ spent = [starts |-> 0, changes |-> 0, crashes |-> 0]
  /\ lost = FALSE /\ indexed = {} /\ doubt = {}

----------------------------------------------------------------------------
(* The vault changes.                                                       *)

Change == spent.changes < MaxChanges /\ spent' = [spent EXCEPT !.changes = @ + 1]

(* A name that comes to the vault is late for the replicas under way.       *)
Comes(f) ==
  cmd' = [c \in Commands |-> IF cmd[c].kind = "replica" THEN [cmd[c] EXCEPT !.late = @ \cup {f}]
                             ELSE cmd[c]]

(* An import, under the vault lock.                                         *)
Import(f) ==
  /\ lock = Unlocked /\ vault[f] = 0 /\ hash[f] = 0 /\ newest < MaxVersion
  /\ Change
  /\ newest' = newest + 1
  /\ vault' = [vault EXCEPT ![f] = newest + 1]
  /\ hash' = [hash EXCEPT ![f] = newest + 1]
  /\ indexed' = indexed \cup {<<f, newest + 1>>}
  /\ Comes(f)
  /\ UNCHANGED <<moving, lock, mirror, folder>>

(* The daily run or the viewer drops a row whose file is missing; that the  *)
(* file may be back by then is in MailArchive.                              *)
DropRow(f) ==
  /\ hash[f] # 0 /\ vault[f] = 0
  /\ hash' = [hash EXCEPT ![f] = 0]
  /\ UNCHANGED <<vault, newest, moving, indexed, lock, mirror, folder, cmd, spent>>

(* rename-gmail-files moves the indexed files and commits their rows at its *)
(* end, here one by one; if one of them fails, none changes.                *)
MoveFile(f, g) ==
  /\ hash[f] # 0 /\ vault[f] # 0 /\ vault[g] = 0 /\ Change
  /\ vault' = [vault EXCEPT ![f] = 0, ![g] = vault[f]]
  /\ moving' = moving \cup {<<f, g>>}
  /\ Comes(g)
  /\ UNCHANGED <<hash, newest, indexed, lock, mirror, folder>>
MoveRow(f, g) ==
  /\ <<f, g>> \in moving /\ hash[g] = 0
  /\ moving' = moving \ {<<f, g>>}
  /\ hash' = [hash EXCEPT ![f] = 0, ![g] = hash[f]]
  /\ indexed' = indexed \cup {<<g, hash[f]>>}
  /\ UNCHANGED <<vault, newest, lock, mirror, folder, cmd, spent>>
MoveFails ==
  /\ moving # {} /\ moving' = {}
  /\ UNCHANGED <<vault, hash, newest, indexed, lock, mirror, folder, cmd, spent>>

(* The viewer or the owner deletes a file; the owner edits one.             *)
Vanish(f) ==
  /\ vault[f] # 0 /\ Change
  /\ vault' = [vault EXCEPT ![f] = 0]
  /\ UNCHANGED <<hash, newest, moving, indexed, lock, mirror, folder, cmd>>
Edit(f) ==
  /\ vault[f] # 0 /\ newest < MaxVersion /\ Change
  /\ newest' = newest + 1
  /\ vault' = [vault EXCEPT ![f] = newest + 1]
  /\ UNCHANGED <<hash, moving, indexed, lock, mirror, folder, cmd>>

(* The owner puts a file in the restore folder.                             *)
PutOwn(f) ==
  /\ dest[<<f, 0>>] = 0 /\ Change
  /\ dest' = [dest EXCEPT ![<<f, 0>>] = Own]
  /\ cmd' = [c \in Commands |->
               IF cmd[c].kind = "restore" /\ f \in cmd[c].at THEN [cmd[c] EXCEPT !.late = {f}]
               ELSE cmd[c]]
  /\ UNCHANGED <<source, lock, mirror, doubt>>

----------------------------------------------------------------------------
(* The replica.                                                             *)

Set(c, r) == cmd' = [cmd EXCEPT ![c] = r]

StartReplica(c) ==
  /\ cmd[c].pc = "idle" /\ spent.starts < MaxStarts
  /\ spent' = [spent EXCEPT !.starts = @ + 1]
  /\ Set(c, [Free EXCEPT !.kind = "replica", !.pc = "walk", !.todo = Files])
  /\ lost' = (lost \/ \E o \in Commands : cmd[o].kind = "replica")
  /\ UNCHANGED <<source, lock, replica, snapshot, manifest, folder>>

(* plan_replica: the walk notes the hash of each file it finds ...          *)
Walk(c, f) ==
  /\ cmd[c].pc = "walk" /\ f \in cmd[c].todo
  /\ Set(c, [cmd[c] EXCEPT !.todo = @ \ {f}, !.plan[f] = vault[f]])
  /\ UNCHANGED <<source, lock, mirror, folder, spent>>

Planned(c) == {f \in Files : cmd[c].plan[f] # 0}

(* ... and files only the last manifest knows are kept, if it can be read.  *)
WalkEnds(c) ==
  /\ cmd[c].pc = "walk" /\ cmd[c].todo = {}
  /\ \E read \in BOOLEAN :
       LET gone == manifest.files \ Planned(c)
           kept == IF read THEN gone ELSE {}
       IN Set(c, [cmd[c] EXCEPT !.pc = "wait", !.todo = Planned(c), !.keep = kept,
                                !.stale = (kept # {}), !.blind = (kept # gone)])
  /\ UNCHANGED <<source, lock, mirror, folder, spent>>

(* Mutant of Lock: the replica is written without the vault lock.           *)
LockUnlocked(c) ==
  /\ cmd[c].pc = "wait" /\ lock = Unlocked
  /\ Set(c, [cmd[c] EXCEPT !.pc = "copy"])
  /\ UNCHANGED <<source, lock, mirror, folder, spent>>

(* The vault lock, or another has it; too little room ends the command.     *)
Lock(c) ==
  /\ cmd[c].pc = "wait" /\ lock = Unlocked
  /\ lock' = c
  /\ Set(c, [cmd[c] EXCEPT !.pc = "copy"])
  /\ UNCHANGED <<source, mirror, folder, spent>>
Refused(c) ==
  /\ cmd[c].pc = "wait"
  /\ Set(c, Free)
  /\ UNCHANGED <<source, lock, mirror, folder, spent>>

(* A file is copied to the staging folder ...                               *)
Stage(c, f) ==
  /\ cmd[c].pc = "copy" /\ cmd[c].at = {} /\ f \in cmd[c].todo
  /\ Set(c, [cmd[c] EXCEPT !.at = {f}, !.staged = vault[f]])
  /\ UNCHANGED <<source, lock, mirror, folder, spent>>

(* ... and takes its place when it is what was planned.                     *)
Promote(c, f) ==
  /\ cmd[c].pc = "copy" /\ f \in cmd[c].at
  /\ IF cmd[c].staged = cmd[c].plan[f]
     THEN /\ replica' = [replica EXCEPT ![f] = cmd[c].staged]
          /\ Set(c, [cmd[c] EXCEPT !.at = {}, !.todo = @ \ {f}])
     ELSE /\ Set(c, [cmd[c] EXCEPT !.at = {}, !.todo = @ \ {f}, !.errors = TRUE])
          /\ UNCHANGED replica
  /\ UNCHANGED <<source, lock, snapshot, manifest, lost, folder, spent>>

ItemFails(c, f) ==
  /\ cmd[c].pc = "copy" /\ f \in cmd[c].at
  /\ Set(c, [cmd[c] EXCEPT !.at = {}, !.todo = @ \ {f}, !.errors = TRUE])
  /\ UNCHANGED <<source, lock, mirror, folder, spent>>

(* The index is copied last and the manifest lists every item of the plan.  *)
Status(c) ==
  IF cmd[c].errors THEN "incomplete" ELSE IF cmd[c].stale THEN "stale" ELSE "completed"

(* Mutant of Record: the manifest lists what was planned only.              *)
RecordPlanned(c) ==
  /\ cmd[c].pc = "copy" /\ cmd[c].todo = {}
  /\ \E failed \in BOOLEAN :
       /\ snapshot' = IF failed THEN snapshot ELSE hash
       /\ manifest' = [status |-> IF failed THEN "incomplete" ELSE Status(c),
                       files |-> Planned(c)]
  /\ lost' = (lost \/ cmd[c].blind)
  /\ lock' = Unlocked
  /\ Set(c, Free)
  /\ UNCHANGED <<source, replica, folder, spent>>

Record(c) ==
  /\ cmd[c].pc = "copy" /\ cmd[c].todo = {}
  /\ \E failed \in BOOLEAN :
       /\ snapshot' = IF failed THEN snapshot ELSE hash
       /\ manifest' = [status |-> IF failed THEN "incomplete" ELSE Status(c),
                       files |-> Planned(c) \cup cmd[c].keep]
  /\ lost' = (lost \/ cmd[c].blind)
  /\ lock' = Unlocked
  /\ Set(c, Free)
  /\ UNCHANGED <<source, replica, folder, spent>>

(* What a restore copied and has not verified or not yet reported.          *)
Unverified(c) ==
  IF cmd[c].kind = "restore" /\ cmd[c].staged # 0
  THEN {<<<<f, cmd[c].target>>, cmd[c].staged>> : f \in cmd[c].at} ELSE {}
Unreported(c) == cmd[c].bad \cup Unverified(c)

(* An exception no item catches, or the end of the process, leaves the      *)
(* manifest of an earlier run; a lock left behind is removed later.  A      *)
(* restore says nothing of what it copied.                                  *)
Cut(c) ==
  /\ cmd[c].pc # "idle" /\ spent.crashes < MaxCrashes
  /\ spent' = [spent EXCEPT !.crashes = @ + 1]
  /\ lock' = IF lock = c THEN Unlocked ELSE lock
  /\ lost' = (lost \/ cmd[c].pc = "copy")
  /\ doubt' = doubt \cup Unreported(c)
  /\ Set(c, Free)
  /\ UNCHANGED <<source, replica, snapshot, manifest, dest>>

----------------------------------------------------------------------------
(* The restore.                                                             *)

Present(f) == vault[f] # 0
Taken(f) == dest[<<f, 0>>] # 0

(* plan_restore: each indexed file, unless its target is taken and the      *)
(* conflict policy skips it.                                                *)
StartRestore(c, policy) ==
  /\ cmd[c].pc = "idle" /\ spent.starts < MaxStarts
  /\ spent' = [spent EXCEPT !.starts = @ + 1]
  /\ LET listed == {f \in Files : hash[f] # 0}
         taken == {f \in listed : policy = "skip" /\ Taken(f)}
     IN Set(c, [Free EXCEPT !.kind = "restore", !.pc = "restore", !.policy = policy, !.plan = hash,
                  !.todo = {f \in listed \ taken : Present(f)}])
  /\ UNCHANGED <<source, lock, mirror, folder>>

(* Mutant of Examine: the target is not looked at again.                    *)
ExamineOnce(c, f) ==
  /\ cmd[c].pc = "restore" /\ cmd[c].at = {} /\ f \in cmd[c].todo
  /\ LET target == IF cmd[c].policy = "rename" /\ Taken(f) THEN 1 ELSE 0
     IN IF vault[f] # cmd[c].plan[f]
        THEN Set(c, [cmd[c] EXCEPT !.todo = @ \ {f}])
        ELSE Set(c, [cmd[c] EXCEPT !.at = {f}, !.target = target, !.late = {}])
  /\ UNCHANGED <<source, lock, mirror, folder, spent>>

(* execute_restore looks again before each copy, and passes what is missing, *)
(* changed or skipped ...                                                   *)
Examine(c, f) ==
  /\ cmd[c].pc = "restore" /\ cmd[c].at = {} /\ f \in cmd[c].todo
  /\ LET target == IF cmd[c].policy = "rename" /\ Taken(f) THEN 1 ELSE 0
         pass == \/ ~Present(f)
                 \/ Taken(f) /\ cmd[c].policy = "skip"
                 \/ target = 1 /\ dest[<<f, 1>>] # 0
                 \/ vault[f] # cmd[c].plan[f]
     IN IF pass
        THEN Set(c, [cmd[c] EXCEPT !.todo = @ \ {f}])
        ELSE Set(c, [cmd[c] EXCEPT !.at = {f}, !.target = target, !.late = {}])
  /\ UNCHANGED <<source, lock, mirror, folder, spent>>

(* ... copies what is there by then ...                                     *)
CopyOut(c, f) ==
  /\ cmd[c].pc = "restore" /\ f \in cmd[c].at /\ cmd[c].staged = 0 /\ Present(f)
  /\ dest' = [dest EXCEPT ![<<f, cmd[c].target>>] = vault[f]]
  /\ Set(c, [cmd[c] EXCEPT !.staged = vault[f]])
  /\ UNCHANGED <<source, lock, mirror, doubt, spent>>

CopyOutFails(c, f) ==
  /\ cmd[c].pc = "restore" /\ f \in cmd[c].at /\ cmd[c].staged = 0
  /\ Set(c, [cmd[c] EXCEPT !.at = {}, !.todo = @ \ {f}])
  /\ UNCHANGED <<source, lock, mirror, folder, spent>>

(* ... and reads the target back, which may fail; what is there may be      *)
(* another's by then.                                                       *)
Verify(c, f) ==
  /\ cmd[c].pc = "restore" /\ f \in cmd[c].at /\ cmd[c].staged # 0
  /\ \E read \in BOOLEAN :
       LET right == read /\ dest[<<f, cmd[c].target>>] = cmd[c].plan[f]
       IN Set(c, [cmd[c] EXCEPT !.at = {}, !.todo = @ \ {f}, !.staged = 0,
                                !.bad = IF right THEN @ ELSE @ \cup Unverified(c)])
  /\ UNCHANGED <<source, lock, mirror, folder, spent>>

(* The report with the errors comes last, if it can be written.             *)
RestoreEnds(c) ==
  /\ cmd[c].pc = "restore" /\ cmd[c].todo = {}
  /\ doubt' = doubt \cup cmd[c].bad
  /\ Set(c, Free)
  /\ UNCHANGED <<source, lock, mirror, dest, spent>>

----------------------------------------------------------------------------
World ==
  \/ \E f \in Files : Import(f) \/ DropRow(f) \/ Vanish(f) \/ Edit(f) \/ PutOwn(f)
  \/ \E f, g \in Files : MoveFile(f, g) \/ MoveRow(f, g)
  \/ MoveFails

Replicate(c) ==
  \/ StartReplica(c) \/ WalkEnds(c) \/ Lock(c) \/ Refused(c) \/ Record(c)
  \/ \E f \in Files : Walk(c, f) \/ Stage(c, f) \/ Promote(c, f) \/ ItemFails(c, f)

Restore(c) ==
  \/ \E policy \in Policies : StartRestore(c, policy)
  \/ \E f \in Files : Examine(c, f) \/ CopyOut(c, f) \/ CopyOutFails(c, f) \/ Verify(c, f)
  \/ RestoreEnds(c)

CopiesNext == World \/ \E c \in Commands : Replicate(c) \/ Restore(c) \/ Cut(c)

CopiesSpec == CopiesInit /\ [][CopiesNext]_copiesVars

----------------------------------------------------------------------------
(* Properties.                                                              *)

Recorded(c) == cmd[c].pc = "copy" /\ cmd'[c].pc = "idle" /\ spent' = spent
Served(c) == Recorded(c) /\ manifest'.status # "incomplete"

(* A run that does not say incomplete leaves every file it planned in the   *)
(* replica as it was planned, whatever changed in the vault and in other    *)
(* runs since (replica.py:182-205).                                         *)
ServedAsPlanned ==
  [][\A c \in Commands : Served(c) => \A f \in Planned(c) : replica'[f] = cmd[c].plan[f]]_copiesVars

(* The replica holds no file its manifest does not list, unless a run was   *)
(* cut off while it copied, two runs overlapped or one could not read the   *)
(* last manifest: the next plan could not tell that such a file is no       *)
(* longer in the vault (replica.py:129-145, 340-345).                       *)
NothingUnlisted ==
  lost \/ \/ \E c \in Commands : cmd[c].pc = "copy"
          \/ \A f \in Files : replica[f] # 0 => f \in manifest.files

(* The manifest accounts for the replica, in every state.                   *)
ReplicaIsListed == CopiesTypeOK /\ NothingUnlisted

(* Completed, and not stale, is said only of a replica all of whose files   *)
(* were in the vault when the run looked, with the same exceptions          *)
(* (replica.py:146, 203).                                                   *)
CompletedIsNotStale ==
  [][\A c \in Commands : (Recorded(c) /\ manifest'.status = "completed" /\ ~lost')
        => \A f \in Files : replica'[f] # 0 => f \in Planned(c)]_copiesVars

(* The files of the vault that the index of the replica lists are in the    *)
(* replica, except under names an import or a rename brought after the run  *)
(* began to plan (replica.py:116, 172-174, cli.py:349, 554-558).            *)
SnapshotIsServed ==
  [][\A c \in Commands : Served(c)
        => \A f \in Files : (snapshot'[f] # 0 /\ vault[f] # 0 /\ f \notin cmd[c].late)
                               => replica'[f] # 0]_copiesVars

(* What a run says of the replica as it ends is so: the planned files are   *)
(* there, those the index copy lists are, and "completed" means no others,  *)
(* each with the exceptions named above.                                    *)
ReplicaIsTrue == ServedAsPlanned /\ SnapshotIsServed /\ CompletedIsNotStale

(* What a restore put in the folder is a content the index had for that     *)
(* file, or the restore reported an error for it, has yet to report it, or  *)
(* ended without its report (restore.py:170-186).                           *)
RestoredIsIndexed ==
  \A t \in Targets :
    \/ dest[t] <= 0
    \/ <<t[1], dest[t]>> \in indexed
    \/ <<t, dest[t]>> \in doubt
    \/ \E c \in Commands : <<t, dest[t]>> \in Unreported(c)

(* A file of the owner's goes only under overwrite, or when it was put into *)
(* the folder while its name was being written (restore.py:131-139,         *)
(* 158-169).                                                                *)
OwnFilesStay ==
  [][\A f \in Files : \A k \in {0, 1} :
        (dest[<<f, k>>] = Own /\ dest'[<<f, k>>] # Own)
          => \E c \in Commands : /\ cmd[c].kind = "restore" /\ cmd[c].at = {f}
                                 /\ cmd[c].policy = "overwrite" \/ f \in cmd[c].late]_copiesVars

(* A restore brings what the index lists and spares what the owner has.     *)
RestoreIsSafe == []RestoredIsIndexed /\ OwnFilesStay
=============================================================================
