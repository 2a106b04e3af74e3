---------------------------- MODULE AssistedClone ---------------------------
(***************************************************************************)
(* The assisted migration with DiskGenius (diskgenius_assisted.py): L-vault *)
(* binds a signed session to the disks it has identified and opens the      *)
(* program of another vendor, in which the owner selects the disks and      *)
(* starts the overwriting; L-vault sees neither.                            *)
(*                                                                         *)
(* Every operation runs under the clone lock.  Those that change nothing    *)
(* but the session, once, are one step; the launch is four.  Each may be    *)
(* refused (executable, identity, capacity, protected paths), which leaves  *)
(* all as it was.  The owner is taken to write only while the page says     *)
(* that the check before the overwriting is valid, and to attest "not       *)
(* started" truthfully for the session of the page; to attest "complete" of *)
(* a program that has been closed may be a mistake.                         *)
(***************************************************************************)
EXTENDS Naturals

CONSTANTS
  MaxSessions, MaxRenumberings, MaxDrifts, MaxCrashes  \* bounds of the model

ASSUME BoundsAreNatural ==
  /\ MaxSessions \in Nat /\ MaxRenumberings \in Nat /\ MaxDrifts \in Nat
  /\ MaxCrashes \in Nat

Roles == {"source", "target", "protected"}
Numbers == 0..2
Ids == 1..MaxSessions

VARIABLES
  number,    \* the number Windows gives the disk of each role
  layout,    \* a version of the partition layout of each role
  target,    \* what the target holds: "old", "partial" or "whole"
  session,   \* the session file
  step,      \* the operation that has the clone lock; "orphan": its process is gone
  gui,       \* DiskGenius: the session it was opened for, the numbers it lists
  expired,   \* the two minutes of the last check are over
  touched,   \* history: the roles that were written during a session
  broken,    \* history: sessions whose program was closed while it wrote
  verified,  \* history: sessions that have been verified
  raced,     \* history: disks were renumbered where no check can see it
  changes    \* renumberings, drifts and crashes so far

vars == <<number, layout, target, session, step, gui, expired, touched, broken, verified, raced,
          changes>>

Barring == {"launch_unknown", "launched", "ready_to_confirm", "failed_partial"}
Pending == {"launch_unknown", "launched", "ready_to_confirm"}
Settled == {"cancelled_before_overwrite", "verified_structurally_bootable"}

Numberings == {n \in [Roles -> Numbers] : \A r, q \in Roles : n[r] = n[q] => r = q}
Identity == [source |-> 0, target |-> 1, protected |-> 2]
Layouts == [Roles -> Nat]

TypeOK ==
  /\ number \in Numberings /\ layout \in Layouts
  /\ target \in {"old", "partial", "whole"}
  /\ session \in [id : 0..MaxSessions, state : {"none"} \cup Barring \cup Settled,
                  number : Numberings, layout : Layouts]
  /\ step \in {"free", "prepare", "open", "opened", "orphan"}
  /\ gui \in [state : {"closed", "open", "writing", "ended"}, id : 0..MaxSessions,
              number : Numberings]
  /\ expired \in BOOLEAN /\ raced \in BOOLEAN
  /\ touched \in [Ids -> SUBSET Roles] /\ broken \subseteq Ids /\ verified \subseteq Ids
  /\ changes \in [renumberings : 0..MaxRenumberings, drifts : 0..MaxDrifts,
                  crashes : 0..MaxCrashes]

Init ==
  /\ number = Identity /\ layout = [r \in Roles |-> 0] /\ target = "old"
  /\ session = [id |-> 0, state |-> "none", number |-> number, layout |-> layout]
  /\ step = "free"
  /\ gui = [state |-> "closed", id |-> 0, number |-> number]
  /\ expired = FALSE /\ raced = FALSE
  /\ touched = [i \in Ids |-> {}] /\ broken = {} /\ verified = {}
  /\ changes = [renumberings |-> 0, drifts |-> 0, crashes |-> 0]

disks == <<number, layout, target>>
histories == <<touched, broken, verified>>
Save(state) == session' = [session EXCEPT !.state = state]

----------------------------------------------------------------------------
(* launch.                                                                  *)

(* Mutant of Launch: a failed session does not bar the next.                *)
LaunchAfterFailure ==
  /\ step = "free" /\ session.state \notin Pending
  /\ step' = "prepare"
  /\ UNCHANGED <<disks, session, gui, expired, histories, raced, changes>>

(* The lock is free and no earlier session is unfinished.                   *)
Launch ==
  /\ step = "free" /\ session.state \notin Barring
  /\ step' = "prepare"
  /\ UNCHANGED <<disks, session, gui, expired, histories, raced, changes>>

(* The fresh preflight, after the enrollment: the session is saved as of    *)
(* unknown outcome before anything is opened.                               *)
Prepare ==
  /\ step = "prepare"
  /\ \/ /\ session.id < MaxSessions
        /\ session' = [id |-> session.id + 1, state |-> "launch_unknown",
                       number |-> number, layout |-> layout]
        /\ step' = "open"
     \/ step' = "free" /\ UNCHANGED session
  /\ UNCHANGED <<disks, gui, expired, histories, raced, changes>>

(* The program lists the disks as they are numbered when it opens; when it  *)
(* does not open the session stays unknown.                                 *)
Open ==
  /\ step = "open"
  /\ \/ /\ gui' = [state |-> "open", id |-> session.id, number |-> number]
        /\ step' = "opened"
     \/ step' = "free" /\ UNCHANGED gui
  /\ UNCHANGED <<disks, session, expired, histories, raced, changes>>

Opened ==
  /\ step = "opened"
  /\ Save("launched")
  /\ step' = "free"
  /\ UNCHANGED <<disks, gui, expired, histories, raced, changes>>

----------------------------------------------------------------------------
(* The other operations, from a page that may show an earlier session.      *)

(* Mutant of Revalidate: the numbers are not compared.                      *)
RevalidateByIdentity(id) ==
  /\ step = "free" /\ session.id = id
  /\ session.state = "launched" /\ gui.state = "open"
  /\ Save("ready_to_confirm") /\ expired' = FALSE
  /\ UNCHANGED <<disks, step, gui, histories, raced, changes>>

(* revalidate_before_overwrite: once for a session, while the disks have    *)
(* the numbers of the launch.                                               *)
Revalidate(id) ==
  /\ step = "free" /\ session.id = id
  /\ session.state = "launched" /\ gui.state = "open"
  /\ number = session.number
  /\ Save("ready_to_confirm") /\ expired' = FALSE
  /\ UNCHANGED <<disks, step, gui, histories, raced, changes>>

(* The process list has no DiskGenius of the fixed path.                    *)
Closed == gui.state = "closed"

(* cancel_before_overwrite: the program is closed and the owner attests     *)
(* that nothing was written.                                                *)
Cancel(id) ==
  /\ step = "free" /\ session.id = id
  /\ session.state \in Pending /\ Closed /\ touched[id] = {}
  /\ Save("cancelled_before_overwrite")
  /\ UNCHANGED <<disks, step, gui, expired, histories, raced, changes>>

(* verify_system_migration_layout and _verify_target_files look at the      *)
(* partitions, the boot files and the BCD, which a half-written target may  *)
(* have and which may be unreadable on a whole one.                         *)
LooksMigrated == IF target = "old" THEN {FALSE} ELSE BOOLEAN

Verdict(id, good) ==
  /\ Save(IF good THEN "verified_structurally_bootable" ELSE "failed_partial")
  /\ verified' = IF good THEN verified \cup {id} ELSE verified

(* Mutant of Verify: the layout before the session is not compared.         *)
VerifyLooks(id) ==
  /\ step = "free" /\ session.id = id
  /\ session.state \in {"ready_to_confirm", "failed_partial"} /\ Closed
  /\ LET unchanged == {r \in Roles : layout[r] = session.layout[r]}
     IN \E looks \in LooksMigrated :
          Verdict(id, looks /\ {"source", "protected"} \subseteq unchanged)
  /\ UNCHANGED <<disks, step, gui, expired, touched, broken, raced, changes>>

(* verify: the program is closed and the owner attests that it reported the *)
(* end.  The target must look migrated and differ from what it was before,  *)
(* the other two must not.                                                  *)
Verify(id) ==
  /\ step = "free" /\ session.id = id
  /\ session.state \in {"ready_to_confirm", "failed_partial"} /\ Closed
  /\ LET unchanged == {r \in Roles : layout[r] = session.layout[r]}
     IN \E looks \in LooksMigrated : Verdict(id, looks /\ unchanged = {"source", "protected"})
  /\ UNCHANGED <<disks, step, gui, expired, touched, broken, raced, changes>>

----------------------------------------------------------------------------
(* DiskGenius and its user.                                                 *)

Written == CHOOSE r \in Roles : number[r] = gui.number["target"]

(* Whatever disk has the number of the selected row by now is overwritten;  *)
(* once in the life of the program.                                         *)
WriteStarts ==
  /\ gui.state = "open" /\ session.id = gui.id
  /\ session.state = "ready_to_confirm" /\ ~expired
  /\ gui' = [gui EXCEPT !.state = "writing"]
  /\ layout' = [layout EXCEPT ![Written] = @ + 1]
  /\ target' = IF Written = "target" THEN "partial" ELSE target
  /\ touched' = [touched EXCEPT ![gui.id] = @ \cup {Written}]
  /\ UNCHANGED <<number, session, step, expired, broken, verified, raced, changes>>

(* The number is bound to the open device: renumbering moves it no more.    *)
WriteEnds ==
  /\ gui.state = "writing"
  /\ gui' = [gui EXCEPT !.state = "ended"]
  /\ target' = IF "target" \in touched[gui.id] THEN "whole" ELSE target
  /\ UNCHANGED <<number, layout, session, step, expired, histories, raced, changes>>

(* The program is closed, also while it writes.                             *)
GuiCloses ==
  /\ ~Closed
  /\ gui' = [gui EXCEPT !.state = "closed"]
  /\ broken' = IF gui.state = "writing" THEN broken \cup {gui.id} ELSE broken
  /\ UNCHANGED <<disks, session, step, expired, touched, verified, raced, changes>>

----------------------------------------------------------------------------
(* The world.                                                               *)

(* Windows renumbers the disks.  No check sees it between the fresh         *)
(* preflight and the opening of the program, nor after the last check.      *)
Renumber ==
  /\ changes.renumberings < MaxRenumberings
  /\ changes' = [changes EXCEPT !.renumberings = @ + 1]
  /\ \E n \in Numberings \ {number} : number' = n
  /\ raced' = (raced \/ step = "open" \/ session.state = "ready_to_confirm")
  /\ UNCHANGED <<layout, target, session, step, gui, expired, histories>>

(* Another program changes the partitions of a disk that is not the target. *)
Drift ==
  /\ changes.drifts < MaxDrifts
  /\ changes' = [changes EXCEPT !.drifts = @ + 1]
  /\ \E r \in {"source", "protected"} : layout' = [layout EXCEPT ![r] = @ + 1]
  /\ UNCHANGED <<number, target, session, step, gui, expired, histories, raced>>

Expire ==
  /\ session.state = "ready_to_confirm" /\ ~expired
  /\ expired' = TRUE
  /\ UNCHANGED <<disks, session, step, gui, histories, raced, changes>>

(* The process of an operation ends with the lock; another one takes the    *)
(* lock over after twelve hours.                                            *)
Crash ==
  /\ changes.crashes < MaxCrashes /\ step # "orphan"
  /\ changes' = [changes EXCEPT !.crashes = @ + 1]
  /\ step' = "orphan"
  /\ UNCHANGED <<disks, session, gui, expired, histories, raced>>
TakeOver ==
  /\ step = "orphan" /\ step' = "free"
  /\ UNCHANGED <<disks, session, gui, expired, histories, raced, changes>>

----------------------------------------------------------------------------
Page(id) == Revalidate(id) \/ Cancel(id) \/ Verify(id)
DiskGenius == WriteStarts \/ WriteEnds \/ GuiCloses
World == Renumber \/ Drift \/ Expire \/ Crash \/ TakeOver

Next ==
  \/ Launch \/ Prepare \/ Open \/ Opened
  \/ \E id \in Ids : Page(id)
  \/ DiskGenius
  \/ World

Spec == Init /\ [][Next]_vars

----------------------------------------------------------------------------
(* Properties.                                                              *)

(* Only the target is ever overwritten, though the program selects by the   *)
(* numbers it listed when it opened, unless the disks are renumbered where  *)
(* no check looks (diskgenius_assisted.py:305-316).                         *)
OnlyTargetIsWritten == raced \/ \A i \in Ids : touched[i] \subseteq {"target"}

(* A session that is verified has itself overwritten the target and nothing *)
(* else, raced or not, although an earlier session may have left a target   *)
(* that looks the same; and to the end, unless the program was closed while *)
(* it wrote and the owner attests the end by mistake of a target that has   *)
(* the structure already (diskgenius_assisted.py:371-377, 447-460).         *)
VerifiedIsOwnWork ==
  session.state = "verified_structurally_bootable"
    => touched[session.id] = {"target"} /\ (target = "whole" \/ session.id \in broken)

(* The program is never opened for another attempt over a target that an    *)
(* earlier one has left half written, unless a session that was broken off  *)
(* while it wrote the target has been verified (diskgenius_assisted.py:     *)
(* 231-234, 377).                                                           *)
NoAttemptOverPartial ==
  gui.state = "open" /\ target = "partial"
    => \E i \in broken \cap verified : "target" \in touched[i]

(* While the program that L-vault opened is running its session is on disk  *)
(* and unfinished, whatever crashed (diskgenius_assisted.py:257-268).       *)
OpenIsAccounted ==
  gui.state # "closed" => session.id = gui.id /\ session.state \in Pending

(* A session that was cancelled or verified stays so; only a new one        *)
(* replaces it (diskgenius_assisted.py:228, 266, 343).                      *)
SettledStays ==
  [][session.state \in Settled /\ session'.id = session.id
       => session'.state = session.state]_vars

(* What the saved session says of DiskGenius and of the target is so, and   *)
(* what it says in the end is not taken back.                               *)
SessionIsTrue == [](OpenIsAccounted /\ VerifiedIsOwnWork) /\ SettledStays
=============================================================================
