------------------------- MODULE AssistedCloneProofs ------------------------
(***************************************************************************)
(* The safety properties of AssistedClone, for any number of sessions,      *)
(* renumberings, drifts and crashes.                                        *)
(***************************************************************************)
EXTENDS AssistedClone, TLAPS

----------------------------------------------------------------------------
(* The inductive invariant.                                                 *)

(* How far a launch has come, by the operation that has the lock.           *)
StepInv ==
  /\ step = "prepare" => session.state \notin Barring
  /\ step \in {"open", "opened"} => session.state = "launch_unknown"
  /\ step \in {"prepare", "open"} => gui.state = "closed"

(* A session that exists has a number; it is written only after its check,  *)
(* and later ones are not.                                                  *)
WrittenInv ==
  /\ session.state # "none" => session.id \in Ids
  /\ \A i \in Ids : i > session.id => touched[i] = {}
  /\ session.id \in Ids /\ touched[session.id] # {}
       => session.state \in {"ready_to_confirm", "failed_partial",
                             "verified_structurally_bootable"}
  /\ gui.state = "open" => touched[gui.id] = {}

(* What is half written was written in the session, which is not settled,   *)
(* or in one that was broken off and then verified.                         *)
PartialInv ==
  target = "partial" =>
    \/ /\ session.state \in {"ready_to_confirm", "failed_partial"}
       /\ "target" \in touched[session.id]
    \/ \E i \in broken \cap verified : "target" \in touched[i]

(* A program that is not writing and left the target half written was       *)
(* closed while it wrote.                                                   *)
BrokenInv ==
  target = "partial" /\ session.id \in Ids /\ "target" \in touched[session.id]
    => session.id \in broken \/ gui.state = "writing"

(* The layouts have changed since the launch where the session wrote, and   *)
(* that of the target nowhere else.                                         *)
LayoutInv ==
  /\ \A r \in Roles : layout[r] >= session.layout[r]
  /\ session.id \in Ids => \A r \in touched[session.id] : layout[r] > session.layout[r]
  /\ session.state # "none" /\ layout["target"] # session.layout["target"]
       => "target" \in touched[session.id]

(* Without a race the numbers are those of the launch wherever they count.  *)
NumberInv ==
  ~raced =>
    /\ step = "open" => number = session.number
    /\ gui.state = "open" => gui.number = session.number
    /\ session.state = "ready_to_confirm" => number = session.number

Inv ==
  /\ TypeOK /\ OpenIsAccounted /\ StepInv /\ WrittenInv /\ PartialInv /\ BrokenInv
  /\ LayoutInv /\ VerifiedIsOwnWork /\ NumberInv /\ OnlyTargetIsWritten

(* Init establishes the invariant.                                          *)
LEMMA InitInv == Init => Inv
<1> SUFFICES ASSUME Init PROVE Inv
  OBVIOUS
<1>1. Identity \in Numberings
  BY DEF Identity, Numberings, Roles, Numbers
<1>2. Ids \subseteq Nat \ {0} /\ 0 \in 0..MaxSessions
  BY BoundsAreNatural DEF Ids
<1>3. layout \in Layouts
  BY DEF Init, Layouts
<1>4. session \in [id : 0..MaxSessions, state : {"none"} \cup Barring \cup Settled,
                  number : Numberings, layout : Layouts]
  BY <1>1, <1>2, <1>3 DEF Init
<1>5. gui \in [state : {"closed", "open", "writing", "ended"}, id : 0..MaxSessions,
              number : Numberings]
  BY <1>1, <1>2 DEF Init
<1>6. changes \in [renumberings : 0..MaxRenumberings, drifts : 0..MaxDrifts,
                  crashes : 0..MaxCrashes]
  BY BoundsAreNatural DEF Init
<1>7. TypeOK
  BY <1>1, <1>3, <1>4, <1>5, <1>6 DEF Init, TypeOK
<1>8. OpenIsAccounted /\ StepInv /\ PartialInv /\ BrokenInv /\ VerifiedIsOwnWork /\ NumberInv
  BY DEF Init, OpenIsAccounted, StepInv, PartialInv, BrokenInv, VerifiedIsOwnWork, NumberInv
<1>9. WrittenInv /\ LayoutInv /\ OnlyTargetIsWritten
  BY <1>2 DEF Init, WrittenInv, LayoutInv, OnlyTargetIsWritten
<1> QED
  BY <1>7, <1>8, <1>9 DEF Inv

----------------------------------------------------------------------------
(* Every action keeps it.                                                   *)

LEMMA IdsAreNumbers == Ids \subseteq Nat \ {0} /\ MaxSessions \in Nat /\ Ids = 1..MaxSessions
BY BoundsAreNatural DEF Ids

(* One change more of a kind whose bound is not reached.                    *)
Changes == [renumberings : 0..MaxRenumberings, drifts : 0..MaxDrifts, crashes : 0..MaxCrashes]
LEMMA ChangesAreCounted ==
  ASSUME changes \in Changes
  PROVE  /\ changes.renumberings < MaxRenumberings
              => [changes EXCEPT !.renumberings = @ + 1] \in Changes
         /\ changes.drifts < MaxDrifts => [changes EXCEPT !.drifts = @ + 1] \in Changes
         /\ changes.crashes < MaxCrashes => [changes EXCEPT !.crashes = @ + 1] \in Changes
BY BoundsAreNatural DEF Changes

LEMMA LaunchKeeps ==
  ASSUME Inv, Launch PROVE Inv'
<1> USE DEF Inv, TypeOK, OpenIsAccounted, StepInv, WrittenInv, PartialInv, BrokenInv, LayoutInv,
  VerifiedIsOwnWork, NumberInv, OnlyTargetIsWritten, disks, histories, Save, Barring, Pending, Settled, Layouts
<1> QED
  BY IdsAreNumbers, BoundsAreNatural DEF Launch, Closed

LEMMA PrepareKeeps ==
  ASSUME Inv, Prepare PROVE Inv'
<1> USE DEF Inv, TypeOK, disks, histories
<1>1. CASE step' = "free" /\ UNCHANGED session
  BY <1>1 DEF Prepare, OpenIsAccounted, StepInv, WrittenInv, PartialInv, BrokenInv, LayoutInv,
    VerifiedIsOwnWork, NumberInv, OnlyTargetIsWritten
<1>2. CASE step' # "free"
  <2>1. /\ session.id < MaxSessions /\ step' = "open"
        /\ session' = [id |-> session.id + 1, state |-> "launch_unknown",
                       number |-> number, layout |-> layout]
        /\ UNCHANGED <<disks, gui, expired, histories, raced, changes>>
    BY <1>2 DEF Prepare
  <2>2. session'.id = session.id + 1 /\ session'.id \in Ids /\ session'.id > session.id
    BY <2>1, IdsAreNumbers
  <2>3. /\ session'.state = "launch_unknown" /\ session'.number = number
        /\ session'.layout = layout
    BY <2>1
  <2>4. session.state \notin Barring /\ gui.state = "closed"
        /\ (target = "partial" => \E i \in broken \cap verified : "target" \in touched[i])
    BY DEF Prepare, StepInv, PartialInv, Barring
  <2>5. touched[session'.id] = {}
    BY <2>2 DEF WrittenInv
  <2>6. TypeOK'
    <3>1. session' \in [id : 0..MaxSessions, state : {"none"} \cup Barring \cup Settled,
                       number : Numberings, layout : Layouts]
      BY <2>1, <2>2, IdsAreNumbers DEF Barring
    <3> QED
      BY <2>1, <3>1
  <2>7. WrittenInv'
    BY <2>1, <2>2, <2>4, <2>5, IdsAreNumbers DEF WrittenInv
  <2>8. LayoutInv'
    BY <2>1, <2>2, <2>3, <2>5 DEF LayoutInv, Layouts, Roles
  <2> QED
    BY <2>1, <2>3, <2>4, <2>5, <2>6, <2>7, <2>8 DEF OpenIsAccounted, StepInv, PartialInv, BrokenInv,
      VerifiedIsOwnWork, NumberInv, OnlyTargetIsWritten
<1> QED
  BY <1>1, <1>2 DEF Prepare

LEMMA OpenKeeps ==
  ASSUME Inv, Open PROVE Inv'
<1> USE DEF Inv, TypeOK, OpenIsAccounted, StepInv, WrittenInv, PartialInv, BrokenInv, LayoutInv,
  VerifiedIsOwnWork, NumberInv, OnlyTargetIsWritten, disks, histories, Save, Barring, Pending, Settled, Layouts
<1> QED
  BY IdsAreNumbers, BoundsAreNatural DEF Open, Closed

LEMMA OpenedKeeps ==
  ASSUME Inv, Opened PROVE Inv'
<1> USE DEF Inv, TypeOK, OpenIsAccounted, StepInv, WrittenInv, PartialInv, BrokenInv, LayoutInv,
  VerifiedIsOwnWork, NumberInv, OnlyTargetIsWritten, disks, histories, Save, Barring, Pending, Settled, Layouts
<1> QED
  BY IdsAreNumbers, BoundsAreNatural DEF Opened, Closed

LEMMA RevalidateKeeps ==
  ASSUME Inv, NEW id \in Ids, Revalidate(id) PROVE Inv'
<1> USE DEF Inv, TypeOK, OpenIsAccounted, StepInv, WrittenInv, PartialInv, BrokenInv, LayoutInv,
  VerifiedIsOwnWork, NumberInv, OnlyTargetIsWritten, disks, histories, Save, Barring, Pending, Settled, Layouts
<1> QED
  BY IdsAreNumbers, BoundsAreNatural DEF Revalidate, Closed

LEMMA CancelKeeps ==
  ASSUME Inv, NEW id \in Ids, Cancel(id) PROVE Inv'
<1> USE DEF Inv, TypeOK, OpenIsAccounted, StepInv, WrittenInv, PartialInv, BrokenInv, LayoutInv,
  VerifiedIsOwnWork, NumberInv, OnlyTargetIsWritten, disks, histories, Save, Barring, Pending, Settled, Layouts
<1> QED
  BY IdsAreNumbers, BoundsAreNatural DEF Cancel, Closed

LEMMA VerifyKeeps ==
  ASSUME Inv, NEW id \in Ids, Verify(id) PROVE Inv'
<1> USE DEF Inv, TypeOK, disks, histories
<1> DEFINE unchanged == {r \in Roles : layout[r] = session.layout[r]}
<1>0. PICK looks \in LooksMigrated : Verdict(id, looks /\ unchanged = {"source", "protected"})
  BY DEF Verify
<1> DEFINE good == looks /\ unchanged = {"source", "protected"}
           result == IF good THEN "verified_structurally_bootable" ELSE "failed_partial"
<1>1. /\ session' = [session EXCEPT !.state = result]
      /\ verified' = IF good THEN verified \cup {id} ELSE verified
      /\ session.id = id /\ step = "free" /\ gui.state = "closed"
      /\ session.state \in {"ready_to_confirm", "failed_partial"}
      /\ UNCHANGED <<disks, step, gui, expired, touched, broken, raced, changes>>
  BY <1>0 DEF Verify, Verdict, Save, Closed
<1>2. result \in {"verified_structurally_bootable", "failed_partial"}
  OBVIOUS
<1> HIDE DEF result
<1>3. /\ session'.id = session.id /\ session'.state = result
      /\ session'.number = session.number /\ session'.layout = session.layout
  BY <1>1
<1>4. TypeOK'
  BY <1>1, <1>2 DEF Barring, Settled
<1>5. good => touched[id] = {"target"} /\ (target = "whole" \/ id \in broken)
  <2> SUFFICES ASSUME good PROVE touched[id] = {"target"} /\ (target = "whole" \/ id \in broken)
    OBVIOUS
  <2>1. target \in {"partial", "whole"}
    BY DEF LooksMigrated
  <2>2. touched[id] \subseteq Roles /\ session.layout \in Layouts
    OBVIOUS
  <2>3. layout["target"] # session.layout["target"]
    BY DEF Roles
  <2>4. "target" \in touched[id]
    BY <1>1, <2>3 DEF LayoutInv
  <2>5. \A r \in touched[id] : r \notin unchanged
    BY <1>1, <2>2 DEF LayoutInv, Layouts
  <2>6. touched[id] \subseteq {"target"}
    BY <2>2, <2>5 DEF Roles
  <2>7. target = "partial" => id \in broken
    BY <1>1, <2>4 DEF BrokenInv
  <2> QED
    BY <2>1, <2>4, <2>6, <2>7
<1>6. VerifiedIsOwnWork'
  BY <1>1, <1>3, <1>5 DEF VerifiedIsOwnWork, result
<1>7. PartialInv' /\ BrokenInv'
  <2>1. BrokenInv'
    BY <1>1, <1>3 DEF BrokenInv
  <2>4. ~good => result = "failed_partial"
    BY DEF result
  <2> HIDE DEF good
  <2>2. CASE good
    <3>1. id \in verified' /\ broken' = broken /\ touched' = touched /\ target' = target
      BY <1>1, <2>2
    <3>2. target' = "partial" => "target" \in touched'[id] /\ id \in broken' \cap verified'
      BY <1>5, <2>2, <3>1
    <3> QED
      BY <2>1, <3>2 DEF PartialInv
  <2>3. CASE ~good
    <3>1. /\ verified' = verified /\ broken' = broken /\ touched' = touched /\ target' = target
          /\ session'.state = "failed_partial" /\ session'.id = session.id
      BY <1>1, <1>3, <2>3, <2>4
    <3>2. target' = "partial" =>
            \/ "target" \in touched'[session'.id]
            \/ \E i \in broken' \cap verified' : "target" \in touched'[i]
      BY <3>1 DEF PartialInv
    <3> QED
      BY <2>1, <3>1, <3>2 DEF PartialInv
  <2> QED
    BY <2>2, <2>3
<1>8. WrittenInv' /\ LayoutInv'
  BY <1>1, <1>2, <1>3 DEF WrittenInv, LayoutInv
<1> QED
  BY <1>1, <1>2, <1>3, <1>4, <1>6, <1>7, <1>8 DEF OpenIsAccounted, StepInv,
    NumberInv, OnlyTargetIsWritten

(* Three roles have three numbers: some disk has the number selected.       *)
LEMMA WrittenIsADisk ==
  ASSUME number \in Numberings, gui.number \in Numberings PROVE Written \in Roles
<1> DEFINE n == gui.number["target"]
<1>1. n \in {0, 1, 2}
  BY DEF Numberings, Numbers, Roles
<1>2. /\ number["source"] \in {0, 1, 2} /\ number["target"] \in {0, 1, 2}
      /\ number["protected"] \in {0, 1, 2}
  BY DEF Numberings, Numbers, Roles
<1>3. /\ number["source"] # number["target"] /\ number["source"] # number["protected"]
      /\ number["target"] # number["protected"]
  BY DEF Numberings, Roles
<1>4. \E r \in Roles : number[r] = n
  <2> HIDE DEF n
  <2> QED
    BY <1>1, <1>2, <1>3 DEF Roles
<1> QED
  BY <1>4 DEF Written

LEMMA WriteStartsKeeps ==
  ASSUME Inv, WriteStarts PROVE Inv'
<1> USE DEF Inv, TypeOK, disks, histories
<1>1. Written \in Roles
  BY WrittenIsADisk
<1> DEFINE w == Written
<1>2. /\ gui.state = "open" /\ session.id = gui.id /\ session.state = "ready_to_confirm"
      /\ gui' = [gui EXCEPT !.state = "writing"]
      /\ layout' = [layout EXCEPT ![w] = layout[w] + 1]
      /\ target' = IF w = "target" THEN "partial" ELSE target
      /\ touched' = [touched EXCEPT ![gui.id] = touched[gui.id] \cup {w}]
      /\ UNCHANGED <<number, session, step, expired, broken, verified, raced, changes>>
  BY DEF WriteStarts
<1>3. ~raced => w = "target"
  <2> SUFFICES ASSUME ~raced PROVE w = "target"
    OBVIOUS
  <2>1. number = session.number /\ gui.number = session.number
    BY <1>2 DEF NumberInv
  <2> QED
    BY <1>1, <2>1 DEF Written, Numberings, Roles
<1>4. w \in Roles
  BY <1>1
<1> HIDE DEF w
<1>5. session.id \in Ids /\ gui.id \in Ids
  BY <1>2 DEF WrittenInv
<1>6. /\ touched'[session.id] = touched[session.id] \cup {w} /\ touched[session.id] = {}
      /\ \A i \in Ids : i # session.id => touched'[i] = touched[i]
      /\ touched' \in [Ids -> SUBSET Roles]
  BY <1>2, <1>4, <1>5 DEF WrittenInv
<1>7. /\ layout' \in Layouts /\ layout'[w] = layout[w] + 1
      /\ \A r \in Roles : r # w => layout'[r] = layout[r]
  BY <1>2, <1>4 DEF Layouts
<1>8. gui'.state = "writing" /\ gui'.id = gui.id /\ gui'.number = gui.number
  BY <1>2
<1>9. TypeOK'
  BY <1>2, <1>6, <1>7
<1>10. LayoutInv'
  <2>1. session.layout \in Layouts
    OBVIOUS
  <2> QED
    BY <1>2, <1>4, <1>5, <1>6, <1>7, <2>1 DEF LayoutInv, Layouts, Roles
<1>11. WrittenInv' /\ PartialInv' /\ BrokenInv'
  <2>1. WrittenInv' /\ BrokenInv'
    BY <1>2, <1>5, <1>6, <1>8, IdsAreNumbers DEF WrittenInv, BrokenInv
  <2>2. PartialInv'
    BY <1>2, <1>5, <1>6 DEF PartialInv
  <2> QED
    BY <2>1, <2>2
<1>12. OnlyTargetIsWritten'
  BY <1>2, <1>3, <1>5, <1>6 DEF OnlyTargetIsWritten
<1>13. StepInv'
  BY <1>2, <1>8 DEF StepInv, OpenIsAccounted
<1> QED
  BY <1>2, <1>8, <1>9, <1>10, <1>11, <1>12, <1>13 DEF OpenIsAccounted, VerifiedIsOwnWork, NumberInv

LEMMA WriteEndsKeeps ==
  ASSUME Inv, WriteEnds PROVE Inv'
<1> USE DEF Inv, TypeOK, OpenIsAccounted, StepInv, WrittenInv, PartialInv, BrokenInv, LayoutInv,
  VerifiedIsOwnWork, NumberInv, OnlyTargetIsWritten, disks, histories, Save, Barring, Pending, Settled, Layouts
<1> QED
  BY IdsAreNumbers, BoundsAreNatural DEF WriteEnds, Closed

LEMMA GuiClosesKeeps ==
  ASSUME Inv, GuiCloses PROVE Inv'
<1> USE DEF Inv, TypeOK, disks, histories
<1>1. /\ gui' = [gui EXCEPT !.state = "closed"]
      /\ broken' = IF gui.state = "writing" THEN broken \cup {gui.id} ELSE broken
      /\ UNCHANGED <<disks, session, step, expired, touched, verified, raced, changes>>
      /\ gui.state # "closed"
  BY DEF GuiCloses, Closed
<1>2. gui'.state = "closed" /\ broken \subseteq broken' /\ gui.id = session.id
  BY <1>1 DEF OpenIsAccounted
<1>3. gui.id \in Ids
  BY <1>1, <1>2 DEF OpenIsAccounted, Pending, WrittenInv
<1>4. TypeOK'
  BY <1>1, <1>3
<1>5. BrokenInv'
  BY <1>1, <1>2 DEF BrokenInv
<1>6. PartialInv' /\ VerifiedIsOwnWork'
  BY <1>1, <1>2 DEF PartialInv, VerifiedIsOwnWork
<1> QED
  BY <1>1, <1>2, <1>4, <1>5, <1>6 DEF OpenIsAccounted, StepInv, WrittenInv, LayoutInv, NumberInv,
    OnlyTargetIsWritten

LEMMA RenumberKeeps ==
  ASSUME Inv, Renumber PROVE Inv'
<1> USE DEF Inv, TypeOK, histories
<1>1. changes' \in Changes
  BY ChangesAreCounted DEF Renumber, Changes
<1>2. UNCHANGED <<layout, target, session, step, gui, expired, histories>>
  BY DEF Renumber
<1>3. number' \in Numberings
  BY DEF Renumber
<1>4. raced' = (raced \/ step = "open" \/ session.state = "ready_to_confirm")
  BY DEF Renumber
<1>5. TypeOK'
  BY <1>1, <1>2, <1>3, <1>4 DEF Changes
<1>6. NumberInv' /\ OnlyTargetIsWritten'
  BY <1>2, <1>4 DEF NumberInv, OnlyTargetIsWritten
<1> QED
  BY <1>2, <1>5, <1>6 DEF OpenIsAccounted, StepInv, WrittenInv, PartialInv, BrokenInv, LayoutInv,
    VerifiedIsOwnWork

LEMMA DriftKeeps ==
  ASSUME Inv, Drift PROVE Inv'
<1> USE DEF Inv, TypeOK, histories
<1>1. changes' \in Changes
  BY ChangesAreCounted DEF Drift, Changes
<1>2. UNCHANGED <<number, target, session, step, gui, expired, histories, raced>>
  BY DEF Drift
<1>3. PICK r \in {"source", "protected"} : layout' = [layout EXCEPT ![r] = @ + 1]
  BY DEF Drift
<1>4. layout' \in Layouts /\ \A q \in Roles : layout'[q] >= layout[q]
  BY <1>3 DEF Layouts, Roles
<1>5. layout'["target"] = layout["target"]
  BY <1>3 DEF Layouts, Roles
<1>6. TypeOK'
  BY <1>1, <1>2, <1>4 DEF Changes
<1>7. session.layout \in Layouts /\ (session.id \in Ids => touched[session.id] \subseteq Roles)
  OBVIOUS
<1>8. LayoutInv'
  BY <1>2, <1>4, <1>5, <1>7 DEF LayoutInv, Layouts
<1> QED
  BY <1>2, <1>6, <1>8 DEF OpenIsAccounted, StepInv, WrittenInv, PartialInv, BrokenInv,
    VerifiedIsOwnWork, NumberInv, OnlyTargetIsWritten

LEMMA ExpireKeeps ==
  ASSUME Inv, Expire PROVE Inv'
<1> USE DEF Inv, TypeOK, OpenIsAccounted, StepInv, WrittenInv, PartialInv, BrokenInv, LayoutInv,
  VerifiedIsOwnWork, NumberInv, OnlyTargetIsWritten, disks, histories, Save, Barring, Pending, Settled, Layouts
<1> QED
  BY IdsAreNumbers, BoundsAreNatural DEF Expire, Closed

LEMMA CrashKeeps ==
  ASSUME Inv, Crash PROVE Inv'
<1> USE DEF Inv, TypeOK, histories
<1>1. changes' \in Changes
  BY ChangesAreCounted DEF Crash, Changes
<1>2. TypeOK'
  BY <1>1 DEF Crash, Changes, disks
<1>3. UNCHANGED <<disks, session, gui, expired, histories, raced>> /\ step' = "orphan"
  BY DEF Crash
<1> QED
  BY <1>2, <1>3 DEF disks, OpenIsAccounted, StepInv, WrittenInv, PartialInv, BrokenInv, LayoutInv,
    VerifiedIsOwnWork, NumberInv, OnlyTargetIsWritten

LEMMA TakeOverKeeps ==
  ASSUME Inv, TakeOver PROVE Inv'
<1> USE DEF Inv, TypeOK, OpenIsAccounted, StepInv, WrittenInv, PartialInv, BrokenInv, LayoutInv,
  VerifiedIsOwnWork, NumberInv, OnlyTargetIsWritten, disks, histories, Save, Barring, Pending, Settled, Layouts
<1> QED
  BY IdsAreNumbers, BoundsAreNatural DEF TakeOver, Closed

----------------------------------------------------------------------------
LEMMA StepKeeps == Inv /\ [Next]_vars => Inv'
<1> SUFFICES ASSUME Inv, [Next]_vars PROVE Inv'
  OBVIOUS
<1>1. CASE UNCHANGED vars
  BY <1>1 DEF vars, Inv, TypeOK, OpenIsAccounted, StepInv, WrittenInv, PartialInv, BrokenInv, LayoutInv,
    VerifiedIsOwnWork, NumberInv, OnlyTargetIsWritten
<1>2. CASE Launch \/ Prepare \/ Open \/ Opened
  BY <1>2, LaunchKeeps, PrepareKeeps, OpenKeeps, OpenedKeeps
<1>3. ASSUME NEW id \in Ids, Page(id) PROVE Inv'
  BY <1>3, RevalidateKeeps, CancelKeeps, VerifyKeeps DEF Page
<1>4. CASE DiskGenius
  BY <1>4, WriteStartsKeeps, WriteEndsKeeps, GuiClosesKeeps DEF DiskGenius
<1>5. CASE World
  BY <1>5, RenumberKeeps, DriftKeeps, ExpireKeeps, CrashKeeps, TakeOverKeeps DEF World
<1> QED
  BY <1>1, <1>2, <1>3, <1>4, <1>5 DEF Next

LEMMA AlwaysInv == Spec => []Inv
BY InitInv, StepKeeps, PTL DEF Spec

(* The session file is readable and of this program, and every history is   *)
(* of the disks there are, after any number of crashes                      *)
(* (diskgenius_assisted.py:88-117).                                          *)
THEOREM AssistedTypeCorrect == Spec => []TypeOK
<1>1. Inv => TypeOK
  BY DEF Inv
<1> QED
  BY <1>1, AlwaysInv, PTL

(* Whatever crashed, a program that was opened has its session on disk, and *)
(* no operation has taken it for settled.                                   *)
THEOREM AlwaysAccounted == Spec => []OpenIsAccounted
<1>1. Inv => OpenIsAccounted
  BY DEF Inv
<1> QED
  BY <1>1, AlwaysInv, PTL

(* The program is never opened over a half-written target, unless the       *)
(* session that left it so was verified all the same: any other that wrote  *)
(* it bars the launch.                                                      *)
THEOREM NeverOverPartial == Spec => []NoAttemptOverPartial
<1>1. Inv => NoAttemptOverPartial
  BY DEF Inv, NoAttemptOverPartial, OpenIsAccounted, WrittenInv, PartialInv
<1> QED
  BY <1>1, AlwaysInv, PTL

(* A verified session has itself written the target and only that, for a    *)
(* copy an earlier session left has not changed since the launch; and       *)
(* whole, unless its program was closed while it wrote.                     *)
THEOREM VerifiedIsWritten == Spec => []VerifiedIsOwnWork
<1>1. Inv => VerifiedIsOwnWork
  BY DEF Inv
<1> QED
  BY <1>1, AlwaysInv, PTL

(* Without a renumbering where no check looks, nothing but the target is    *)
(* written: the numbers the program lists are those of the launch, and so   *)
(* are those the last check has seen.                                       *)
THEOREM TargetOnly == Spec => []OnlyTargetIsWritten
<1>1. Inv => OnlyTargetIsWritten
  BY DEF Inv
<1> QED
  BY <1>1, AlwaysInv, PTL

(* A cancelled or verified session is final, although the second save of    *)
(* the launch comes after the program was opened.                           *)
THEOREM SettledIsFinal == Spec => SettledStays
<1>1. ASSUME Inv, [Next]_vars, session.state \in Settled, session'.id = session.id
      PROVE  session'.state = session.state
  <2> USE DEF Settled, Pending
  <2>1. CASE UNCHANGED vars
    BY <2>1 DEF vars
  <2>2. CASE Prepare
    BY <1>1, <2>2 DEF Prepare, Inv, TypeOK
  <2>3. CASE Opened
    BY <1>1, <2>3 DEF Opened, Inv, StepInv
  <2>4. ASSUME NEW id \in Ids, Page(id) PROVE session'.state = session.state
    BY <1>1, <2>4 DEF Page, Revalidate, Cancel, Verify
  <2>5. CASE Launch \/ Open \/ DiskGenius \/ World
    BY <2>5 DEF Launch, Open, DiskGenius, WriteStarts, WriteEnds, GuiCloses, World, Renumber,
      Drift, Expire, Crash, TakeOver
  <2> QED
    BY <1>1, <2>1, <2>2, <2>3, <2>4, <2>5 DEF Next
<1>2. Inv /\ Inv' /\ [Next]_vars
        => [session.state \in Settled /\ session'.id = session.id
             => session'.state = session.state]_vars
  BY <1>1
<1> QED
  BY <1>2, AlwaysInv, PTL DEF Spec, SettledStays

(* The session file tells of a running DiskGenius and of a verified target. *)
THEOREM SessionTrue == Spec => SessionIsTrue
BY AlwaysAccounted, VerifiedIsWritten, SettledIsFinal, PTL DEF SessionIsTrue
=============================================================================
