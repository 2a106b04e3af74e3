--------------------------- MODULE DiskSelection ----------------------------
(***************************************************************************)
(* Which disk a clone erases.  The owner picks a disk by its number and    *)
(* enrolls its identity (_enroll_disk_clone, EnrollmentStore): three times  *)
(* the enrollment looks the identity up in a fresh inventory, and between   *)
(* the last two it takes the disk offline by its NUMBER.  Every run looks   *)
(* the enrolled identity up again (_inventory_validation), gives the        *)
(* provider the number of the disk it found (_build_plan), and judges the   *)
(* partitions it finds afterwards (WindowsStructuralVerifier).  Between any *)
(* two of these steps disks are unplugged, plugged and renumbered.          *)
(*                                                                         *)
(* "shape" stands for model, sector sizes and size in bytes together;      *)
(* disks and partitions are as large as the number says.                   *)
(***************************************************************************)
EXTENDS Naturals, FiniteSets, Sequences

CONSTANTS
  Disks,        \* physical disks
  SystemDisk,   \* the disk Windows runs from
  VaultDisk,    \* the disk the vault's own paths are on
  Numbers,      \* disk numbers Windows gives
  Identities,   \* what the other disks may report
  SystemIdentity,
  Layouts,      \* partition tables the target may have after the provider
  SystemLayout,
  MaxChanges    \* how often the inventory changes (bound of the model)

Nothing == "nothing"
Blank == [serial |-> "", pnp |-> "", uid |-> "", bus |-> "", shape |-> 0]
NoEnrollment == [source |-> Blank, target |-> Blank]

Partitions == [role : {"efi", "msr", "basic_data", "windows", "recovery"},
               fs : {"", "fat32", "ntfs"}, size : Nat]

ASSUME DisksKnown == SystemDisk \in Disks /\ VaultDisk \in Disks
ASSUME NothingIsNoDisk == Nothing \notin Disks
ASSUME BlankIsNoIdentity == Blank \notin Identities \cup {SystemIdentity}
ASSUME LayoutsArePartitions ==
  SystemLayout \in Seq(Partitions) /\ Layouts \subseteq Seq(Partitions)
ASSUME ChangesAreCounted == MaxChanges \in Nat

VARIABLES
  identity,    \* identity[d]: what disk d reports
  slot,        \* slot[n]: the disk that has number n
  pc,          \* where the owner, then the run, is
  choice,      \* identities the enrollment goes on with
  enrollment,  \* the signed manifest
  picked,      \* history: the disk whose row the owner picked
  enrolled,    \* history: the disk whose identity was enrolled
  number,      \* number the next disk operation names
  fresh,       \* history: no change since the inventory number is from
  offlined,    \* disks the enrollment has taken offline
  written,     \* disks the provider has written
  layout,      \* partition table of the target after the provider
  verdict,     \* what the verifier says
  changes      \* how often the inventory has changed

vars == <<identity, slot, pc, choice, enrollment, picked, enrolled, number, fresh,
          offlined, written, layout, verdict, changes>>

----------------------------------------------------------------------------
(* Identities.                                                              *)

Keys == {"serial", "pnp", "uid"}
Stable(i) == {k \in Keys : i[k] # ""}

(* identity_strength: two stable identifiers, the serial among them; a USB  *)
(* bridge needs all three.                                                  *)
Strong(i) ==
  /\ i.serial # "" /\ Cardinality(Stable(i)) >= 2
  /\ i.bus = "usb" => Stable(i) = Keys

(* matches: what the enrolled identity leaves empty is not compared.        *)
SameIdentity(i, e) ==
  /\ \A k \in Keys : e[k] # "" => i[k] = e[k]
  /\ i.shape = e.shape /\ i.bus = e.bus
Matches(i, e) == Strong(i) /\ Strong(e) /\ SameIdentity(i, e)

Inventory == {n \in Numbers : slot[n] # Nothing}
At(n) == identity[slot[n]]
IsSystem(n) == slot[n] = SystemDisk

(* Number n is the only one in S that reports enrolled identity e.          *)
OnlyMatch(S, e, n) == {x \in S : Matches(At(x), e)} = {n}

(* resolved_protected_path_conflicts, given the identifiers the resolver    *)
(* returned for the volume of the vault ({} when it could not tell): they   *)
(* must be those of one strong disk, and not of the target's.               *)
Identifiers(i) == {i[k] : k \in Stable(i)}
Resolves(ids, n) ==
  Strong(At(n)) /\ Cardinality(ids) >= 2 /\ ids \subseteq Identifiers(At(n))

(* Mutant of NoConflict: a path that no disk resolves is taken to be safe.  *)
NoConflictIfUnresolved(ids, t) ==
  \A n \in Inventory : Resolves(ids, n) => ~Matches(At(n), At(t))

NoConflict(ids, t) ==
  \E n \in Inventory : /\ {x \in Inventory : Resolves(ids, x)} = {n}
                       /\ ~Matches(At(n), At(t))

(* Source s and target t are the only disks that report identities e, and   *)
(* the vault is not on t: what each check of the enrollment and each        *)
(* _inventory_validation asks.                                              *)
Authorized(e, s, t, ids) ==
  /\ OnlyMatch({n \in Inventory : IsSystem(n)}, e.source, s)
  /\ OnlyMatch(Inventory, e.target, t)
  /\ NoConflict(ids, t)

(* _inventory_validation and _build_plan.                                   *)
Valid(e, s, t, ids) ==
  /\ Authorized(e, s, t, ids)
  /\ ~SameIdentity(At(s), At(t))
  /\ At(t).shape >= At(s).shape
  /\ s # t

(* What the resolver may answer: the identifiers of the vault's disk, some  *)
(* of them, or nothing.                                                     *)
Resolutions == SUBSET Identifiers(identity[VaultDisk])

----------------------------------------------------------------------------
(* The structural verifier.                                                 *)

Larger(a, b) == IF a > b THEN a ELSE b
Distance(a, b) == IF a > b THEN a - b ELSE b - a
SizeMatches(p, q) ==
  p.size # 0 /\ q.size # 0 => Distance(p.size, q.size) <= Larger(1, p.size \div 100)

TargetRoles(role) == IF role = "windows" THEN {"windows", "basic_data"} ELSE {role}

Equivalent(p, q) ==
  /\ q.role \in TargetRoles(p.role)
  /\ p.fs # "" => q.fs \in {"", p.fs}
  /\ SizeMatches(p, q)

Cost(p, q) == IF p.size = 0 \/ q.size = 0 THEN 0 ELSE Distance(p.size, q.size)

(* Mutant of GreedyMatch: a partition of the target may be matched twice.   *)
GreedyReuse(src, dst) ==
  /\ Len(src) = Len(dst)
  /\ \A k \in 1..Len(src) : \E j \in 1..Len(dst) : Equivalent(src[k], dst[j])

(* The closest of those of the target that are left, the first of equals;   *)
(* {0} stands for a source partition that found nothing.                    *)
Closest(p, dst, R) ==
  CHOOSE j \in R : /\ Equivalent(p, dst[j])
                   /\ \A x \in R : Equivalent(p, dst[x]) =>
                        \/ Cost(p, dst[j]) < Cost(p, dst[x])
                        \/ Cost(p, dst[j]) = Cost(p, dst[x]) /\ j <= x
Match(p, dst, R) ==
  IF \E j \in R \ {0} : Equivalent(p, dst[j]) THEN R \ {Closest(p, dst, R)} ELSE {0}

(* _partition_equivalence: each source partition, in its sorted order,      *)
(* takes one of the target.  left[k] is what is left after the first k.     *)
GreedyMatch(src, dst) ==
  LET left[k \in 0..Len(src)] ==
        IF k = 0 THEN 1..Len(dst) ELSE Match(src[k], dst, left[k - 1])
  IN Len(src) = Len(dst) /\ left[Len(src)] = {}

Roles(parts) == {parts[j].role : j \in 1..Len(parts)}

(* WindowsStructuralVerifier.verify, for a GPT system disk.                 *)
Verified(source, t, parts) ==
  /\ ~SameIdentity(source, At(t))
  /\ "efi" \in Roles(parts)
  /\ GreedyMatch(SystemLayout, parts)
  /\ {"windows", "basic_data"} \cap Roles(parts) # {}

----------------------------------------------------------------------------
Slots ==
  {f \in [Numbers -> Disks \cup {Nothing}] :
     /\ \A m, n \in Numbers : f[m] = f[n] /\ f[m] # Nothing => m = n
     /\ \E n \in Numbers : f[n] = SystemDisk}

Steps == {"idle", "chosen", "asked", "settled", "offlined", "enrolled", "checked",
          "planned", "cloning", "cloned", "success", "failed", "refused"}

Known == Identities \cup {SystemIdentity}
Pairs == [source : {SystemIdentity}, target : Known]

TypeOK ==
  /\ identity \in [Disks -> Known]
  /\ slot \in Slots
  /\ pc \in Steps
  /\ choice \in Pairs \cup {NoEnrollment}
  /\ enrollment \in Pairs \cup {NoEnrollment}
  /\ number \in Numbers \cup {Nothing}
  /\ fresh \in BOOLEAN /\ verdict \in BOOLEAN
  /\ offlined \subseteq Disks \cup {Nothing} /\ written \subseteq Disks \cup {Nothing}
  /\ layout \in Layouts \cup {<<>>}
  /\ changes \in 0..MaxChanges

Init ==
  /\ identity \in {f \in [Disks -> Known] :
                     \A d \in Disks : f[d] = SystemIdentity <=> d = SystemDisk}
  /\ slot \in Slots
  /\ pc = "idle"
  /\ choice = NoEnrollment /\ enrollment = NoEnrollment
  /\ picked = Nothing /\ enrolled = Nothing
  /\ number = Nothing /\ fresh = FALSE
  /\ offlined = {} /\ written = {}
  /\ layout = <<>>
  /\ verdict = FALSE
  /\ changes = 0

(* The owner picks one of the disks in the table by its number.             *)
Choose ==
  /\ pc = "idle"
  /\ \E s, n \in Inventory :
       /\ {x \in Inventory : IsSystem(x)} = {s} /\ n # s
       /\ choice' = [source |-> At(s), target |-> At(n)]
       /\ picked' = slot[n]
  /\ pc' = "chosen"
  /\ UNCHANGED <<identity, slot, enrollment, enrolled, number, fresh, offlined, written,
                 layout, verdict, changes>>

(* refresh_matches and what is asked of its answer, the phrase included.    *)
Refreshed(s, t, ids) ==
  /\ Authorized(choice, s, t, ids)
  /\ ~SameIdentity(At(t), At(s)) /\ ~IsSystem(t)

(* Before the owner types the phrase, and once it is typed.                 *)
Refresh(from, to) ==
  /\ pc = from
  /\ \/ \E s, t \in Inventory, ids \in Resolutions :
          /\ Refreshed(s, t, ids)
          /\ choice' = [source |-> At(s), target |-> At(t)]
          /\ number' = t /\ fresh' = TRUE
          /\ pc' = to
     \/ pc' = "refused" /\ UNCHANGED <<choice, number, fresh>>
  /\ UNCHANGED <<identity, slot, enrollment, picked, enrolled, offlined, written, layout,
                 verdict, changes>>

Ask == Refresh("chosen", "asked")
Settle == Refresh("asked", "settled")

(* lifecycle.set_offline names the disk by its number.                      *)
SetOffline ==
  /\ pc = "settled"
  /\ offlined' = offlined \cup {slot[number]}
  /\ pc' \in {"offlined", "refused"}
  /\ UNCHANGED <<identity, slot, choice, enrollment, picked, enrolled, number, fresh,
                 written, layout, verdict, changes>>

(* Mutant of Enroll: the disk that has the number by now is enrolled        *)
(* unchecked.                                                               *)
EnrollChosenNumber ==
  /\ pc = "offlined"
  /\ slot[number] # Nothing
  /\ enrollment' = [source |-> SystemIdentity, target |-> At(number)]
  /\ enrolled' = slot[number]
  /\ pc' = "enrolled"
  /\ UNCHANGED <<identity, slot, choice, picked, number, fresh, offlined, written, layout,
                 verdict, changes>>

(* The last check and EnrollmentStore.save.                                 *)
Enroll ==
  /\ pc = "offlined"
  /\ \/ \E s, t \in Inventory, ids \in Resolutions :
          /\ Refreshed(s, t, ids) /\ ~SameIdentity(At(s), At(t))
          /\ enrollment' = [source |-> At(s), target |-> At(t)]
          /\ enrolled' = slot[t]
          /\ pc' = "enrolled"
     \/ pc' = "refused" /\ UNCHANGED <<enrollment, enrolled>>
  /\ UNCHANGED <<identity, slot, choice, picked, number, fresh, offlined, written, layout,
                 verdict, changes>>

(* preflight, then the countdown.                                           *)
Preflight ==
  /\ pc = "enrolled"
  /\ \/ /\ \E s, t \in Inventory, ids \in Resolutions : Valid(enrollment, s, t, ids)
        /\ pc' = "checked"
     \/ pc' = "refused"
  /\ UNCHANGED <<identity, slot, choice, enrollment, picked, enrolled, number, fresh,
                 offlined, written, layout, verdict, changes>>

(* The last _last_moment_revalidate: its plan names a disk number.          *)
Plan ==
  /\ pc = "checked"
  /\ \/ /\ \E s, t \in Inventory, ids \in Resolutions :
             /\ Valid(enrollment, s, t, ids)
             /\ number' = t
        /\ fresh' = TRUE
        /\ pc' = "planned"
     \/ pc' = "refused" /\ UNCHANGED <<number, fresh>>
  /\ UNCHANGED <<identity, slot, choice, enrollment, picked, enrolled, offlined, written,
                 layout, verdict, changes>>

(* provider.start: the provider writes the disk that has the number now.    *)
StartProvider ==
  /\ pc = "planned"
  /\ written' = written \cup {slot[number]}
  /\ pc' = "cloning"
  /\ UNCHANGED <<identity, slot, choice, enrollment, picked, enrolled, number, fresh,
                 offlined, layout, verdict, changes>>

ProviderEnds ==
  /\ pc = "cloning"
  /\ layout' \in Layouts
  /\ pc' \in {"cloned", "failed"}
  /\ UNCHANGED <<identity, slot, choice, enrollment, picked, enrolled, number, fresh,
                 offlined, written, verdict, changes>>

(* The target is looked up again in a new inventory; the source is compared *)
(* as the plan found it.                                                    *)
Verify ==
  /\ pc = "cloned"
  /\ verdict' = \E t \in Inventory : /\ OnlyMatch(Inventory, enrollment.target, t)
                                     /\ Verified(SystemIdentity, t, layout)
  /\ pc' = IF verdict' THEN "success" ELSE "failed"
  /\ UNCHANGED <<identity, slot, choice, enrollment, picked, enrolled, number, fresh,
                 offlined, written, layout, changes>>

(* Disks come, go and change their numbers.                                 *)
Change ==
  /\ changes < MaxChanges
  /\ slot' \in Slots \ {slot}
  /\ changes' = changes + 1
  /\ fresh' = FALSE
  /\ UNCHANGED <<identity, pc, choice, enrollment, picked, enrolled, number,
                 offlined, written, layout, verdict>>

Next ==
  \/ Choose \/ Ask \/ Settle \/ SetOffline \/ Enroll
  \/ Preflight \/ Plan \/ StartProvider \/ ProviderEnds \/ Verify \/ Change

Spec == Init /\ [][Next]_vars

----------------------------------------------------------------------------
(* Properties.                                                              *)

(* The manifest binds the disk the owner picked from the table, not the one *)
(* that has its number by then, unless another disk answers to the identity *)
(* of the one picked (_enroll_disk_clone, cli.py:914-969).                  *)
EnrolledIsPicked ==
  enrolled # Nothing =>
    \/ enrolled = picked
    \/ \E d \in Disks \ {picked} : Matches(identity[d], identity[picked])

(* The provider writes the enrolled disk and no other, unless another disk  *)
(* answers to the enrolled identity or the numbers have changed since the   *)
(* last revalidation (disk_clone.py:1703).                                  *)
OnlyEnrolledIsWritten ==
  pc = "planned" /\ fresh =>
    \/ slot[number] = enrolled
    \/ \E d \in Disks \ {enrolled} : Matches(identity[d], enrollment.target)

(* Whatever disks report, a number from a fresh inventory under which a     *)
(* disk is taken offline or cloned onto is not the one of the system disk   *)
(* or of the disk of the vault (cli.py:952, disk_clone.py:1703).            *)
VaultAndSystemSpared ==
  pc \in {"settled", "planned"} /\ fresh => slot[number] \notin {SystemDisk, VaultDisk}

(* Whatever was renumbered meanwhile, the disk that is written is enrolled  *)
(* and neither the system's nor the vault's.                                *)
SafeSelection == TypeOK /\ OnlyEnrolledIsWritten /\ VaultAndSystemSpared

(* What the greedy comparison accepts is a one-to-one correspondence of the *)
(* partitions (_partition_equivalence, disk_clone.py:1034).                 *)
SuccessIsStructural ==
  pc = "success" =>
    \E f \in [1..Len(SystemLayout) -> 1..Len(layout)] :
      /\ \A j \in 1..Len(layout) : \E k \in 1..Len(SystemLayout) : f[k] = j
      /\ \A k \in 1..Len(SystemLayout) : Equivalent(SystemLayout[k], layout[f[k]])
=============================================================================
