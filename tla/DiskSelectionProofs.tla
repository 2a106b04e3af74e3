------------------------- MODULE DiskSelectionProofs -------------------------
(***************************************************************************)
(* Proofs about the selection of the disk a clone erases, for any disks,   *)
(* numbers and identities and any number of renumberings.                  *)
(***************************************************************************)
EXTENDS DiskSelection, Integers, WellFoundedInduction, TLAPS

Deciding == {"chosen", "asked", "settled", "offlined"}

(* No disk changes what it reports, and only the system disk reports what the
   system disk does; a number that is acted on was found in an inventory. *)
Bookkeeping ==
  /\ identity[SystemDisk] = SystemIdentity
  /\ picked \in Disks \cup {Nothing} /\ enrolled \in Disks \cup {Nothing}
  /\ pc = "idle" => enrolled = Nothing
  /\ pc \in {"settled", "planned"} => number \in Numbers
  /\ pc \in Deciding => picked \in Disks /\ choice \in Pairs

(* The identity the enrollment goes on with, however often it was looked up
   again, is that of the disk picked or one that answers to it. *)
ChoiceIsPicked ==
  pc \in Deciding =>
    \/ choice.target = identity[picked]
    \/ Matches(choice.target, identity[picked])

(* A fresh number a run acts on is that of a disk that answers to the enrolled
   identity. *)
PlannedAnswers ==
  pc = "planned" /\ fresh =>
    slot[number] \in Disks /\ Matches(identity[slot[number]], enrollment.target)

SelectionInv ==
  /\ TypeOK /\ Bookkeeping /\ ChoiceIsPicked /\ EnrolledIsPicked
  /\ PlannedAnswers /\ VaultAndSystemSpared

(* What success was said of. *)
SuccessMatches == pc = "success" => GreedyMatch(SystemLayout, layout)

------------------------------------------------------------------------------
(* Identities, numbers and paths. *)

(* What answers to a disk that answers to an identity answers to the identity:
   each of them has the identifiers the one before it had. *)
LEMMA MatchesChain ==
  ASSUME NEW i, NEW e, NEW o, Matches(i, e), Matches(e, o) PROVE Matches(i, o)
BY DEF Matches, SameIdentity

LEMMA MatchesItself ==
  ASSUME NEW i, Strong(i) PROVE Matches(i, i)
BY DEF Matches, SameIdentity

LEMMA InventoryTyped ==
  ASSUME slot \in Slots, identity \in [Disks -> Known], NEW n \in Inventory
  PROVE  n \in Numbers /\ slot[n] \in Disks /\ At(n) \in Known /\ At(n) = identity[slot[n]]
BY DEF Slots, Inventory, At

(* A path whose identifiers, as few as the resolver returned, single out a disk
   of the inventory is not taken to be elsewhere when it is on the target. *)
LEMMA VaultElsewhere ==
  ASSUME NEW t \in Inventory, NEW ids \in Resolutions, Strong(At(t)), NoConflict(ids, t)
  PROVE  slot[t] # VaultDisk
<1> SUFFICES ASSUME slot[t] = VaultDisk PROVE FALSE
  OBVIOUS
<1>1. PICK n \in Inventory : /\ {x \in Inventory : Resolves(ids, x)} = {n}
                             /\ ~Matches(At(n), At(t))
  BY DEF NoConflict
<1>2. ids \subseteq Identifiers(At(t))
  BY DEF Resolutions, At
<1>3. Cardinality(ids) >= 2
  BY <1>1 DEF Resolves
<1>4. Resolves(ids, t)
  BY <1>2, <1>3 DEF Resolves
<1>5. t = n
  BY <1>1, <1>4
<1> QED BY <1>1, <1>5, MatchesItself

(* What the checks of the enrollment and of every run have in common. *)
LEMMA AuthorizedTarget ==
  ASSUME slot \in Slots, identity \in [Disks -> Known], NEW e, NEW s \in Inventory,
         NEW t \in Inventory, NEW ids \in Resolutions, Authorized(e, s, t, ids)
  PROVE  /\ IsSystem(s) /\ Matches(At(t), e.target)
         /\ slot[t] \in Disks /\ slot[t] # VaultDisk
<1>1. IsSystem(s) /\ Matches(At(t), e.target)
  BY DEF Authorized, OnlyMatch
<1>2. slot[t] # VaultDisk
  BY <1>1, VaultElsewhere DEF Authorized, Matches
<1> QED BY <1>1, <1>2, InventoryTyped

LEMMA RefreshedTarget ==
  ASSUME TypeOK, Bookkeeping, ChoiceIsPicked, pc \in Deciding, NEW s \in Inventory,
         NEW t \in Inventory, NEW ids \in Resolutions, Refreshed(s, t, ids)
  PROVE  /\ Matches(At(t), identity[picked])
         /\ [source |-> At(s), target |-> At(t)] \in Pairs
         /\ slot[t] \in Disks /\ slot[t] \notin {SystemDisk, VaultDisk}
<1>1. /\ IsSystem(s) /\ Matches(At(t), choice.target)
      /\ slot[t] \in Disks /\ slot[t] # VaultDisk
  BY AuthorizedTarget DEF Refreshed, TypeOK
<1>2. Matches(At(t), identity[picked])
  BY <1>1, MatchesChain DEF ChoiceIsPicked
<1>3. At(s) = SystemIdentity /\ At(t) \in Known
  BY <1>1, InventoryTyped DEF IsSystem, At, Bookkeeping, TypeOK
<1> QED BY <1>1, <1>2, <1>3 DEF Refreshed, IsSystem, Pairs

(* The number a run is planned with. *)
LEMMA ValidTarget ==
  ASSUME TypeOK, NEW s \in Inventory, NEW t \in Inventory, NEW ids \in Resolutions,
         Valid(enrollment, s, t, ids)
  PROVE  /\ Matches(identity[slot[t]], enrollment.target)
         /\ slot[t] \in Disks /\ slot[t] \notin {SystemDisk, VaultDisk}
<1>1. /\ IsSystem(s) /\ Matches(At(t), enrollment.target)
      /\ slot[t] \in Disks /\ slot[t] # VaultDisk /\ s # t
  BY AuthorizedTarget DEF Valid, TypeOK
<1>2. slot[t] # SystemDisk
  BY <1>1, InventoryTyped DEF IsSystem, TypeOK, Slots, Inventory
<1> QED BY <1>1, <1>2 DEF At

------------------------------------------------------------------------------
(* Counting.  The order of the numbers is well-founded, so a set of numbers that
   is not empty has a least one, and what holds of 0 and passes from a number to
   the next holds of all: the form of induction used below, over sets. *)

Below == {ss \in Nat \X Nat : ss[1] < ss[2]}

LEMMA BelowIsWellFounded == IsWellFoundedOn(Below, Nat)
<1>1. OpToRel(<, Nat) = {ss \in Nat \X Nat : ss[1] < ss[2]}
  BY Zenon DEF OpToRel
<1> QED BY <1>1, NatLessThanWellFounded DEF Below

LEMMA LeastNumber ==
  ASSUME NEW S \in SUBSET Nat, S # {} PROVE \E x \in S : \A y \in S : x <= y
<1>1. PICK x \in S : \A y \in S : ~(<<y, x>> \in Below)
  BY WFMin, BelowIsWellFounded
<1>2. ASSUME NEW y \in S PROVE x <= y
  <2>1. <<y, x>> \in Nat \X Nat /\ <<y, x>>[1] = y /\ <<y, x>>[2] = x
    OBVIOUS
  <2>2. ~(y < x)
    BY <1>1, <2>1 DEF Below
  <2> QED BY <2>2
<1> QED BY <1>2

LEMMA Upward ==
  ASSUME NEW T \in SUBSET Nat, 0 \in T, \A n \in T : n + 1 \in T PROVE T = Nat
<1> SUFFICES ASSUME Nat \ T # {} PROVE FALSE
  OBVIOUS
<1>1. PICK n \in Nat \ T : \A m \in Nat \ T : n <= m
  BY LeastNumber
<1>2. n # 0 /\ n - 1 \in Nat
  BY <1>1
<1>3. n - 1 \in T
  BY <1>1, <1>2
<1> QED BY <1>2, <1>3

------------------------------------------------------------------------------
(* The comparison of the partitions. *)

LEMMA CostIsNumber ==
  ASSUME NEW p \in Partitions, NEW q \in Partitions PROVE Cost(p, q) \in Nat
<1>1. p.size \in Nat /\ q.size \in Nat
  BY DEF Partitions
<1>2. \A a, b \in Nat : Distance(a, b) \in Nat
  BY DEF Distance
<1>3. Distance(p.size, q.size) \in Nat
  BY <1>1, <1>2
<1> QED BY <1>3 DEF Cost

(* Of the candidates one is the closest, and it is a candidate. *)
LEMMA ClosestIsCandidate ==
  ASSUME NEW dst \in Seq(Partitions), NEW p \in Partitions, NEW R \in SUBSET (1..Len(dst)),
         \E j \in R : Equivalent(p, dst[j])
  PROVE  Closest(p, dst, R) \in R /\ Equivalent(p, dst[Closest(p, dst, R)])
<1> DEFINE Candidates == {j \in R : Equivalent(p, dst[j])}
           Costs == {Cost(p, dst[j]) : j \in Candidates}
<1>1. \A j \in R : j \in Nat /\ dst[j] \in Partitions /\ Cost(p, dst[j]) \in Nat
  <2> TAKE j \in R
  <2>1. Len(dst) \in Nat /\ j \in 1..Len(dst)
    OBVIOUS
  <2>2. j \in Nat /\ dst[j] \in Partitions
    BY <2>1
  <2> QED BY <2>2, CostIsNumber
<1>2. PICK c \in Costs : \A d \in Costs : c <= d
  <2>1. Costs \in SUBSET Nat /\ Costs # {}
    BY <1>1
  <2> QED BY <2>1, LeastNumber
<1>3. PICK i \in {j \in Candidates : Cost(p, dst[j]) = c} :
        \A x \in {j \in Candidates : Cost(p, dst[j]) = c} : i <= x
  <2>1. /\ {j \in Candidates : Cost(p, dst[j]) = c} \in SUBSET Nat
        /\ {j \in Candidates : Cost(p, dst[j]) = c} # {}
    BY <1>1, <1>2
  <2> HIDE DEF Candidates
  <2> QED BY <2>1, LeastNumber
<1>4. ASSUME NEW x \in R, Equivalent(p, dst[x])
      PROVE  \/ Cost(p, dst[i]) < Cost(p, dst[x])
             \/ Cost(p, dst[i]) = Cost(p, dst[x]) /\ i <= x
  <2>1. Cost(p, dst[i]) = c /\ c <= Cost(p, dst[x]) /\ c \in Nat /\ Cost(p, dst[x]) \in Nat
    BY <1>1, <1>2, <1>3, <1>4
  <2>2. Cost(p, dst[x]) = c => i <= x
    BY <1>3, <1>4
  <2> QED BY <2>1, <2>2
<1>5. i \in R /\ Equivalent(p, dst[i])
  BY <1>3
<1> QED BY <1>4, <1>5 DEF Closest

(* What is left after each partition of the source is well defined. *)
LEMMA LeftIsDefined ==
  ASSUME NEW src, NEW dst, NEW N \in Nat
  PROVE  \E g : g = [k \in 0..N |-> IF k = 0 THEN 1..Len(dst)
                                    ELSE Match(src[k], dst, g[k - 1])]
<1> DEFINE Rec(g, n) == [k \in 0..n |-> IF k = 0 THEN 1..Len(dst)
                                        ELSE Match(src[k], dst, g[k - 1])]
           T == {n \in Nat : \E g : g = Rec(g, n)}
<1>1. 0 \in T
  <2> DEFINE g == [k \in 0..0 |-> 1..Len(dst)]
  <2>1. g = Rec(g, 0)
    OBVIOUS
  <2> QED BY <2>1
<1>2. ASSUME NEW n \in T PROVE n + 1 \in T
  <2>1. PICK g : g = Rec(g, n)
    OBVIOUS
  <2> DEFINE h == [k \in 0..(n + 1) |-> IF k <= n THEN g[k]
                                        ELSE Match(src[n + 1], dst, g[n])]
  <2>2. ASSUME NEW k \in 0..(n + 1)
        PROVE  h[k] = IF k = 0 THEN 1..Len(dst) ELSE Match(src[k], dst, h[k - 1])
    <3>1. CASE k = 0
      BY <2>1, <3>1
    <3>2. CASE k \in 1..n
      <4>1. k - 1 \in 0..n /\ k - 1 <= n /\ h[k - 1] = g[k - 1] /\ h[k] = g[k]
        BY <3>2
      <4>2. g[k] = Match(src[k], dst, g[k - 1])
        BY <2>1, <3>2
      <4> QED BY <3>2, <4>1, <4>2
    <3>3. CASE k = n + 1
      <4>1. k - 1 = n /\ h[n] = g[n] /\ h[k] = Match(src[n + 1], dst, g[n])
        BY <3>3
      <4> QED BY <3>3, <4>1
    <3> QED BY <3>1, <3>2, <3>3
  <2>3. h = Rec(h, n + 1)
    BY <2>2
  <2>4. \E x : x = Rec(x, n + 1)
    BY <2>3
  <2>5. n + 1 \in Nat
    OBVIOUS
  <2> QED BY <2>4, <2>5
<1>3. T = Nat
  BY <1>1, <1>2, Upward
<1> QED BY <1>3

(* Each partition of the source, if each found one, has one of the target of its
   own, and none is left: the greedy choice gives a one-to-one correspondence. *)
LEMMA GreedyIsOneToOne ==
  ASSUME NEW src \in Seq(Partitions), NEW dst \in Seq(Partitions), GreedyMatch(src, dst)
  PROVE  \E f \in [1..Len(src) -> 1..Len(dst)] :
           /\ \A j \in 1..Len(dst) : \E k \in 1..Len(src) : f[k] = j
           /\ \A k \in 1..Len(src) : Equivalent(src[k], dst[f[k]])
<1> DEFINE N == Len(src)
           M == Len(dst)
           left == CHOOSE g : g = [k \in 0..N |-> IF k = 0 THEN 1..M
                                                  ELSE Match(src[k], dst, g[k - 1])]
           taken(k) == Closest(src[k], dst, left[k - 1])
           Found(n) == /\ \A k \in 1..n : taken(k) \in 1..M /\ Equivalent(src[k], dst[taken(k)])
                       /\ left[n] = (1..M) \ {taken(k) : k \in 1..n}
           T == {n \in Nat : n <= N => left[n] = {0} \/ Found(n)}
<1>0. N \in Nat /\ M \in Nat /\ \A k \in 1..N : src[k] \in Partitions
  OBVIOUS
<1>1. left = [k \in 0..N |-> IF k = 0 THEN 1..M ELSE Match(src[k], dst, left[k - 1])]
  <2> DEFINE P(g) == g = [k \in 0..N |-> IF k = 0 THEN 1..M
                                       ELSE Match(src[k], dst, g[k - 1])]
  <2>1. \E g : P(g)
    BY <1>0, LeftIsDefined
  <2>2. P(CHOOSE g : P(g))
    <3> HIDE DEF P
    <3> QED BY <2>1
  <2> QED BY <2>2
<1>2. left[N] = {}
  BY DEF GreedyMatch
<1> HIDE DEF left
<1>3. 0 \in T
  BY <1>0, <1>1
<1>4. ASSUME NEW n \in T PROVE n + 1 \in T
  <2> DEFINE m == n + 1
  <2>0. m \in Nat /\ n \in Nat /\ m - 1 = n /\ m # 0
    OBVIOUS
  <2> HIDE DEF m
  <2> SUFFICES ASSUME m <= N PROVE left[m] = {0} \/ Found(m)
    BY <2>0 DEF m
  <2>1. left[m] = Match(src[m], dst, left[n]) /\ m \in 1..N
    <3>1. m \in 1..N /\ m \in 0..N
      BY <1>0, <2>0
    <3> QED BY <1>1, <2>0, <3>1
  <2>5. n <= N /\ 1..m = (1..n) \cup {m}
    BY <1>0, <2>0 DEF m
  <2>6. left[n] = {0} \/ Found(n)
    BY <2>5
  <2>7. taken(m) = Closest(src[m], dst, left[n])
    BY <2>0
  <2> HIDE DEF taken
  <2>2. CASE ~\E j \in left[n] \ {0} : Equivalent(src[m], dst[j])
    BY <2>1, <2>2 DEF Match
  <2>3. CASE \E j \in left[n] \ {0} : Equivalent(src[m], dst[j])
    <3>1. Found(n)
      BY <2>3, <2>6
    <3>2. left[n] \in SUBSET (1..M)
      BY <3>1
    <3>3. taken(m) \in left[n] /\ Equivalent(src[m], dst[taken(m)])
      BY <1>0, <2>1, <2>3, <2>7, <3>2, ClosestIsCandidate
    <3>4. left[m] = left[n] \ {taken(m)}
      BY <2>1, <2>3, <2>7 DEF Match
    <3>5. \A k \in 1..m : taken(k) \in 1..M /\ Equivalent(src[k], dst[taken(k)])
      BY <2>5, <3>1, <3>2, <3>3
    <3>6. left[m] = (1..M) \ {taken(k) : k \in 1..m}
      BY <2>5, <3>1, <3>4
    <3> QED BY <3>5, <3>6
  <2> QED BY <2>2, <2>3
<1>5. T = Nat
  BY <1>3, <1>4, Upward
<1>6. Found(N)
  <2>1. N \in T
    BY <1>0, <1>5
  <2>2. left[N] = {0} \/ Found(N)
    BY <1>0, <2>1
  <2> QED BY <1>2, <2>2
<1> DEFINE f == [k \in 1..N |-> taken(k)]
<1>7. f \in [1..N -> 1..M]
  BY <1>6
<1>8. \A k \in 1..N : Equivalent(src[k], dst[f[k]])
  BY <1>6
<1>9. \A j \in 1..M : \E k \in 1..N : f[k] = j
  <2> HIDE DEF taken
  <2> QED BY <1>2, <1>6
<1> QED BY <1>7, <1>8, <1>9

------------------------------------------------------------------------------
(* The steps. *)

LEMMA InitSelection == Init => SelectionInv
<1>1. Init => TypeOK
  <2>1. 0 \in 0..MaxChanges
    BY ChangesAreCounted
  <2> QED BY <2>1 DEF Init, TypeOK, Steps
<1>2. Init => Bookkeeping
  BY DisksKnown DEF Init, Bookkeeping, Deciding
<1> QED BY <1>1, <1>2 DEF Init, SelectionInv, ChoiceIsPicked, EnrolledIsPicked,
     PlannedAnswers, VaultAndSystemSpared, Deciding

LEMMA ChooseKeeps == SelectionInv /\ Choose => SelectionInv'
<1> SUFFICES ASSUME SelectionInv, Choose PROVE SelectionInv'
  OBVIOUS
<1>1. PICK s \in Inventory, n \in Inventory :
        /\ {x \in Inventory : IsSystem(x)} = {s}
        /\ choice' = [source |-> At(s), target |-> At(n)]
        /\ picked' = slot[n]
  BY DEF Choose
<1>2. At(s) = SystemIdentity /\ At(n) \in Known /\ slot[n] \in Disks /\ At(n) = identity[slot[n]]
  BY <1>1, InventoryTyped DEF SelectionInv, IsSystem, At, Bookkeeping, TypeOK
<1>3. choice' \in Pairs /\ choice'.target = identity[picked'] /\ picked' \in Disks
  BY <1>1, <1>2 DEF Pairs
<1>4. enrolled = Nothing
  BY DEF Choose, SelectionInv, Bookkeeping
<1> QED BY <1>3, <1>4 DEF Choose, SelectionInv, TypeOK, Bookkeeping, ChoiceIsPicked,
     EnrolledIsPicked, PlannedAnswers, VaultAndSystemSpared, Deciding, Steps

LEMMA RefreshKeeps ==
  ASSUME SelectionInv, NEW from \in {"chosen", "asked"}, NEW to \in {"asked", "settled"},
         Refresh(from, to)
  PROVE  SelectionInv'
<1> USE DEF SelectionInv, TypeOK, Bookkeeping, ChoiceIsPicked, EnrolledIsPicked,
     PlannedAnswers, VaultAndSystemSpared, Deciding, Steps
<1>1. CASE pc' = "refused" /\ UNCHANGED <<choice, number, fresh>>
  BY <1>1 DEF Refresh
<1>2. ASSUME NEW s \in Inventory, NEW t \in Inventory, NEW ids \in Resolutions,
             Refreshed(s, t, ids), choice' = [source |-> At(s), target |-> At(t)],
             number' = t, pc' = to
      PROVE  SelectionInv'
  <2>1. /\ Matches(choice'.target, identity[picked]) /\ choice' \in Pairs
        /\ number' \in Numbers /\ slot[number'] \notin {SystemDisk, VaultDisk}
    BY <1>2, RefreshedTarget DEF Refresh, Inventory
  <2> QED BY <1>2, <2>1 DEF Refresh
<1> QED BY <1>1, <1>2 DEF Refresh

LEMMA SetOfflineKeeps == SelectionInv /\ SetOffline => SelectionInv'
<1> SUFFICES ASSUME SelectionInv, SetOffline PROVE SelectionInv'
  OBVIOUS
<1>1. slot[number] \in Disks \cup {Nothing}
  BY DEF SelectionInv, Bookkeeping, SetOffline, TypeOK, Slots
<1> QED BY <1>1 DEF SetOffline, SelectionInv, TypeOK, Bookkeeping, ChoiceIsPicked,
     EnrolledIsPicked, PlannedAnswers, VaultAndSystemSpared, Deciding, Steps

(* What is enrolled under whatever number it has by now answers to the disk
   picked. *)
LEMMA EnrollKeeps == SelectionInv /\ Enroll => SelectionInv'
<1> SUFFICES ASSUME SelectionInv, Enroll PROVE SelectionInv'
  OBVIOUS
<1> USE DEF SelectionInv, TypeOK, Bookkeeping, ChoiceIsPicked, EnrolledIsPicked,
     PlannedAnswers, VaultAndSystemSpared, Deciding, Steps
<1>1. CASE pc' = "refused" /\ UNCHANGED <<enrollment, enrolled>>
  BY <1>1 DEF Enroll
<1>2. ASSUME NEW s \in Inventory, NEW t \in Inventory, NEW ids \in Resolutions,
             Refreshed(s, t, ids), enrollment' = [source |-> At(s), target |-> At(t)],
             enrolled' = slot[t], pc' = "enrolled"
      PROVE  SelectionInv'
  <2>1. /\ Matches(identity[enrolled'], identity[picked]) /\ enrolled' \in Disks
        /\ enrollment' \in Pairs
    BY <1>2, RefreshedTarget DEF Enroll, At
  <2>2. EnrolledIsPicked'
    BY <2>1 DEF Enroll
  <2> QED BY <1>2, <2>1, <2>2 DEF Enroll
<1> QED BY <1>1, <1>2 DEF Enroll

LEMMA PlanKeeps == SelectionInv /\ Plan => SelectionInv'
<1> SUFFICES ASSUME SelectionInv, Plan PROVE SelectionInv'
  OBVIOUS
<1> USE DEF SelectionInv, TypeOK, Bookkeeping, ChoiceIsPicked, EnrolledIsPicked,
     PlannedAnswers, VaultAndSystemSpared, Deciding, Steps
<1>1. CASE pc' = "refused" /\ UNCHANGED <<number, fresh>>
  BY <1>1 DEF Plan
<1>2. ASSUME NEW s \in Inventory, NEW t \in Inventory, NEW ids \in Resolutions,
             Valid(enrollment, s, t, ids), number' = t, fresh' = TRUE, pc' = "planned"
      PROVE  SelectionInv'
  <2>1. /\ Matches(identity[slot[number']], enrollment.target) /\ number' \in Numbers
        /\ slot[number'] \in Disks /\ slot[number'] \notin {SystemDisk, VaultDisk}
    BY <1>2, ValidTarget DEF Inventory
  <2> QED BY <1>2, <2>1 DEF Plan
<1> QED BY <1>1, <1>2 DEF Plan

LEMMA RunKeeps ==
  SelectionInv /\ (Preflight \/ StartProvider \/ ProviderEnds \/ Verify) => SelectionInv'
<1> SUFFICES ASSUME SelectionInv, Preflight \/ StartProvider \/ ProviderEnds \/ Verify
             PROVE  SelectionInv'
  OBVIOUS
<1> USE DEF SelectionInv, TypeOK, Bookkeeping, ChoiceIsPicked, EnrolledIsPicked,
     PlannedAnswers, VaultAndSystemSpared, Deciding, Steps
<1>1. CASE Preflight
  BY <1>1 DEF Preflight
<1>2. CASE StartProvider
  <2>1. slot[number] \in Disks \cup {Nothing}
    BY <1>2 DEF StartProvider, Slots
  <2> QED BY <1>2, <2>1 DEF StartProvider
<1>3. CASE ProviderEnds
  BY <1>3 DEF ProviderEnds
<1>4. CASE Verify
  <2>1. verdict' \in BOOLEAN /\ pc' \in {"success", "failed"}
    BY <1>4 DEF Verify
  <2> QED BY <1>4, <2>1 DEF Verify
<1> QED BY <1>1, <1>2, <1>3, <1>4

LEMMA ChangeKeeps == SelectionInv /\ Change => SelectionInv'
<1>1. TypeOK /\ Change => TypeOK'
  <2>1. TypeOK /\ Change => changes' \in 0..MaxChanges
    BY ChangesAreCounted DEF Change, TypeOK
  <2> QED BY <2>1 DEF Change, TypeOK
<1>2. Bookkeeping /\ Change => Bookkeeping'
  BY DEF Change, Bookkeeping, Deciding
<1>3. ChoiceIsPicked /\ EnrolledIsPicked /\ Change => ChoiceIsPicked' /\ EnrolledIsPicked'
  BY DEF Change, ChoiceIsPicked, EnrolledIsPicked, Deciding
<1> QED BY <1>1, <1>2, <1>3 DEF Change, SelectionInv, PlannedAnswers, VaultAndSystemSpared

LEMMA SelectionInvariance == Spec => []SelectionInv
<1>1. SelectionInv /\ [Next]_vars => SelectionInv'
  <2> SUFFICES ASSUME SelectionInv, [Next]_vars PROVE SelectionInv'
    OBVIOUS
  <2>1. CASE Ask \/ Settle
    BY <2>1, RefreshKeeps DEF Ask, Settle
  <2>2. CASE UNCHANGED vars
    BY <2>2 DEF vars, SelectionInv, TypeOK, Bookkeeping, ChoiceIsPicked, EnrolledIsPicked,
       PlannedAnswers, VaultAndSystemSpared
  <2> QED BY <2>1, <2>2, ChooseKeeps, SetOfflineKeeps, EnrollKeeps, PlanKeeps, RunKeeps,
       ChangeKeeps DEF Next
<1> QED BY <1>1, InitSelection, PTL DEF Spec

(* Only the verification says success, and nothing it was said of changes. *)
LEMMA SuccessIsMatched == Spec => []SuccessMatches
<1>1. Init => SuccessMatches
  BY DEF Init, SuccessMatches
<1>2. SuccessMatches /\ [Next]_vars => SuccessMatches'
  <2> SUFFICES ASSUME SuccessMatches, [Next]_vars PROVE SuccessMatches'
    OBVIOUS
  <2> USE DEF SuccessMatches
  <2>1. CASE Choose \/ SetOffline \/ Enroll \/ Preflight \/ Plan
    BY <2>1 DEF Choose, SetOffline, Enroll, Preflight, Plan
  <2>2. CASE Ask \/ Settle
    BY <2>2 DEF Ask, Settle, Refresh
  <2>3. CASE StartProvider \/ ProviderEnds
    BY <2>3 DEF StartProvider, ProviderEnds
  <2>4. CASE Verify
    BY <2>4 DEF Verify, Verified
  <2>5. CASE Change \/ UNCHANGED vars
    BY <2>5 DEF Change, vars
  <2> QED BY <2>1, <2>2, <2>3, <2>4, <2>5 DEF Next
<1> QED BY <1>1, <1>2, PTL DEF Spec

------------------------------------------------------------------------------
(* Theorems. *)

(* The manifest binds the disk the owner picked or one that answers to its
   identity, whatever is unplugged, plugged and renumbered between the table, the
   phrase, the taking offline and the last look (_enroll_disk_clone). *)
THEOREM EnrolledPicked == Spec => []EnrolledIsPicked
<1>1. SelectionInv => EnrolledIsPicked
  BY DEF SelectionInv
<1> QED BY <1>1, SelectionInvariance, PTL

(* The disk a plan names, unless numbers have changed since, is the enrolled one
   or answers to its identity, and it is neither the system's nor the vault's;
   nor is the one that is taken offline (_last_moment_revalidate, _build_plan,
   resolved_protected_path_conflicts). *)
THEOREM SelectionSafe == Spec => []SafeSelection
<1>1. SelectionInv => OnlyEnrolledIsWritten
  BY DEF SelectionInv, PlannedAnswers, OnlyEnrolledIsWritten
<1>2. SelectionInv => SafeSelection
  BY <1>1 DEF SelectionInv, SafeSelection
<1> QED BY <1>2, SelectionInvariance, PTL

(* Success is said of a target whose partitions correspond one to one to those
   of the source, whatever the number, the kinds and the sizes of them
   (_partition_equivalence). *)
THEOREM SuccessStructural == Spec => []SuccessIsStructural
<1>1. SelectionInv /\ SuccessMatches => SuccessIsStructural
  <2> SUFFICES ASSUME SelectionInv, SuccessMatches, pc = "success" PROVE SuccessIsStructural
    BY DEF SuccessIsStructural
  <2>1. SystemLayout \in Seq(Partitions) /\ layout \in Seq(Partitions)
    <3>1. layout \in Layouts \/ layout = <<>>
      BY DEF SelectionInv, TypeOK
    <3>2. layout = <<>> => layout \in Seq(Partitions)
      OBVIOUS
    <3> QED BY <3>1, <3>2, LayoutsArePartitions
  <2>2. GreedyMatch(SystemLayout, layout)
    BY DEF SuccessMatches
  <2> QED BY <2>1, <2>2, GreedyIsOneToOne DEF SuccessIsStructural
<1> QED BY <1>1, SelectionInvariance, SuccessIsMatched, PTL
==============================================================================
