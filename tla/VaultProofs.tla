----------------------------- MODULE VaultProofs -----------------------------
(***************************************************************************)
(* Proofs about what the vault holds: the imports of mail and photos        *)
(* (MailArchive), for any mails and days, any number of failures, renames   *)
(* and requests of the viewer; and the replica and the restore              *)
(* (VaultCopies), for any files, any number of commands beside each other,  *)
(* of changes and of crashes.  Each lemma is about one of the two.          *)
(***************************************************************************)
EXTENDS MailArchive, VaultCopies, FiniteSetTheorems, WellFoundedInduction, TLAPS

------------------------------------------------------------------------------
(* The imports: MailInv is what every step keeps. *)

Later == {"list", "sync", "move", "photos", "mail"}
Phases == Later \cup {"idle", "clean", "save", "take"}
Jobs == [phase : Phases, rest : Seq(Later), limit : BOOLEAN, todo : SUBSET Items,
         top : Days, last : Mails \cup {Nothing}, counted : SUBSET Items]
Renames == [on : BOOLEAN, todo : SUBSET Mails, names : [Mails -> 0..MaxNames],
            moved : SUBSET (Mails \X (1..MaxNames))]

(* What is open has no row that is not committed. *)
Fewer == \A i \in Items : draft[i].name # 0 => row[i].name # 0

(* What is not yet committed is the job's while it imports or cleans, the rename's,
   which makes no row and drops none, or that of a cleaning by the viewer; a cleaning
   only drops rows. *)
Transactions ==
  /\ tx = "job" => job.phase \in {"clean", "save", "take"}
  /\ tx = "job" /\ job.phase = "clean" => Fewer
  /\ tx = "viewer" => sweep["viewer"].on /\ Fewer
  /\ tx = "rename" => ren.on /\ \A i \in Items : draft[i].name = 0 <=> row[i].name = 0
  /\ ren.todo # {} \/ ren.moved # {} => ren.on
  /\ sweep["job"].on => job.phase = "clean"
  /\ \A who \in {"job", "viewer"} :
       sweep[who].todo # {} \/ sweep[who].missing # {} => sweep[who].on

(* IndexedIsKept, of what is not committed too. *)
AllKept == \A i \in Items : row[i].name # 0 \/ draft[i].name # 0 => Kept(i)

(* What a job counts is in the index as the job sees it, or the viewer took it out. *)
CountedListed ==
  /\ job.phase \in {"idle", "clean"} => job.counted = {}
  /\ \A i \in job.counted : View("job")[i].name # 0 \/ i \in dropped

(* Without a watermark no mail is indexed; with one, all that is older by more
   than the overlap is in the vault, and it is the day of a mail that arrived. *)
Watermark ==
  ~partial =>
    /\ mark = 0 => \A m \in Mails : row[m].name = 0
    /\ mark # 0 => /\ \A m \in arrived : Kept(m) \/ mark <= Date[m] + Overlap
                   /\ \E a \in arrived : mark <= Date[a]

(* While a whole backup saves, a mail that is neither in the vault nor on its list
   came after the list was made, and none of the list is much newer. *)
Saving ==
  ~partial /\ job.phase = "save" /\ ~job.limit =>
    /\ job.todo \subseteq arrived
    /\ job.top # 0 => \E a \in arrived : job.top <= Date[a]
    /\ \A m \in arrived :
         \/ Kept(m) \/ m \in job.todo
         \/ /\ job.top <= Date[m] + Overlap
            /\ \A t \in job.todo : Date[t] <= Date[m] + Overlap
    /\ mark = 0 /\ job.top = 0 => \A m \in Mails : View("job")[m].name = 0

Shaped == job \in Jobs /\ ren \in Renames

MailInv ==
  TypeOK /\ Shaped /\ Transactions /\ AllKept /\ CountedListed /\ Watermark /\ Saving

------------------------------------------------------------------------------
(* Numbers and names. *)

USE DEF viewer

Below == {ss \in Nat \X Nat : ss[1] < ss[2]}

LEMMA BelowIsWellFounded == IsWellFoundedOn(Below, Nat)
<1>1. OpToRel(<, Nat) = {ss \in Nat \X Nat : ss[1] < ss[2]}
  BY Zenon DEF OpToRel
<1> QED BY <1>1, NatLessThanWellFounded, Zenon DEF Below

(* A set of numbers that is not empty has a least one: the order is well-founded. *)
LEMMA MinIsThere ==
  ASSUME NEW S \in SUBSET Nat, S # {} PROVE MinOf(S) \in S /\ \A y \in S : MinOf(S) <= y
<1>1. PICK x \in S : \A y \in S : ~(<<y, x>> \in Below)
  BY WFMin, BelowIsWellFounded
<1>2. ASSUME NEW y \in S PROVE x <= y
  <2>1. <<y, x>> \in Nat \X Nat /\ <<y, x>>[1] = y /\ <<y, x>>[2] = x
    OBVIOUS
  <2>2. ~(y < x)
    BY <1>1, <2>1 DEF Below
  <2> QED BY <2>2
<1> QED BY <1>2 DEF MinOf

LEMMA FreeNameIsFree ==
  ASSUME NEW i, FreeNames(i) # {} PROVE FreeName(i) \in 1..MaxNames
<1>1. FreeNames(i) \in SUBSET Nat
  BY BoundsAreNatural DEF FreeNames
<1>2. MinOf(FreeNames(i)) \in FreeNames(i)
  BY <1>1, MinIsThere
<1> QED BY <1>2 DEF FreeName, FreeNames

LEMMA MaxOfTwo ==
  ASSUME NEW a \in Nat, NEW b \in Nat
  PROVE  MaxOf({a, b}) \in {a, b} /\ a <= MaxOf({a, b}) /\ b <= MaxOf({a, b})
<1>1. \E x \in {a, b} : \A y \in {a, b} : x >= y
  OBVIOUS
<1>2. MaxOf({a, b}) \in {a, b} /\ \A y \in {a, b} : MaxOf({a, b}) >= y
  BY <1>1 DEF MaxOf
<1> QED BY <1>2

LEMMA DatesNumbers == \A m \in Mails : Date[m] \in Nat /\ Date[m] # 0 /\ Date[m] \in Days
BY DatesAreDays DEF Days

LEMMA DaysNumbers == Days \subseteq Nat /\ 0 \in Days
BY DatesAreDays DEF Days

(* The file a row names is a copy. *)
LEMMA FileIsCopy ==
  ASSUME file \subseteq Items \X (1..MaxNames), NEW rows, NEW i, HasFile(rows, i)
  PROVE  Kept(i) /\ rows[i].name \in 1..MaxNames /\ rows[i].name # 0
<1>1. <<i, rows[i].name>> \in Items \X (1..MaxNames)
  BY DEF HasFile
<1>2. rows[i].name \in 1..MaxNames
  BY <1>1
<1>3. rows[i].name # 0
  BY <1>2, BoundsAreNatural
<1> QED BY <1>2, <1>3 DEF HasFile, Copies, Kept

LEMMA CopiesGrow ==
  ASSUME file \subseteq file', deleted \subseteq deleted' PROVE \A i : Kept(i) => Kept(i)'
BY DEF Copies, Kept

LEMMA NewCopy ==
  ASSUME NEW i, NEW k \in 1..MaxNames, <<i, k>> \in file' PROVE Kept(i)'
BY DEF Copies, Kept

(* The rows. *)
LEMMA RowsTyped ==
  /\ NoRow \in Rows
  /\ \A r \in Rows, m \in Mails : WithBody(r, m) \in Rows /\ WithBody(r, m).name = r.name
<1>1. 0 \in 0..MaxNames
  BY BoundsAreNatural
<1>2. NoRow \in Rows
  BY <1>1 DEF NoRow, Rows
<1>3. \A r \in Rows, m \in Mails : WithBody(r, m) \in Rows /\ WithBody(r, m).name = r.name
  BY DEF Rows, WithBody
<1> QED BY <1>2, <1>3

LEMMA IdleTyped ==
  /\ Idle \in Jobs /\ Idle.phase = "idle" /\ Idle.counted = {} /\ Idle.todo = {}
BY DaysNumbers DEF Idle, Jobs, Phases, Later

LEMMA NoRenameTyped ==
  /\ NoRename \in Renames /\ NoRename.todo = {} /\ NoRename.moved = {} /\ NoRename.on = FALSE
<1>1. 0 \in 0..MaxNames
  BY BoundsAreNatural
<1> QED BY <1>1 DEF NoRename, Renames

LEMMA SweepsTyped ==
  /\ NoSweep \in Sweeps /\ NoSweep.on = FALSE /\ NoSweep.todo = {} /\ NoSweep.missing = {}
<1>1. 0 \in 0..MaxNames
  BY BoundsAreNatural
<1> QED BY <1>1 DEF NoSweep, Sweeps

(* Types of the next state, put together from those of its parts. *)
LEMMA TypedNext ==
  ASSUME Shaped', arrived' \subseteq Mails, zip' \subseteq {"source", "inbox"},
         file' \subseteq Items \X (1..MaxNames), row' \in [Items -> Rows],
         draft' \in [Items -> Rows], tx' \in {Nobody, "job", "rename", "viewer"}, mark' \in Days,
         calls' \in 0..MaxCalls, failures' \in 0..MaxFailures, partial' \in BOOLEAN,
         sweep' \in [{"job", "viewer"} -> Sweeps], erase' \subseteq Items \X (1..MaxNames),
         deleted' \subseteq Items, dropped' \subseteq Items
  PROVE  TypeOK'
<1>1. /\ job'.phase \in Phases
      /\ job'.limit \in BOOLEAN /\ job'.todo \subseteq Items /\ job'.counted \subseteq Items
      /\ job'.top \in Days /\ job'.last \in Mails \cup {Nothing}
  BY DEF Shaped, Jobs
<1>2. /\ ren'.todo \subseteq Mails /\ ren'.names \in [Mails -> 0..MaxNames]
      /\ ren'.moved \subseteq Mails \X (1..MaxNames) /\ ren'.on \in BOOLEAN
  BY DEF Shaped, Renames
<1>3. job'.phase \in {"idle", "clean", "list", "save", "sync", "move", "photos", "mail",
                     "take"}
  BY <1>1 DEF Phases, Later
<1> QED BY <1>1, <1>2, <1>3 DEF TypeOK

------------------------------------------------------------------------------
(* What the parts of a job do to its record and to the transaction. *)

LEMMA StartShape ==
  ASSUME NEW plan \in Plans \cup {<<"list">>}, NEW limited \in BOOLEAN, Start(plan, limited)
  PROVE  /\ job' \in Jobs /\ job'.phase \in Later \cup {"clean"}
         /\ job'.counted = {} /\ job.phase = "idle" /\ dropped' = {}
<1>1. Head(plan) \in Later \cup {"clean"} /\ Tail(plan) \in Seq(Later)
  <2>1. CASE plan = <<"list">>
    BY <2>1 DEF Later
  <2>2. CASE plan = <<"photos", "mail">>
    BY <2>2 DEF Later
  <2>3. CASE plan = <<"move", "photos", "mail">>
    BY <2>3 DEF Later
  <2>4. CASE plan = <<"clean", "list", "sync", "photos", "mail">>
    <3>1. /\ Head(plan) = "clean"
          /\ Tail(plan) = <<"list", "sync", "photos", "mail">>
      BY <2>4
    <3>2. <<"list", "sync", "photos", "mail">> \in Seq(Later)
      BY DEF Later
    <3> QED BY <3>1, <3>2
  <2> QED BY <2>1, <2>2, <2>3, <2>4 DEF Plans
<1>2. job' = [phase |-> Head(plan), rest |-> Tail(plan), limit |-> limited, todo |-> {},
              top |-> 0, last |-> Nothing, counted |-> {}]
  BY DEF Start, Idle
<1>3. job.phase = "idle"
  BY DEF Start, Idle
<1>4. dropped' = {}
  BY DEF Start
<1> QED BY <1>1, <1>2, <1>3, <1>4, DaysNumbers DEF Jobs, Phases

LEMMA ProceedShape ==
  ASSUME NEW j \in Jobs, Proceed(j)
  PROVE  /\ job' \in Jobs
         /\ \/ job' = Idle /\ j.rest = <<>>
            \/ job'.phase \in Later /\ job'.counted = j.counted
<1>1. CASE j.rest = <<>>
  BY <1>1, IdleTyped DEF Proceed
<1>2. CASE j.rest # <<>>
  <2>1. job' = [j EXCEPT !.phase = Head(j.rest), !.rest = Tail(j.rest), !.todo = {},
                         !.top = 0, !.last = Nothing]
    BY <1>2 DEF Proceed
  <2>2. j.rest \in Seq(Later)
    BY DEF Jobs
  <2>3. Head(j.rest) \in Later /\ Tail(j.rest) \in Seq(Later)
    BY <1>2, <2>2
  <2>4. job' \in Jobs
    BY <2>1, <2>3, DaysNumbers DEF Jobs, Phases
  <2>5. job'.phase = Head(j.rest) /\ job'.counted = j.counted
    BY <2>1 DEF Jobs
  <2> QED BY <2>3, <2>4, <2>5
<1> QED BY <1>1, <1>2

(* What the job sees is typed, and what it lists is in the vault. *)
LEMMA ViewTyped ==
  ASSUME TypeOK, AllKept
  PROVE  /\ View("job") \in [Items -> Rows]
         /\ \A i \in Items : View("job")[i].name # 0 => Kept(i)
BY DEF TypeOK, AllKept, View

(* A step of a job that handles item i: what every such step has in common. *)
Handled(i) ==
  /\ UNCHANGED <<arrived, zip, row, mark, ren, calls, failures, viewer, partial>>
  /\ job' \in Jobs /\ job'.phase = job.phase /\ job'.limit = job.limit
  /\ job.phase \in {"save", "take"}
  /\ job'.todo = job.todo \ {i}
  /\ file \subseteq file' /\ file' \subseteq Items \X (1..MaxNames)
  /\ tx' # tx => tx = Nobody /\ tx' = "job"
  /\ tx' # "job" => draft' = draft
  /\ draft' \in [Items -> Rows]
  /\ \A k \in Items : View("job")[k].name # 0 => View("job")'[k].name # 0
  /\ \A k \in Items : View("job")'[k].name # 0 => View("job")[k].name # 0 \/ k = i
  /\ View("job")'[i].name # 0 => Kept(i)'
  /\ \A k \in job'.counted : k \in job.counted \/ View("job")'[k].name # 0

LEMMA WriteShape ==
  ASSUME NEW rows, Write("job", rows)
  PROVE  /\ tx' # tx => tx = Nobody /\ tx' = "job"
         /\ tx' = "job" /\ draft' = rows /\ View("job")' = rows
BY DEF Write, View, Nobody

LEMMA SaveShape ==
  ASSUME TypeOK, Shaped, AllKept, NEW m \in Mails, Save(m)
  PROVE  /\ Handled(m) /\ m \in job.todo /\ job.phase = "save" /\ Kept(m)'
         /\ \A t \in job.todo : Date[t] <= Date[m]
         /\ job.top <= job'.top /\ job'.top \in {job.top, Date[m]}
         /\ View("job")[m].name = 0 => job'.top # 0
<1> DEFINE rows == View("job")
<1>1. /\ job.phase = "save" /\ m \in job.todo /\ \A t \in job.todo : Date[t] <= Date[m]
      /\ UNCHANGED <<arrived, zip, row, mark, ren, calls, failures, viewer, partial>>
  BY DEF Save, IsNewest, outside
<1>2. /\ rows \in [Items -> Rows] /\ \A i \in Items : rows[i].name # 0 => Kept(i)
      /\ m \in Items /\ rows[m] \in Rows /\ draft \in [Items -> Rows]
      /\ file \subseteq Items \X (1..MaxNames)
  BY ViewTyped DEF Items, TypeOK
<1>3. job \in Jobs /\ job.top \in Nat /\ job.last \in Mails \cup {Nothing}
  BY DaysNumbers DEF Shaped, Jobs
<1>4. /\ Date[m] \in Nat /\ Date[m] # 0 /\ Date[m] \in Days
      /\ MaxOf({job.top, Date[m]}) \in {job.top, Date[m]}
      /\ job.top <= MaxOf({job.top, Date[m]}) /\ MaxOf({job.top, Date[m]}) # 0
  <2>1. Date[m] \in Nat /\ Date[m] # 0 /\ Date[m] \in Days
    BY DatesNumbers
  <2>2. /\ MaxOf({job.top, Date[m]}) \in {job.top, Date[m]}
        /\ job.top <= MaxOf({job.top, Date[m]}) /\ Date[m] <= MaxOf({job.top, Date[m]})
    BY <1>3, <2>1, MaxOfTwo
  <2> QED BY <1>3, <2>1, <2>2
<1>5. MaxOf({job.top, Date[m]}) \in Days
  BY <1>3, <1>4 DEF Jobs
<1>6. CASE SkipKnown(m, rows)
  <2>1. Kept(m) /\ rows[m].name # 0 /\ UNCHANGED file
    BY <1>2, <1>6, FileIsCopy DEF SkipKnown
  <2>2. Kept(m)'
    BY <1>1, <2>1, CopiesGrow
  <2>3. \E l \in Mails \cup {Nothing} : job' = [job EXCEPT !.todo = @ \ {m}, !.last = l]
    BY <1>3, <1>6 DEF SkipKnown
  <2>4. /\ job' \in Jobs /\ job'.phase = job.phase /\ job'.limit = job.limit
        /\ job'.todo = job.todo \ {m} /\ job'.top = job.top /\ job'.counted = job.counted
    BY <1>3, <2>3 DEF Jobs
  <2>5. CASE rows[m].body = Nothing
    <3> DEFINE after == [rows EXCEPT ![m] = WithBody(@, m)]
    <3>1. Write("job", after)
      BY <1>6, <2>5 DEF SkipKnown
    <3>2. after \in [Items -> Rows] /\ \A k \in Items : after[k].name = rows[k].name
      BY <1>2, RowsTyped
    <3> HIDE DEF after
    <3>3. /\ tx' # tx => tx = Nobody /\ tx' = "job"
          /\ tx' = "job" /\ draft' = after /\ View("job")' = after
      BY <3>1, WriteShape
    <3> HIDE DEF rows
    <3>4. Handled(m)
      BY <1>1, <1>2, <2>1, <2>2, <2>4, <3>2, <3>3 DEF Handled, rows
    <3> QED BY <1>1, <1>3, <2>1, <2>2, <2>4, <3>4 DEF rows
  <2>6. CASE rows[m].body # Nothing
    <3>1. UNCHANGED <<draft, tx>> /\ View("job")' = rows
      BY <1>1, <1>6, <2>6 DEF SkipKnown, View
    <3>2. Handled(m)
      BY <1>1, <1>2, <2>1, <2>2, <2>4, <3>1 DEF Handled
    <3> QED BY <1>1, <1>3, <2>1, <2>2, <2>4, <3>2
  <2> QED BY <2>5, <2>6
<1>7. CASE AdoptRow(m, rows)
  <2> DEFINE after == [rows EXCEPT ![m] = [WithBody(@, m) EXCEPT !.gid = TRUE]]
  <2>1. Kept(m) /\ rows[m].name # 0 /\ UNCHANGED file
    BY <1>2, <1>7, FileIsCopy DEF AdoptRow
  <2>2. Kept(m)'
    BY <1>1, <2>1, CopiesGrow
  <2>3. \E l \in Mails \cup {Nothing} :
          job' = [job EXCEPT !.todo = @ \ {m}, !.top = MaxOf({@, Date[m]}), !.last = l]
    BY <1>3, <1>7 DEF AdoptRow
  <2>4. /\ job' \in Jobs /\ job'.phase = job.phase /\ job'.limit = job.limit
        /\ job'.todo = job.todo \ {m} /\ job'.top = MaxOf({job.top, Date[m]})
        /\ job'.counted = job.counted
    BY <1>3, <1>5, <2>3 DEF Jobs
  <2>5. after \in [Items -> Rows] /\ \A k \in Items : after[k].name = rows[k].name
    <3>1. /\ WithBody(rows[m], m) \in Rows
          /\ [WithBody(rows[m], m) EXCEPT !.gid = TRUE] \in Rows
          /\ [WithBody(rows[m], m) EXCEPT !.gid = TRUE].name = rows[m].name
      BY <1>2, RowsTyped DEF Rows
    <3> QED BY <1>2, <3>1
  <2>6. Write("job", after)
    BY <1>7 DEF AdoptRow
  <2> HIDE DEF after
  <2>7. /\ tx' # tx => tx = Nobody /\ tx' = "job"
        /\ tx' = "job" /\ draft' = after /\ View("job")' = after
    BY <2>6, WriteShape
  <2>8. Handled(m)
    BY <1>1, <1>2, <2>1, <2>2, <2>4, <2>5, <2>7 DEF Handled
  <2> QED BY <1>1, <1>3, <1>4, <2>1, <2>2, <2>4, <2>8
<1>8. ASSUME FreeNames(m) # {}, file' = file \cup {<<m, FreeName(m)>>}
      PROVE  /\ FreeName(m) \in 1..MaxNames /\ file \subseteq file'
             /\ file' \subseteq Items \X (1..MaxNames) /\ Kept(m)'
  <2>1. FreeName(m) \in 1..MaxNames
    BY <1>8, FreeNameIsFree
  <2>2. Kept(m)'
    BY <1>8, <2>1, NewCopy
  <2> QED BY <1>2, <1>8, <2>1, <2>2
<1>9. CASE SaveRow(m, rows)
  <2> DEFINE after == [rows EXCEPT ![m] = [name |-> FreeName(m), gid |-> TRUE, body |-> m]]
  <2>1. /\ FreeName(m) \in 1..MaxNames /\ file \subseteq file'
        /\ file' \subseteq Items \X (1..MaxNames) /\ Kept(m)'
    BY <1>8, <1>9 DEF SaveRow, Fetched
  <2>2. job' = [job EXCEPT !.todo = @ \ {m}, !.top = MaxOf({@, Date[m]}), !.last = m,
                           !.counted = @ \cup {m}]
    BY <1>9 DEF SaveRow, Fetched
  <2>3. /\ job' \in Jobs /\ job'.phase = job.phase /\ job'.limit = job.limit
        /\ job'.todo = job.todo \ {m} /\ job'.top = MaxOf({job.top, Date[m]})
        /\ job'.counted = job.counted \cup {m}
    BY <1>2, <1>3, <1>5, <2>2 DEF Jobs
  <2>4. FreeName(m) \in 0..MaxNames /\ FreeName(m) # 0
    BY <2>1, BoundsAreNatural
  <2>5. /\ after \in [Items -> Rows] /\ after[m].name # 0
        /\ \A k \in Items \ {m} : after[k].name = rows[k].name
    <3>1. /\ [name |-> FreeName(m), gid |-> TRUE, body |-> m] \in Rows
          /\ [name |-> FreeName(m), gid |-> TRUE, body |-> m].name # 0
      BY <2>4 DEF Rows
    <3> QED BY <1>2, <3>1
  <2>6. Write("job", after)
    BY <1>9 DEF SaveRow
  <2> HIDE DEF after
  <2>7. /\ tx' # tx => tx = Nobody /\ tx' = "job"
        /\ tx' = "job" /\ draft' = after /\ View("job")' = after
    BY <2>6, WriteShape
  <2>8. Handled(m)
    BY <1>1, <1>2, <2>1, <2>3, <2>5, <2>7 DEF Handled
  <2> QED BY <1>1, <1>3, <1>4, <2>1, <2>3, <2>8
<1>10. CASE SaveIgnored(m, rows)
  <2> DEFINE after == [rows EXCEPT ![job.last].body = m]
  <2>1. /\ FreeName(m) \in 1..MaxNames /\ file \subseteq file'
        /\ file' \subseteq Items \X (1..MaxNames) /\ Kept(m)'
    BY <1>8, <1>10 DEF SaveIgnored
  <2>2. job' = [job EXCEPT !.todo = @ \ {m}, !.top = MaxOf({@, Date[m]}),
                           !.counted = @ \cup {m}]
    BY <1>10 DEF SaveIgnored
  <2>3. /\ job' \in Jobs /\ job'.phase = job.phase /\ job'.limit = job.limit
        /\ job'.todo = job.todo \ {m} /\ job'.top = MaxOf({job.top, Date[m]})
        /\ job'.counted = job.counted \cup {m}
    BY <1>2, <1>3, <1>5, <2>2 DEF Jobs
  <2>4. rows[m].name # 0 /\ job.last \in Items
    BY <1>3, <1>10 DEF SaveIgnored, Items
  <2>5. after \in [Items -> Rows] /\ \A k \in Items : after[k].name = rows[k].name
    <3>1. \A k \in Items : [rows[k] EXCEPT !.body = m] \in Rows
                           /\ [rows[k] EXCEPT !.body = m].name = rows[k].name
      BY <1>2 DEF Rows
    <3> QED BY <1>2, <2>4, <3>1
  <2>6. Write("job", after)
    BY <1>10 DEF SaveIgnored
  <2> HIDE DEF after
  <2>7. /\ tx' # tx => tx = Nobody /\ tx' = "job"
        /\ tx' = "job" /\ draft' = after /\ View("job")' = after
    BY <2>6, WriteShape
  <2>8. Handled(m)
    BY <1>1, <1>2, <2>1, <2>3, <2>4, <2>5, <2>7 DEF Handled
  <2> QED BY <1>1, <1>3, <1>4, <2>1, <2>3, <2>8
<1> QED BY <1>6, <1>7, <1>9, <1>10 DEF Save

LEMMA TakeShape ==
  ASSUME TypeOK, Shaped, AllKept, NEW i \in Items, Take(i) \/ TakeFails(i)
  PROVE  Handled(i) /\ job.phase = "take"
<1> DEFINE rows == View("job")
<1>1. /\ job.phase = "take"
      /\ UNCHANGED <<arrived, zip, row, mark, ren, calls, failures, viewer, partial>>
  BY DEF Take, TakeFails, outside, index
<1>2. /\ rows \in [Items -> Rows] /\ \A k \in Items : rows[k].name # 0 => Kept(k)
      /\ draft \in [Items -> Rows] /\ file \subseteq Items \X (1..MaxNames)
  BY ViewTyped DEF TypeOK
<1>3. job \in Jobs
  BY DEF Shaped
<1>4. CASE /\ job' = [job EXCEPT !.todo = @ \ {i}]
           /\ UNCHANGED <<file, draft, tx>>
  <2>1. /\ job' \in Jobs /\ job'.phase = job.phase /\ job'.limit = job.limit
        /\ job'.todo = job.todo \ {i} /\ job'.counted = job.counted
    BY <1>3, <1>4 DEF Jobs
  <2>2. rows' = rows /\ Kept(i)' = Kept(i)
    BY <1>1, <1>4 DEF View, Copies, Kept
  <2> HIDE DEF rows
  <2>3. Handled(i)
    BY <1>1, <1>2, <1>4, <2>1, <2>2 DEF Handled, rows
  <2> QED BY <1>1, <2>3
<1>5. CASE /\ FreeNames(i) # {}
           /\ file' = file \cup {<<i, FreeName(i)>>}
           /\ Write("job", [rows EXCEPT ![i] = [NoRow EXCEPT !.name = FreeName(i)]])
           /\ job' = [job EXCEPT !.todo = @ \ {i}, !.counted = @ \cup {i}]
  <2> DEFINE after == [rows EXCEPT ![i] = [NoRow EXCEPT !.name = FreeName(i)]]
  <2>1. FreeName(i) \in 1..MaxNames
    BY <1>5, FreeNameIsFree
  <2>2. FreeName(i) \in 0..MaxNames /\ FreeName(i) # 0
    BY <2>1, BoundsAreNatural
  <2>3. /\ file \subseteq file' /\ file' \subseteq Items \X (1..MaxNames)
        /\ Kept(i)'
    <3>1. Kept(i)'
      BY <1>5, <2>1, NewCopy
    <3> QED BY <1>2, <1>5, <2>1, <3>1
  <2>4. /\ job' \in Jobs /\ job'.phase = job.phase /\ job'.limit = job.limit
        /\ job'.todo = job.todo \ {i} /\ job'.counted = job.counted \cup {i}
    BY <1>3, <1>5 DEF Jobs
  <2>5. /\ after \in [Items -> Rows] /\ after[i].name # 0
        /\ \A k \in Items \ {i} : after[k].name = rows[k].name
    <3>1. /\ [NoRow EXCEPT !.name = FreeName(i)] \in Rows
          /\ [NoRow EXCEPT !.name = FreeName(i)].name # 0
      BY <2>2 DEF NoRow, Rows
    <3> QED BY <1>2, <3>1
  <2>6. Write("job", after)
    BY <1>5
  <2> HIDE DEF after
  <2>7. /\ tx' # tx => tx = Nobody /\ tx' = "job"
        /\ tx' = "job" /\ draft' = after /\ View("job")' = after
    BY <2>6, WriteShape
  <2>8. Handled(i)
    BY <1>1, <1>2, <2>3, <2>4, <2>5, <2>7 DEF Handled
  <2> QED BY <1>1, <2>8
<1> QED BY <1>4, <1>5 DEF Take, TakeFails, index

------------------------------------------------------------------------------
(* The steps. *)

(* A job or the account goes on while the index and the files stay as they are. *)
LEMMA QuietKeeps ==
  ASSUME MailInv, UNCHANGED <<arrived, file, index, mark, ren, partial, sweep, erase, deleted>>,
         zip' \subseteq {"source", "inbox"}, calls' \in 0..MaxCalls,
         failures' \in 0..MaxFailures,
         \/ UNCHANGED <<job, dropped>>
         \/ /\ job' \in Jobs /\ job'.phase # "save" /\ tx # "job" /\ job.phase # "clean"
            /\ \/ job'.counted = {}
               \/ job'.counted = job.counted /\ dropped' = dropped
            /\ job'.phase \in {"idle", "clean"} => job'.counted = {}
            /\ dropped' \subseteq Items
  PROVE  MailInv'
<1>1. Shaped' /\ dropped' \subseteq Items
  BY DEF MailInv, Shaped, TypeOK
<1>2. TypeOK'
  BY <1>1, TypedNext DEF MailInv, TypeOK, index
<1>3. \A i : Kept(i)' = Kept(i)
  BY DEF Copies, Kept
<1>4. View("job")' = View("job")
  BY DEF View, index
<1>5. Transactions'
  BY DEF MailInv, Transactions, Fewer, index
<1>6. AllKept'
  BY <1>3 DEF MailInv, AllKept, index
<1>7. CountedListed'
  BY <1>4 DEF MailInv, CountedListed
<1>8. Watermark'
  BY <1>3 DEF MailInv, Watermark, index
<1>9. Saving'
  BY <1>3, <1>4 DEF MailInv, Saving
<1> QED BY <1>1, <1>2, <1>5, <1>6, <1>7, <1>8, <1>9 DEF MailInv

LEMMA WorldKeeps ==
  ASSUME MailInv, Download \/ \E m \in Mails : Arrive(m) PROVE MailInv'
<1>1. CASE Download
  <2>1. /\ UNCHANGED <<arrived, file, index, mark, ren, partial, sweep, erase, deleted>>
        /\ UNCHANGED <<job, dropped>>
        /\ zip' \subseteq {"source", "inbox"} /\ calls' \in 0..MaxCalls
        /\ failures' \in 0..MaxFailures
    BY <1>1 DEF Download, outside, MailInv, TypeOK
  <2> QED BY <2>1, QuietKeeps
<1>2. ASSUME NEW m \in Mails, Arrive(m) PROVE MailInv'
  <2>1. /\ arrived' = arrived \cup {m} /\ \A a \in arrived : Date[a] <= Date[m] + Overlap
        /\ UNCHANGED <<zip, file, row, draft, tx, mark, job, ren, calls, failures, viewer, partial>>
    BY <1>2 DEF Arrive, index
  <2>2. Shaped' /\ TypeOK' /\ Transactions'
    BY <2>1, TypedNext DEF MailInv, Shaped, TypeOK, Transactions, Fewer
  <2>3. (\A i : Kept(i)' = Kept(i)) /\ View("job")' = View("job")
    BY <2>1 DEF Copies, Kept, View
  <2>4. AllKept' /\ CountedListed'
    BY <2>1, <2>3 DEF MailInv, AllKept, CountedListed
  <2>5. /\ arrived \subseteq Mails /\ \A a \in Mails : Date[a] \in Nat
        /\ Overlap \in Nat /\ mark \in Nat /\ job.top \in Nat
    BY DatesNumbers, DaysNumbers, BoundsAreNatural DEF MailInv, TypeOK
  <2>6. Watermark'
    <3> SUFFICES ASSUME ~partial PROVE Watermark'
      BY <2>1 DEF Watermark
    <3>1. /\ mark = 0 => \A k \in Mails : row[k].name = 0
          /\ mark # 0 => /\ \A k \in arrived : Kept(k) \/ mark <= Date[k] + Overlap
                         /\ \E a \in arrived : mark <= Date[a]
      BY DEF MailInv, Watermark
    <3>2. mark # 0 => mark <= Date[m] + Overlap
      BY <2>1, <2>5, <3>1
    <3> QED BY <2>1, <2>3, <3>1, <3>2 DEF Watermark
  <2>7. Saving'
    <3> SUFFICES ASSUME ~partial, job.phase = "save", ~job.limit PROVE Saving'
      BY <2>1 DEF Saving
    <3>1. /\ job.todo \subseteq arrived
          /\ job.top # 0 => \E a \in arrived : job.top <= Date[a]
      BY DEF MailInv, Saving
    <3>2. job.top <= Date[m] + Overlap
      <4>1. CASE job.top # 0
        BY <2>1, <2>5, <3>1, <4>1
      <4>2. CASE job.top = 0
        BY <2>5, <4>2
      <4> QED BY <4>1, <4>2
    <3>3. \A t \in job.todo : Date[t] <= Date[m] + Overlap
      BY <2>1, <3>1
    <3> QED BY <2>1, <2>3, <3>1, <3>2, <3>3 DEF MailInv, Saving
  <2> QED BY <2>2, <2>4, <2>6, <2>7 DEF MailInv
<1> QED BY <1>1, <1>2

LEMMA StartKeeps ==
  ASSUME MailInv, NEW plan \in Plans \cup {<<"list">>}, NEW limited \in BOOLEAN,
         Start(plan, limited)
  PROVE  MailInv'
<1>1. /\ job' \in Jobs /\ job'.phase \in Later \cup {"clean"}
      /\ job'.counted = {} /\ job.phase = "idle"
  BY StartShape
<1>2. tx # "job" /\ job'.phase # "save" /\ dropped' \subseteq Items
  BY <1>1, StartShape DEF MailInv, Transactions, Later
<1>3. /\ UNCHANGED <<arrived, file, index, mark, ren, partial, sweep, erase, deleted>>
      /\ zip' \subseteq {"source", "inbox"} /\ calls' \in 0..MaxCalls
      /\ failures' \in 0..MaxFailures
  BY DEF Start, MailInv, TypeOK
<1> QED BY <1>1, <1>2, <1>3, QuietKeeps

LEMMA ProceedQuiet ==
  ASSUME MailInv, Proceed(job) \/ Proceed([job EXCEPT !.rest = <<>>])
  PROVE  /\ job' \in Jobs /\ job'.phase \notin {"save", "take"}
         /\ job'.counted = {} \/ job'.counted = job.counted
         /\ job'.phase \in {"idle", "clean"} => job'.counted = {}
<1>1. job \in Jobs /\ [job EXCEPT !.rest = <<>>] \in Jobs
      /\ [job EXCEPT !.rest = <<>>].counted = job.counted
  <2>1. job \in Jobs /\ <<>> \in Seq(Later)
    BY DEF MailInv, Shaped
  <2> QED BY <2>1 DEF Jobs
<1>2. \/ job' = Idle
      \/ job'.phase \in Later /\ job'.counted = job.counted
  BY <1>1, ProceedShape
<1>3. job' \in Jobs
  BY <1>1, ProceedShape
<1> QED BY <1>2, <1>3, IdleTyped DEF Later

(* Between two imports nothing is written to the index. *)
LEMMA BetweenKeeps ==
  ASSUME MailInv, Sync \/ Move \/ \E kind \in {"photos", "mail"} : Extract(kind)
  PROVE  MailInv'
<1>1. /\ UNCHANGED <<arrived, file, index, mark, ren, partial, sweep, erase, deleted, dropped>>
      /\ zip' \subseteq {"source", "inbox"} /\ calls' \in 0..MaxCalls
      /\ failures' \in 0..MaxFailures
  BY DEF Sync, Move, Extract, outside, MailInv, TypeOK
<1>2. job.phase \in {"sync", "move", "photos", "mail"}
  BY DEF Sync, Move, Extract
<1>3. tx # "job" /\ job.phase # "clean" /\ dropped' \subseteq Items
  BY <1>1, <1>2 DEF MailInv, TypeOK, Transactions
<1>4. CASE Sync \/ Move
  <2>1. Proceed(job) \/ Proceed([job EXCEPT !.rest = <<>>])
    BY <1>4 DEF Sync, Move
  <2> QED BY <1>1, <1>3, <2>1, ProceedQuiet, QuietKeeps
<1>5. ASSUME NEW kind \in {"photos", "mail"}, Extract(kind) PROVE MailInv'
  <2>1. PICK found \in {{}, IF "inbox" \in zip THEN Exported ELSE {}} :
          job' = [job EXCEPT !.phase = "take",
                    !.todo = found \cap (IF kind = "mail" THEN Mails ELSE Photos)]
    BY <1>5 DEF Extract
  <2>2. job' \in Jobs /\ job'.phase = "take" /\ job'.counted = job.counted
    BY <2>1, ArchiveOfItems DEF MailInv, Shaped, Jobs, Phases
  <2> QED BY <1>1, <1>3, <2>2, QuietKeeps
<1> QED BY <1>4, <1>5

(* A commit of the job: what the job saw is in the index, and what the rename has
   written and not committed stays its own. *)
LEMMA CommitShape ==
  ASSUME MailInv, Commit("job")
  PROVE  /\ row' = View("job") /\ View("job")' = View("job") /\ tx' # "job"
         /\ row' \in [Items -> Rows] /\ draft' \in [Items -> Rows]
         /\ tx' \in {Nobody, "rename", "viewer"}
         /\ \A i \in Items : draft'[i].name # 0 => View("job")[i].name # 0 \/ draft[i].name # 0
         /\ tx' # Nobody => UNCHANGED index
<1>1. Empty \in [Items -> Rows] /\ \A i \in Items : Empty[i].name = 0
  BY RowsTyped DEF Empty, NoRow
<1> QED BY <1>1 DEF MailInv, TypeOK, Commit, View, index, Nobody

(* What the answer leaves out is in the vault, if nothing was forgotten before. *)
LEMMA NothingIsForgotten ==
  ASSUME MailInv, ~partial, NEW m \in arrived
  PROVE  Kept(m) \/ m \in Listed
<1>1. m \in Mails /\ Date[m] \in Nat /\ mark \in Nat /\ Overlap \in Nat
  BY DatesNumbers, DaysNumbers, BoundsAreNatural DEF MailInv, TypeOK
<1>2. CASE mark # 0
  BY <1>1, <1>2 DEF MailInv, Watermark, Listed, Cutoff
<1>3. CASE mark = 0
  <2>1. IndexedDays = {}
    BY <1>3 DEF MailInv, Watermark, IndexedDays
  <2>2. Cutoff = 0
    BY <1>3, <2>1 DEF Cutoff
  <2> QED BY <1>1, <2>2 DEF Listed
<1> QED BY <1>2, <1>3

LEMMA ListKeeps ==
  ASSUME MailInv, List PROVE MailInv'
<1>1. PICK S \in SUBSET Listed :
        /\ ~job.limit => S = Listed
        /\ job' = [job EXCEPT !.phase = "save", !.top = 0, !.last = Nothing, !.todo = S]
  BY DEF List
<1>2. /\ job.phase = "list"
      /\ UNCHANGED <<arrived, zip, file, row, draft, tx, mark, ren, calls, failures, viewer,
                     partial>>
  BY DEF List, outside, index
<1>3. S \subseteq arrived /\ S \subseteq Items
  BY DEF Listed, MailInv, TypeOK, Items
<1>4. /\ job' \in Jobs /\ job'.phase = "save" /\ job'.todo = S /\ job'.top = 0
      /\ job'.limit = job.limit /\ job'.counted = job.counted
  BY <1>1, <1>3, DaysNumbers DEF MailInv, Shaped, Jobs, Phases
<1>5. Shaped' /\ TypeOK'
  BY <1>2, <1>4, TypedNext DEF MailInv, Shaped, TypeOK
<1>6. (\A i : Kept(i)' = Kept(i)) /\ View("job")' = View("job") /\ tx # "job"
  BY <1>2 DEF Copies, Kept, View, MailInv, Transactions
<1>7. Transactions' /\ AllKept' /\ CountedListed' /\ Watermark'
  <2>1. Transactions'
    BY <1>2, <1>6 DEF MailInv, Transactions, Fewer
  <2>2. AllKept' /\ Watermark'
    BY <1>2, <1>6 DEF MailInv, AllKept, Watermark
  <2>3. CountedListed'
    BY <1>2, <1>4, <1>6 DEF MailInv, CountedListed
  <2> QED BY <2>1, <2>2, <2>3
<1>8. Saving'
  <2> SUFFICES ASSUME ~partial, ~job.limit PROVE Saving'
    BY <1>2, <1>4 DEF Saving
  <2>1. S = Listed
    BY <1>1
  <2>2. \A m \in arrived : Kept(m) \/ m \in S
    BY <2>1, NothingIsForgotten
  <2>3. mark = 0 => \A m \in Mails : View("job")[m].name = 0
    BY <1>6 DEF MailInv, Watermark, View
  <2> QED BY <1>2, <1>3, <1>4, <1>6, <2>2, <2>3 DEF Saving
<1> QED BY <1>5, <1>7, <1>8 DEF MailInv

(* An item is handled: the parts of the invariant that are not about the order of
   the days. *)
LEMMA HandledKeeps ==
  ASSUME MailInv, NEW i \in Items, Handled(i)
  PROVE  /\ Shaped' /\ TypeOK' /\ Transactions' /\ AllKept' /\ CountedListed' /\ Watermark'
         /\ \A k : Kept(k) => Kept(k)'
<1>1. Shaped' /\ TypeOK'
  <2>1. tx' \in {Nobody, "job", "rename", "viewer"}
    BY DEF MailInv, TypeOK, Handled
  <2>2. Shaped'
    BY DEF MailInv, Shaped, Handled
  <2> QED BY <2>1, <2>2, TypedNext DEF MailInv, TypeOK, Handled
<1>2. \A k : Kept(k) => Kept(k)'
  BY CopiesGrow DEF Handled
<1>3. Transactions'
  BY DEF MailInv, Transactions, Fewer, Handled, Nobody
<1>4. AllKept'
  <2>1. ASSUME NEW k \in Items, row'[k].name # 0 PROVE Kept(k)'
    BY <1>2, <2>1 DEF MailInv, AllKept, Handled
  <2>2. ASSUME NEW k \in Items, draft'[k].name # 0 PROVE Kept(k)'
    <3>1. CASE tx' # "job"
      BY <1>2, <2>2, <3>1 DEF MailInv, AllKept, Handled
    <3>2. CASE tx' = "job"
      <4>1. View("job")'[k].name # 0
        BY <2>2, <3>2 DEF View
      <4>2. View("job")[k].name # 0 => Kept(k)
        BY ViewTyped DEF MailInv
      <4> QED BY <1>2, <4>1, <4>2 DEF Handled
    <3> QED BY <3>1, <3>2
  <2> QED BY <2>1, <2>2 DEF AllKept
<1>5. CountedListed'
  <2>1. job.counted \subseteq Items
    BY DEF MailInv, TypeOK
  <2> QED BY <2>1 DEF MailInv, CountedListed, Handled
<1>6. Watermark'
  BY <1>2 DEF MailInv, Watermark, Handled
<1> QED BY <1>1, <1>2, <1>3, <1>4, <1>5, <1>6

LEMMA TakeKeeps ==
  ASSUME MailInv, NEW i \in Items, Take(i) \/ TakeFails(i) PROVE MailInv'
<1>1. Handled(i) /\ job.phase = "take"
  BY TakeShape DEF MailInv
<1>2. Saving'
  BY <1>1 DEF Handled, Saving
<1> QED BY <1>1, <1>2, HandledKeeps DEF MailInv

LEMMA SaveKeeps ==
  ASSUME MailInv, NEW m \in Mails, Save(m) PROVE MailInv'
<1>1. /\ Handled(m) /\ m \in job.todo /\ job.phase = "save" /\ Kept(m)'
      /\ \A t \in job.todo : Date[t] <= Date[m]
      /\ job.top <= job'.top /\ job'.top \in {job.top, Date[m]}
      /\ View("job")[m].name = 0 => job'.top # 0
  BY SaveShape DEF MailInv
<1>2. m \in Items
  BY DEF Items
<1>3. /\ Shaped' /\ TypeOK' /\ Transactions' /\ AllKept' /\ CountedListed' /\ Watermark'
      /\ \A k : Kept(k) => Kept(k)'
  BY <1>1, <1>2, HandledKeeps
<1>4. Saving'
  <2>1. /\ UNCHANGED <<arrived, mark, partial>> /\ job'.limit = job.limit
        /\ job'.todo = job.todo \ {m}
        /\ \A k \in Items : View("job")'[k].name # 0 => View("job")[k].name # 0 \/ k = m
    BY <1>1 DEF Handled
  <2> SUFFICES ASSUME ~partial, ~job.limit PROVE Saving'
    BY <2>1 DEF Saving
  <2>2. /\ job.todo \subseteq arrived
        /\ job.top # 0 => \E a \in arrived : job.top <= Date[a]
        /\ \A k \in arrived :
             \/ Kept(k) \/ k \in job.todo
             \/ /\ job.top <= Date[k] + Overlap
                /\ \A t \in job.todo : Date[t] <= Date[k] + Overlap
        /\ mark = 0 /\ job.top = 0 => \A k \in Mails : View("job")[k].name = 0
    BY <1>1 DEF MailInv, Saving
  <2>3. Date[m] \in Nat /\ job.top \in Nat
    BY DatesNumbers, DaysNumbers DEF MailInv, TypeOK
  <2>4. job'.top # 0 => \E a \in arrived : job'.top <= Date[a]
    BY <1>1, <2>2, <2>3
  <2>5. \A k \in arrived :
          \/ Kept(k)' \/ k \in job'.todo
          \/ /\ job'.top <= Date[k] + Overlap
             /\ \A t \in job'.todo : Date[t] <= Date[k] + Overlap
    BY <1>1, <1>3, <2>1, <2>2
  <2>6. mark = 0 /\ job'.top = 0 => \A k \in Mails : View("job")'[k].name = 0
    <3> SUFFICES ASSUME mark = 0, job'.top = 0, NEW k \in Mails,
                        View("job")'[k].name # 0
                 PROVE  FALSE
      OBVIOUS
    <3>1. job.top = 0 /\ k \in Items
      BY <1>1, <2>3 DEF Items
    <3>2. View("job")[k].name = 0 /\ View("job")[m].name = 0
      BY <2>2, <3>1
    <3> QED BY <1>1, <2>1, <3>1, <3>2
  <2> QED BY <2>1, <2>2, <2>4, <2>5, <2>6 DEF Saving
<1> QED BY <1>3, <1>4 DEF MailInv

(* The end of an import: what the job has written is in the index. *)
LEMMA EndKeeps ==
  ASSUME MailInv, Commit("job"), Proceed(job), partial' \in BOOLEAN, mark' \in Days,
         UNCHANGED <<arrived, zip, file, ren, calls, failures, erase, deleted, dropped>>,
         sweep' \in [{"job", "viewer"} -> Sweeps], sweep'["viewer"] = sweep["viewer"],
         ~sweep'["job"].on, sweep'["job"].todo = {}, sweep'["job"].missing = {}
  PROVE  /\ Shaped' /\ TypeOK' /\ Transactions' /\ AllKept' /\ CountedListed' /\ Saving'
<1>1. /\ row' = View("job") /\ View("job")' = View("job") /\ tx' # "job"
      /\ row' \in [Items -> Rows] /\ draft' \in [Items -> Rows]
      /\ tx' \in {Nobody, "rename", "viewer"}
      /\ \A i \in Items : draft'[i].name # 0 => View("job")[i].name # 0 \/ draft[i].name # 0
      /\ tx' # Nobody => UNCHANGED index
  BY CommitShape
<1>2. /\ job' \in Jobs /\ job'.phase \notin {"save", "take"}
      /\ job'.counted = {} \/ job'.counted = job.counted
      /\ job'.phase \in {"idle", "clean"} => job'.counted = {}
  BY ProceedQuiet
<1>3. Shaped' /\ TypeOK'
  BY <1>1, <1>2, TypedNext DEF MailInv, Shaped, TypeOK
<1>4. Transactions'
  BY <1>1 DEF MailInv, Transactions, Fewer, index, Nobody
<1>5. AllKept'
  <2>1. \A i : Kept(i)' = Kept(i)
    BY DEF Copies, Kept
  <2>2. \A i \in Items : View("job")[i].name # 0 => Kept(i)
    BY ViewTyped DEF MailInv
  <2> QED BY <1>1, <2>1, <2>2 DEF MailInv, AllKept
<1>6. CountedListed'
  BY <1>1, <1>2 DEF MailInv, CountedListed
<1>7. Saving'
  BY <1>2 DEF Saving
<1> QED BY <1>3, <1>4, <1>5, <1>6, <1>7

(* The cleaning of the daily backup ends: rows have gone, none has come. *)
LEMMA CleanEndsKeeps ==
  ASSUME MailInv, CleanEnds PROVE MailInv'
<1>1. /\ Commit("job") /\ Proceed(job) /\ sweep["job"].on
      /\ UNCHANGED <<arrived, zip, file, mark, ren, calls, failures, erase, deleted, partial,
                     dropped>>
      /\ sweep' = [sweep EXCEPT !["job"] = NoSweep]
  BY DEF CleanEnds, SweepEnds
<1>2. mark' \in Days /\ partial' \in BOOLEAN /\ job.phase = "clean"
  BY <1>1 DEF MailInv, TypeOK, Transactions
<1>3. /\ sweep' \in [{"job", "viewer"} -> Sweeps] /\ sweep'["viewer"] = sweep["viewer"]
      /\ ~sweep'["job"].on /\ sweep'["job"].todo = {} /\ sweep'["job"].missing = {}
  BY <1>1, SweepsTyped DEF MailInv, TypeOK
<1>4. /\ Shaped' /\ TypeOK' /\ Transactions' /\ AllKept' /\ CountedListed' /\ Saving'
  BY <1>1, <1>2, <1>3, EndKeeps
<1>5. Watermark'
  <2>1. \A i : Kept(i)' = Kept(i)
    BY <1>1 DEF Copies, Kept
  <2>2. \A i \in Items : row'[i].name # 0 => row[i].name # 0
    BY <1>1, <1>2 DEF Commit, index, MailInv, Transactions, Fewer
  <2> QED BY <1>1, <2>1, <2>2 DEF MailInv, Watermark, Items
<1> QED BY <1>4, <1>5 DEF MailInv

LEMMA NotCleaning ==
  ASSUME MailInv, job.phase \in {"save", "take"}
  PROVE  ~sweep["job"].on /\ sweep["job"].todo = {} /\ sweep["job"].missing = {}
BY DEF MailInv, Transactions

(* The watermark a whole backup leaves is passed by no mail it did not save. *)
LEMMA SaveEndsKeeps ==
  ASSUME MailInv, SaveEnds PROVE MailInv'
<1>1. /\ job.phase = "save" /\ job.todo = {} /\ Commit("job") /\ Proceed(job)
      /\ mark' = IF job.limit \/ job.top = 0 THEN mark ELSE job.top
      /\ partial' = (partial \/ (mark = 0 /\ job.limit))
      /\ UNCHANGED <<arrived, zip, file, ren, calls, failures, viewer>>
  BY DEF SaveEnds, outside
<1>2. mark' \in Days /\ partial' \in BOOLEAN
  BY <1>1 DEF MailInv, TypeOK
<1>3. /\ Shaped' /\ TypeOK' /\ Transactions' /\ AllKept' /\ CountedListed' /\ Saving'
  BY <1>1, <1>2, NotCleaning, EndKeeps DEF MailInv, TypeOK
<1>4. Watermark'
  <2> SUFFICES ASSUME ~partial' PROVE Watermark'
    BY DEF Watermark
  <2>1. ~partial /\ (mark = 0 => ~job.limit) /\ \A i : Kept(i)' = Kept(i)
    BY <1>1 DEF Copies, Kept
  <2>2. /\ mark = 0 => \A m \in Mails : row[m].name = 0
        /\ mark # 0 => /\ \A m \in arrived : Kept(m) \/ mark <= Date[m] + Overlap
                       /\ \E a \in arrived : mark <= Date[a]
    BY <2>1 DEF MailInv, Watermark
  <2>3. CASE job.limit \/ job.top = 0
    <3>1. mark' = mark
      BY <1>1, <2>3
    <3>2. mark = 0 => \A m \in Mails : row'[m].name = 0
      <4> SUFFICES ASSUME mark = 0 PROVE \A m \in Mails : row'[m].name = 0
        OBVIOUS
      <4>1. \A m \in Mails : View("job")[m].name = 0
        BY <1>1, <2>1, <2>3 DEF MailInv, Saving
      <4> QED BY <1>1, <4>1, CommitShape
    <3> QED BY <1>1, <2>1, <2>2, <3>1, <3>2 DEF Watermark
  <2>4. CASE ~job.limit /\ job.top # 0
    <3>1. mark' = job.top
      BY <1>1, <2>4
    <3>2. /\ \E a \in arrived : job.top <= Date[a]
          /\ \A m \in arrived : Kept(m) \/ job.top <= Date[m] + Overlap
      BY <1>1, <2>1, <2>4 DEF MailInv, Saving
    <3> QED BY <1>1, <2>1, <2>4, <3>1, <3>2 DEF Watermark
  <2> QED BY <2>3, <2>4
<1> QED BY <1>3, <1>4 DEF MailInv

LEMMA TakeEndsKeeps ==
  ASSUME MailInv, TakeEnds PROVE MailInv'
<1>1. /\ Commit("job") /\ Proceed(job) /\ job.phase = "take"
      /\ UNCHANGED <<arrived, zip, file, mark, ren, calls, failures, viewer>>
      /\ partial' = (partial \/ (mark = 0 /\ \E m \in Mails : row'[m].name # 0))
  BY DEF TakeEnds, outside
<1>2. mark' \in Days /\ partial' \in BOOLEAN
  BY <1>1 DEF MailInv, TypeOK
<1>3. /\ Shaped' /\ TypeOK' /\ Transactions' /\ AllKept' /\ CountedListed' /\ Saving'
  BY <1>1, <1>2, NotCleaning, EndKeeps DEF MailInv, TypeOK
<1>4. Watermark'
  <2>1. \A i : Kept(i)' = Kept(i)
    BY <1>1 DEF Copies, Kept
  <2> QED BY <1>1, <2>1 DEF MailInv, Watermark
<1> QED BY <1>3, <1>4 DEF MailInv

(* A connection that is cut off leaves the index as it was committed. *)
LEMMA RollbackShape ==
  ASSUME MailInv, NEW who, Rollback(who)
  PROVE  /\ draft' \in [Items -> Rows] /\ tx' \in {Nobody, "job", "rename", "viewer"}
         /\ tx' # who \/ tx' = Nobody
         /\ (tx' = tx /\ draft' = draft) \/ (tx = who /\ tx' = Nobody)
         /\ \A i \in Items : draft'[i].name # 0 => draft[i].name # 0
<1>1. Empty \in [Items -> Rows] /\ \A i \in Items : Empty[i].name = 0
  BY RowsTyped DEF Empty, NoRow
<1>2. CASE tx = who
  BY <1>1, <1>2 DEF MailInv, TypeOK, Rollback
<1>3. CASE tx # who
  BY <1>3 DEF MailInv, TypeOK, Rollback
<1> QED BY <1>2, <1>3

LEMMA FailKeeps ==
  ASSUME MailInv, Fail PROVE MailInv'
<1>1. /\ job' = Idle /\ Rollback("job") /\ failures' = failures + 1
      /\ failures < MaxFailures
      /\ UNCHANGED <<arrived, zip, file, row, mark, ren, calls, erase, deleted, dropped, partial>>
      /\ sweep' = [sweep EXCEPT !["job"] = NoSweep]
  BY DEF Fail
<1>2. /\ draft' \in [Items -> Rows] /\ tx' \in {Nobody, "job", "rename", "viewer"}
      /\ tx' # "job" /\ ((tx' = tx /\ draft' = draft) \/ tx' = Nobody)
      /\ \A i \in Items : draft'[i].name # 0 => draft[i].name # 0
  BY <1>1, RollbackShape DEF Nobody
<1>3. failures' \in 0..MaxFailures
  BY <1>1, BoundsAreNatural DEF MailInv, TypeOK
<1>4. Shaped' /\ TypeOK' /\ sweep'["viewer"] = sweep["viewer"] /\ sweep'["job"] = NoSweep
  BY <1>1, <1>2, <1>3, IdleTyped, SweepsTyped, TypedNext DEF MailInv, Shaped, TypeOK
<1>5. \A i : Kept(i)' = Kept(i)
  BY <1>1 DEF Copies, Kept
<1>6. Transactions'
  BY <1>1, <1>2, <1>4, SweepsTyped DEF MailInv, Transactions, Fewer, Nobody
<1>7. AllKept' /\ Watermark'
  BY <1>1, <1>2, <1>5 DEF MailInv, AllKept, Watermark
<1>8. CountedListed' /\ Saving'
  BY <1>1, IdleTyped DEF CountedListed, Saving
<1> QED BY <1>4, <1>6, <1>7, <1>8 DEF MailInv

(* The rename. *)
LEMMA RenameStartKeeps ==
  ASSUME MailInv, RenameStart PROVE MailInv'
<1>1. /\ ren' = [NoRename EXCEPT !.on = TRUE, !.todo = {m \in Mails : row[m].name # 0},
                   !.names = [m \in Mails |-> row[m].name]]
      /\ calls' = calls + 1 /\ calls < MaxCalls /\ ~ren.on
      /\ UNCHANGED <<arrived, zip, file, row, draft, tx, mark, job, failures, viewer, partial>>
  BY DEF RenameStart, index
<1>2. ren' \in Renames /\ ren'.on
  <2>1. [m \in Mails |-> row[m].name] \in [Mails -> 0..MaxNames]
    BY DEF MailInv, TypeOK, Items, Rows
  <2> QED BY <1>1, <2>1 DEF NoRename, Renames
<1>3. calls' \in 0..MaxCalls
  BY <1>1, BoundsAreNatural DEF MailInv, TypeOK
<1>4. Shaped' /\ TypeOK'
  BY <1>1, <1>2, <1>3, TypedNext DEF MailInv, Shaped, TypeOK
<1>5. (\A i : Kept(i)' = Kept(i)) /\ View("job")' = View("job")
  BY <1>1 DEF Copies, Kept, View
<1>6. Transactions' /\ AllKept'
  BY <1>1, <1>2, <1>5 DEF MailInv, Transactions, Fewer, AllKept
<1>7. CountedListed' /\ Watermark' /\ Saving'
  BY <1>1, <1>5 DEF MailInv, CountedListed, Watermark, Saving
<1> QED BY <1>4, <1>6, <1>7 DEF MailInv

(* A file that moves leaves no mail without one. *)
LEMMA RenameFileKeeps ==
  ASSUME MailInv, NEW m \in Mails, RenameFile(m) PROVE MailInv'
<1> DEFINE old == <<m, ren.names[m]>>
           new == <<m, FreeName(m)>>
<1>1. /\ UNCHANGED <<arrived, zip, row, draft, tx, mark, job, calls, failures, viewer, partial>>
      /\ m \in ren.todo /\ m \in Items /\ ren \in Renames
  BY DEF RenameFile, index, MailInv, Shaped, Items
<1>2. /\ file' \subseteq Items \X (1..MaxNames)
      /\ ren' \in Renames /\ ren'.on = ren.on
      /\ \A i : Kept(i) => Kept(i)'
  <2>1. CASE old \in file
    <3>1. /\ FreeNames(m) # {} /\ file' = (file \ {old}) \cup {new}
          /\ ren' = [ren EXCEPT !.moved = {new}]
      BY <2>1 DEF RenameFile
    <3>2. FreeName(m) \in 1..MaxNames
      BY <3>1, FreeNameIsFree
    <3>3. ren' \in Renames /\ ren'.on = ren.on
      BY <1>1, <3>1, <3>2 DEF Renames
    <3>4. \A i : Kept(i) => Kept(i)'
      <4>1. Kept(m)'
        BY <3>1, <3>2, NewCopy
      <4>2. ASSUME NEW i, i # m PROVE Copies(i) \subseteq Copies(i)'
        BY <3>1, <4>2 DEF Copies
      <4> QED BY <1>1, <4>1, <4>2 DEF Kept
    <3> QED BY <1>1, <3>1, <3>2, <3>3, <3>4 DEF MailInv, TypeOK
  <2>2. CASE old \notin file
    <3>1. ren' = [ren EXCEPT !.todo = @ \ {m}] /\ UNCHANGED file
      BY <2>2 DEF RenameFile
    <3>2. ren' \in Renames /\ ren'.on = ren.on
      BY <1>1, <3>1 DEF Renames
    <3> QED BY <1>1, <3>1, <3>2, CopiesGrow DEF MailInv, TypeOK
  <2> QED BY <2>1, <2>2
<1>3. Shaped' /\ TypeOK'
  BY <1>1, <1>2, TypedNext DEF MailInv, Shaped, TypeOK
<1>4. View("job")' = View("job")
  BY <1>1 DEF View
<1>5. Transactions'
  <2>1. ren'.on
    BY <1>1, <1>2 DEF MailInv, Transactions
  <2> QED BY <1>1, <2>1 DEF MailInv, Transactions, Fewer
<1>6. AllKept' /\ CountedListed'
  BY <1>1, <1>2, <1>4 DEF MailInv, AllKept, CountedListed
<1>7. Watermark'
  BY <1>1, <1>2 DEF MailInv, Watermark
<1>8. Saving'
  BY <1>1, <1>2, <1>4 DEF MailInv, Saving
<1> QED BY <1>3, <1>5, <1>6, <1>7, <1>8 DEF MailInv

LEMMA RenameRowKeeps ==
  ASSUME MailInv, RenameRow PROVE MailInv'
<1>1. PICK new \in ren.moved :
        /\ Write("rename", IF View("rename")[new[1]].name = 0 THEN View("rename")
                           ELSE [View("rename") EXCEPT ![new[1]].name = new[2]])
        /\ ren' = [ren EXCEPT !.moved = {}, !.todo = @ \ {new[1]}]
  BY DEF RenameRow
<1> DEFINE rows == View("rename")
           after == IF rows[new[1]].name = 0 THEN rows ELSE [rows EXCEPT ![new[1]].name = new[2]]
<1>2. UNCHANGED <<arrived, zip, file, row, mark, job, calls, failures, viewer, partial>>
  BY DEF RenameRow
<1>3. new[1] \in Mails /\ new[1] \in Items /\ new[2] \in 0..MaxNames /\ new[2] # 0
  <2>1. new \in Mails \X (1..MaxNames)
    BY DEF MailInv, Shaped, Renames
  <2> QED BY <2>1, BoundsAreNatural DEF Items
<1>4. /\ rows \in [Items -> Rows] /\ \A i \in Items : rows[i].name = 0 <=> row[i].name = 0
  BY DEF MailInv, TypeOK, Transactions, View
<1>5. after \in [Items -> Rows] /\ \A i \in Items : after[i].name = 0 <=> rows[i].name = 0
  <2>1. \A r \in Rows : /\ [r EXCEPT !.name = new[2]] \in Rows
                        /\ [r EXCEPT !.name = new[2]].name = new[2]
    BY <1>3 DEF Rows
  <2> HIDE DEF rows
  <2> QED BY <1>3, <1>4, <2>1
<1>6. tx \in {Nobody, "rename"} /\ tx' = "rename" /\ draft' = after
  BY <1>1 DEF Write
<1> HIDE DEF rows, after
<1>7. ren' \in Renames /\ ren'.on = ren.on /\ ren'.moved = {}
  BY <1>1 DEF MailInv, Shaped, Renames
<1>8. ren.on
  BY <1>1 DEF MailInv, Transactions
<1>9. Shaped' /\ TypeOK'
  BY <1>2, <1>5, <1>6, <1>7, TypedNext DEF MailInv, Shaped, TypeOK
<1>10. (\A i : Kept(i)' = Kept(i)) /\ View("job")' = View("job")
  BY <1>2, <1>6 DEF Copies, Kept, View, Nobody
<1>11. Transactions'
  BY <1>2, <1>4, <1>5, <1>6, <1>7, <1>8 DEF MailInv, Transactions
<1>12. AllKept'
  BY <1>2, <1>4, <1>5, <1>6, <1>10 DEF MailInv, AllKept
<1>13. CountedListed' /\ Watermark' /\ Saving'
  BY <1>2, <1>10 DEF MailInv, CountedListed, Watermark, Saving
<1> QED BY <1>9, <1>11, <1>12, <1>13 DEF MailInv

(* What the rename commits lists the same mails: watermark and counts stand. *)
LEMMA RenameEndsKeeps ==
  ASSUME MailInv, RenameEnds PROVE MailInv'
<1>1. /\ ren' = NoRename /\ Commit("rename")
      /\ UNCHANGED <<arrived, zip, file, mark, job, calls, failures, viewer, partial>>
  BY DEF RenameEnds
<1>2. /\ row' \in [Items -> Rows] /\ draft' \in [Items -> Rows]
      /\ \A i \in Items : row'[i].name = 0 <=> row[i].name = 0
      /\ \A i \in Items : draft'[i].name # 0 => draft[i].name # 0
      /\ tx' # "rename" /\ tx' \in {Nobody, "job", "viewer"}
      /\ tx' # Nobody => UNCHANGED index
  <2>1. Empty \in [Items -> Rows] /\ \A i \in Items : Empty[i].name = 0
    BY RowsTyped DEF Empty, NoRow
  <2> QED BY <1>1, <2>1 DEF MailInv, TypeOK, Transactions, Commit, index, Nobody
<1>3. Shaped' /\ TypeOK'
  BY <1>1, <1>2, NoRenameTyped, TypedNext DEF MailInv, Shaped, TypeOK
<1>4. /\ \A i : Kept(i)' = Kept(i)
      /\ \A i \in Items : View("job")'[i].name = 0 <=> View("job")[i].name = 0
  <2>1. \A i : Kept(i)' = Kept(i)
    BY <1>1 DEF Copies, Kept
  <2>2. CASE tx' = "job"
    <3>1. View("job")' = View("job")
      BY <1>2, <2>2 DEF View, index, Nobody
    <3> QED BY <2>1, <3>1
  <2>3. CASE tx' # "job"
    <3>1. tx # "job"
      BY <1>1, <2>3 DEF Commit, index
    <3>2. View("job")' = row' /\ View("job") = row
      BY <2>3, <3>1 DEF View
    <3> QED BY <1>2, <2>1, <3>2
  <2> QED BY <2>2, <2>3
<1>5. Transactions'
  BY <1>1, <1>2, NoRenameTyped DEF MailInv, Transactions, Fewer, Nobody, index
<1>6. AllKept'
  BY <1>2, <1>4 DEF MailInv, AllKept
<1>7. CountedListed'
  BY <1>1, <1>4 DEF MailInv, CountedListed, TypeOK
<1>8. Watermark'
  BY <1>1, <1>2, <1>4 DEF MailInv, Watermark, Items
<1>9. Saving'
  BY <1>1, <1>4 DEF MailInv, Saving, Items
<1> QED BY <1>3, <1>5, <1>6, <1>7, <1>8, <1>9 DEF MailInv

LEMMA RenameFailsKeeps ==
  ASSUME MailInv, RenameFails PROVE MailInv'
<1>1. /\ ren' = NoRename /\ Rollback("rename") /\ failures' = failures + 1
      /\ failures < MaxFailures
      /\ UNCHANGED <<arrived, zip, file, row, mark, job, calls, viewer, partial>>
  BY DEF RenameFails
<1>2. /\ draft' \in [Items -> Rows] /\ tx' \in {Nobody, "job", "viewer"}
      /\ ((tx' = tx /\ draft' = draft) \/ (tx = "rename" /\ tx' = Nobody))
      /\ \A i \in Items : draft'[i].name # 0 => draft[i].name # 0
  BY <1>1, RollbackShape DEF Nobody
<1>3. failures' \in 0..MaxFailures
  BY <1>1, BoundsAreNatural DEF MailInv, TypeOK
<1>4. Shaped' /\ TypeOK'
  BY <1>1, <1>2, <1>3, NoRenameTyped, TypedNext DEF MailInv, Shaped, TypeOK
<1>5. (\A i : Kept(i)' = Kept(i)) /\ View("job")' = View("job")
  BY <1>1, <1>2 DEF Copies, Kept, View, Nobody
<1>6. Transactions'
  BY <1>1, <1>2, NoRenameTyped DEF MailInv, Transactions, Fewer, Nobody
<1>7. AllKept' /\ Watermark'
  BY <1>1, <1>2, <1>5 DEF MailInv, AllKept, Watermark
<1>8. CountedListed' /\ Saving'
  BY <1>1, <1>5 DEF MailInv, CountedListed, Saving
<1> QED BY <1>4, <1>6, <1>7, <1>8 DEF MailInv

(* The cleaning of the index, by the daily backup or by the viewer, and the deletion
   of a file. *)

(* Only what a cleaning has before it changes. *)
LEMMA SweepQuiet ==
  ASSUME MailInv, sweep' \in [{"job", "viewer"} -> Sweeps], calls' \in 0..MaxCalls,
         sweep["viewer"].on => sweep'["viewer"].on, sweep'["job"].on => job.phase = "clean",
         \A who \in {"job", "viewer"} :
           sweep'[who].todo # {} \/ sweep'[who].missing # {} => sweep'[who].on,
         UNCHANGED <<arrived, zip, file, index, mark, job, ren, failures, erase, deleted,
                     dropped, partial>>
  PROVE  MailInv'
<1>1. Shaped' /\ TypeOK'
  BY TypedNext DEF MailInv, Shaped, TypeOK, index
<1>2. (\A i : Kept(i)' = Kept(i)) /\ View("job")' = View("job")
  BY DEF Copies, Kept, View, index
<1>3. Transactions'
  BY DEF MailInv, Transactions, Fewer, index
<1>4. AllKept' /\ CountedListed'
  BY <1>2 DEF MailInv, AllKept, CountedListed, index
<1>5. Watermark' /\ Saving'
  BY <1>2 DEF MailInv, Watermark, Saving, index
<1> QED BY <1>1, <1>3, <1>4, <1>5 DEF MailInv

LEMMA SweepReadKeeps ==
  ASSUME MailInv, CleanRead \/ CleanupMissing PROVE MailInv'
<1>1. PICK who \in {"job", "viewer"} :
        SweepRead(who) /\ calls' \in 0..MaxCalls /\ (who = "job" => job.phase = "clean")
  BY BoundsAreNatural DEF CleanRead, CleanupMissing, MailInv, TypeOK
<1> DEFINE read == [NoSweep EXCEPT !.on = TRUE, !.todo = {i \in Items : row[i].name # 0},
                                   !.names = [i \in Items |-> row[i].name]]
<1>2. read \in Sweeps /\ read.on /\ read.missing = {}
  <2>1. [i \in Items |-> row[i].name] \in [Items -> 0..MaxNames]
    BY DEF MailInv, TypeOK, Rows
  <2> QED BY <2>1 DEF NoSweep, Sweeps
<1>3. sweep' = [sweep EXCEPT ![who] = read]
  BY <1>1 DEF SweepRead
<1> HIDE DEF read
<1>4. /\ sweep' \in [{"job", "viewer"} -> Sweeps]
      /\ \A w \in {"job", "viewer"} : sweep'[w] = IF w = who THEN read ELSE sweep[w]
  BY <1>1, <1>2, <1>3 DEF MailInv, TypeOK
<1>5. UNCHANGED <<arrived, zip, file, index, mark, job, ren, failures, erase, deleted, dropped,
                  partial>>
  BY <1>1 DEF SweepRead
<1> QED BY <1>1, <1>2, <1>4, <1>5, SweepQuiet DEF MailInv, Transactions

LEMMA SweepLookKeeps ==
  ASSUME MailInv, NEW who \in {"job", "viewer"}, NEW i \in Items, SweepLook(who, i)
  PROVE  MailInv'
<1> DEFINE looked == {k \in {i} : <<k, sweep[who].names[k]>> \notin file}
           after == [sweep[who] EXCEPT !.todo = @ \ {i}, !.missing = looked]
<1>1. /\ sweep' = [sweep EXCEPT ![who] = after]
      /\ i \in sweep[who].todo /\ sweep[who] \in Sweeps /\ looked \subseteq Items
      /\ UNCHANGED <<arrived, zip, file, index, mark, job, ren, calls, failures, erase, deleted,
                     dropped, partial>>
  BY DEF SweepLook, MailInv, TypeOK
<1> HIDE DEF looked
<1>2. after \in Sweeps /\ after.on = sweep[who].on
  BY <1>1 DEF Sweeps
<1>3. sweep[who].on
  BY <1>1 DEF MailInv, Transactions
<1> HIDE DEF after
<1>4. /\ sweep' \in [{"job", "viewer"} -> Sweeps] /\ sweep'[who].on
      /\ \A w \in {"job", "viewer"} : w # who => sweep'[w] = sweep[w]
  BY <1>1, <1>2, <1>3 DEF MailInv, TypeOK
<1>5. calls' \in 0..MaxCalls /\ (sweep["viewer"].on => sweep'["viewer"].on)
  BY <1>1, <1>4 DEF MailInv, TypeOK
<1>6. sweep'["job"].on => job.phase = "clean"
  BY <1>3, <1>4 DEF MailInv, Transactions
<1>7. \A w \in {"job", "viewer"} :
        sweep'[w].todo # {} \/ sweep'[w].missing # {} => sweep'[w].on
  BY <1>4 DEF MailInv, Transactions
<1> QED BY <1>1, <1>4, <1>5, <1>6, <1>7, SweepQuiet

(* A cleaning deletes a row of what it sees, which has no row that is not committed. *)
LEMMA SweepRowKeeps ==
  ASSUME MailInv, NEW who \in {"job", "viewer"}, SweepRow(who) PROVE MailInv'
<1>1. PICK i \in sweep[who].missing : Write(who, [View(who) EXCEPT ![i] = NoRow])
  BY DEF SweepRow
<1> DEFINE after == [View(who) EXCEPT ![i] = NoRow]
<1>2. /\ sweep' = [sweep EXCEPT ![who].missing = {}]
      /\ UNCHANGED <<arrived, zip, file, row, mark, job, ren, calls, failures, erase, deleted,
                     dropped, partial>>
  BY DEF SweepRow
<1>3. sweep[who].on /\ (who = "job" => job.phase = "clean")
  BY <1>1 DEF MailInv, Transactions
<1>4. tx \in {Nobody, who} /\ tx' = who /\ draft' = after
  BY <1>1 DEF Write
<1>5. View(who) \in [Items -> Rows] /\ \A k \in Items : View(who)[k].name # 0 => row[k].name # 0
  BY <1>3, <1>4 DEF View, MailInv, TypeOK, Transactions, Fewer, Nobody
<1>6. after \in [Items -> Rows] /\ \A k \in Items : after[k].name # 0 => row[k].name # 0
  <2>1. NoRow \in Rows /\ NoRow.name = 0
    BY RowsTyped DEF NoRow
  <2> QED BY <1>5, <2>1
<1> HIDE DEF after
<1>7. /\ sweep' \in [{"job", "viewer"} -> Sweeps] /\ sweep'[who].on
      /\ \A w \in {"job", "viewer"} : sweep'[w].on = sweep[w].on
      /\ \A w \in {"job", "viewer"} :
           sweep'[w].todo # {} \/ sweep'[w].missing # {} => sweep'[w].on
  <2>1. sweep[who] \in Sweeps
    BY DEF MailInv, TypeOK
  <2>2. /\ [sweep[who] EXCEPT !.missing = {}] \in Sweeps
        /\ [sweep[who] EXCEPT !.missing = {}].on = sweep[who].on
    BY <2>1 DEF Sweeps
  <2> DEFINE rest == [sweep[who] EXCEPT !.missing = {}]
  <2>3. sweep' = [sweep EXCEPT ![who] = rest]
    BY <1>2 DEF MailInv, TypeOK
  <2> HIDE DEF rest
  <2>4. /\ sweep' \in [{"job", "viewer"} -> Sweeps] /\ sweep'[who] = rest
        /\ \A w \in {"job", "viewer"} : w # who => sweep'[w] = sweep[w]
    BY <2>2, <2>3 DEF MailInv, TypeOK, rest
  <2>5. rest.on = sweep[who].on
    BY <2>2 DEF rest
  <2> QED BY <1>3, <2>4, <2>5 DEF MailInv, Transactions
<1>8. Shaped' /\ TypeOK'
  BY <1>2, <1>4, <1>6, <1>7, TypedNext DEF MailInv, Shaped, TypeOK
<1>9. \A i_1 : Kept(i_1)' = Kept(i_1)
  BY <1>2 DEF Copies, Kept
<1>10. Transactions'
  BY <1>2, <1>3, <1>4, <1>6, <1>7 DEF MailInv, Transactions, Fewer
<1>11. AllKept'
  BY <1>2, <1>4, <1>6, <1>9 DEF MailInv, AllKept
<1>12. CASE who = "job"
  <2>1. job.phase = "clean" /\ job'.phase = "clean"
    BY <1>2, <1>3, <1>12
  <2>2. CountedListed' /\ Saving'
    BY <1>2, <2>1 DEF MailInv, CountedListed, Saving
  <2>3. Watermark'
    BY <1>2, <1>9 DEF MailInv, Watermark
  <2> QED BY <1>8, <1>10, <1>11, <2>2, <2>3 DEF MailInv
<1>13. CASE who = "viewer"
  <2>1. View("job")' = View("job")
    BY <1>2, <1>4, <1>13 DEF View, Nobody
  <2>2. CountedListed' /\ Saving' /\ Watermark'
    BY <1>2, <1>9, <2>1 DEF MailInv, CountedListed, Saving, Watermark
  <2> QED BY <1>8, <1>10, <1>11, <2>2 DEF MailInv
<1> QED BY <1>12, <1>13

(* Rows go from the committed index, beside a job; what the job had counted of them
   is noted. *)
LEMMA RowsGo ==
  ASSUME MailInv, row' \in [Items -> Rows], draft' \in [Items -> Rows],
         \A i \in Items : row'[i].name # 0 => row[i].name # 0,
         \/ tx = Nobody /\ tx' = Nobody /\ draft' = draft
         \/ tx = "viewer" /\ tx' = Nobody /\ \A i \in Items : draft'[i].name = 0,
         dropped' = dropped \cup {i \in Items : row[i].name # 0 /\ row'[i].name = 0},
         erase' \subseteq erase, sweep' \in [{"job", "viewer"} -> Sweeps],
         sweep'["job"] = sweep["job"],
         sweep'["viewer"] \in {sweep["viewer"], NoSweep},
         UNCHANGED <<arrived, zip, file, mark, job, ren, calls, failures, deleted, partial>>
  PROVE  MailInv'
<1>1. Shaped' /\ TypeOK'
  <2>1. dropped' \subseteq Items /\ erase' \subseteq Items \X (1..MaxNames)
    BY DEF MailInv, TypeOK
  <2> QED BY <2>1, TypedNext DEF MailInv, Shaped, TypeOK
<1>2. \A i : Kept(i)' = Kept(i)
  BY DEF Copies, Kept
<1>3. View("job")' = row' /\ View("job") = row
  BY DEF View, Nobody
<1>4. Transactions'
  BY SweepsTyped DEF MailInv, Transactions, Nobody
<1>5. AllKept'
  BY <1>2 DEF MailInv, AllKept
<1>6. CountedListed'
  <2>1. job.counted \subseteq Items
    BY DEF MailInv, TypeOK
  <2> QED BY <1>3, <2>1 DEF MailInv, CountedListed
<1>7. Watermark'
  BY <1>2 DEF MailInv, Watermark, Items
<1>8. Saving'
  BY <1>2, <1>3 DEF MailInv, Saving, Items
<1> QED BY <1>1, <1>4, <1>5, <1>6, <1>7, <1>8 DEF MailInv

LEMMA CleanupEndsKeeps ==
  ASSUME MailInv, CleanupEnds PROVE MailInv'
<1>1. /\ Commit("viewer") /\ sweep' = [sweep EXCEPT !["viewer"] = NoSweep]
      /\ dropped' = dropped \cup {i \in Items : row[i].name # 0 /\ row'[i].name = 0}
      /\ UNCHANGED <<arrived, zip, file, mark, job, ren, calls, failures, erase, deleted, partial>>
  BY DEF CleanupEnds, SweepEnds
<1>2. /\ sweep' \in [{"job", "viewer"} -> Sweeps] /\ sweep'["job"] = sweep["job"]
      /\ sweep'["viewer"] = NoSweep
  BY <1>1, SweepsTyped DEF MailInv, TypeOK
<1>3. CASE tx = "viewer"
  <2>1. Empty \in [Items -> Rows] /\ \A i \in Items : Empty[i].name = 0
    BY RowsTyped DEF Empty, NoRow
  <2>2. row' = draft /\ draft' = Empty /\ tx' = Nobody
    BY <1>1, <1>3 DEF Commit
  <2>3. /\ row' \in [Items -> Rows] /\ draft' \in [Items -> Rows]
        /\ \A i \in Items : row'[i].name # 0 => row[i].name # 0
        /\ \A i \in Items : draft'[i].name = 0
    BY <1>3, <2>1, <2>2 DEF MailInv, TypeOK, Transactions, Fewer
  <2> QED BY <1>1, <1>2, <1>3, <2>2, <2>3, RowsGo
<1>4. CASE tx # "viewer"
  <2>1. UNCHANGED index
    BY <1>1, <1>4 DEF Commit
  <2>2. dropped' = dropped /\ Shaped' /\ TypeOK'
    <3>1. dropped' = dropped
      BY <1>1, <2>1 DEF index
    <3> QED BY <1>1, <1>2, <2>1, <3>1, TypedNext DEF MailInv, Shaped, TypeOK, index
  <2>3. (\A i : Kept(i)' = Kept(i)) /\ View("job")' = View("job")
    BY <1>1, <2>1 DEF Copies, Kept, View, index
  <2>4. Transactions'
    BY <1>1, <1>2, <1>4, <2>1, SweepsTyped DEF MailInv, Transactions, Fewer, index
  <2>5. AllKept' /\ CountedListed' /\ Watermark' /\ Saving'
    BY <1>1, <2>1, <2>2, <2>3 DEF MailInv, AllKept, CountedListed, Watermark, Saving, index
  <2> QED BY <2>2, <2>4, <2>5 DEF MailInv
<1> QED BY <1>3, <1>4

LEMMA DeleteRowsKeeps ==
  ASSUME MailInv, DeleteRows PROVE MailInv'
<1>1. PICK f \in erase :
        /\ row' = [i \in Items |->
                     IF i \in {k \in Items : <<k, row[k].name>> = f} THEN NoRow ELSE row[i]]
        /\ erase' = erase \ {f}
        /\ dropped' = dropped \cup {k \in Items : <<k, row[k].name>> = f}
  BY DEF DeleteRows
<1>2. /\ tx = Nobody
      /\ UNCHANGED <<arrived, zip, file, draft, tx, mark, job, ren, sweep, calls, failures, deleted,
                     partial>>
  BY DEF DeleteRows
<1>3. NoRow \in Rows /\ NoRow.name = 0 /\ row \in [Items -> Rows] /\ draft \in [Items -> Rows]
  BY RowsTyped DEF NoRow, MailInv, TypeOK
<1>4. \A i \in Items : i \in {k \in Items : <<k, row[k].name>> = f} => row[i].name # 0
  <2>1. f \in Items \X (1..MaxNames)
    BY DEF MailInv, TypeOK
  <2> QED BY <2>1, BoundsAreNatural
<1>5. /\ row' \in [Items -> Rows]
      /\ \A i \in Items : row'[i].name # 0 => row[i].name # 0
      /\ {i \in Items : row[i].name # 0 /\ row'[i].name = 0}
           = {k \in Items : <<k, row[k].name>> = f}
  BY <1>1, <1>3, <1>4
<1>6. dropped' = dropped \cup {i \in Items : row[i].name # 0 /\ row'[i].name = 0}
  BY <1>1, <1>5
<1>7. sweep' \in [{"job", "viewer"} -> Sweeps] /\ erase' \subseteq erase
  BY <1>1, <1>2 DEF MailInv, TypeOK
<1> QED BY <1>2, <1>3, <1>5, <1>6, <1>7, RowsGo

(* A file goes, and its item is one that was deleted. *)
LEMMA DeleteFileKeeps ==
  ASSUME MailInv, NEW i \in Items, NEW k \in 1..MaxNames, DeleteFile(i, k) PROVE MailInv'
<1>1. /\ calls < MaxCalls /\ calls' = calls + 1 /\ file' = file \ {<<i, k>>}
      /\ erase' = erase \cup {<<i, k>>} /\ deleted' = deleted \cup {i}
      /\ UNCHANGED <<arrived, zip, index, mark, job, ren, sweep, failures, dropped, partial>>
  BY DEF DeleteFile
<1>2. calls' \in 0..MaxCalls /\ erase' \subseteq Items \X (1..MaxNames) /\ deleted' \subseteq Items
  BY <1>1, BoundsAreNatural DEF MailInv, TypeOK
<1>3. Shaped' /\ TypeOK'
  BY <1>1, <1>2, TypedNext DEF MailInv, Shaped, TypeOK, index
<1>4. \A n : Kept(n) => Kept(n)'
  BY <1>1 DEF Copies, Kept
<1>5. View("job")' = View("job")
  BY <1>1 DEF View, index
<1>6. Transactions'
  BY <1>1 DEF MailInv, Transactions, Fewer, index
<1>7. AllKept' /\ CountedListed'
  BY <1>1, <1>4, <1>5 DEF MailInv, AllKept, CountedListed, index
<1>8. Watermark' /\ Saving'
  BY <1>1, <1>4, <1>5 DEF MailInv, Watermark, Saving, index
<1> QED BY <1>3, <1>6, <1>7, <1>8 DEF MailInv

LEMMA DeleteFailsKeeps ==
  ASSUME MailInv, DeleteFails PROVE MailInv'
<1>1. /\ erase' \subseteq erase /\ failures' = failures + 1 /\ failures < MaxFailures
      /\ UNCHANGED <<arrived, zip, file, index, mark, job, ren, sweep, calls, deleted, dropped,
                     partial>>
  BY DEF DeleteFails
<1>2. failures' \in 0..MaxFailures /\ erase' \subseteq Items \X (1..MaxNames)
  BY <1>1, BoundsAreNatural DEF MailInv, TypeOK
<1>3. Shaped' /\ TypeOK'
  BY <1>1, <1>2, TypedNext DEF MailInv, Shaped, TypeOK, index
<1>4. (\A i : Kept(i)' = Kept(i)) /\ View("job")' = View("job")
  BY <1>1 DEF Copies, Kept, View, index
<1>5. Transactions' /\ AllKept' /\ CountedListed'
  BY <1>1, <1>4 DEF MailInv, Transactions, Fewer, AllKept, CountedListed, index
<1>6. Watermark' /\ Saving'
  BY <1>1, <1>4 DEF MailInv, Watermark, Saving, index
<1> QED BY <1>3, <1>5, <1>6 DEF MailInv

LEMMA CleanupFailsKeeps ==
  ASSUME MailInv, CleanupFails PROVE MailInv'
<1>1. /\ Rollback("viewer") /\ failures' = failures + 1 /\ failures < MaxFailures
      /\ sweep' = [sweep EXCEPT !["viewer"] = NoSweep]
      /\ UNCHANGED <<arrived, zip, file, row, mark, job, ren, calls, erase, deleted, dropped,
                     partial>>
  BY DEF CleanupFails
<1>2. /\ draft' \in [Items -> Rows] /\ tx' \in {Nobody, "job", "rename"}
      /\ ((tx' = tx /\ draft' = draft) \/ (tx = "viewer" /\ tx' = Nobody))
      /\ \A i \in Items : draft'[i].name # 0 => draft[i].name # 0
  BY <1>1, RollbackShape DEF Nobody
<1>3. failures' \in 0..MaxFailures
  BY <1>1, BoundsAreNatural DEF MailInv, TypeOK
<1>4. /\ sweep' \in [{"job", "viewer"} -> Sweeps] /\ sweep'["job"] = sweep["job"]
      /\ sweep'["viewer"] = NoSweep
  BY <1>1, SweepsTyped DEF MailInv, TypeOK
<1>5. Shaped' /\ TypeOK'
  BY <1>1, <1>2, <1>3, <1>4, TypedNext DEF MailInv, Shaped, TypeOK
<1>6. (\A i : Kept(i)' = Kept(i)) /\ View("job")' = View("job")
  BY <1>1, <1>2 DEF Copies, Kept, View, Nobody
<1>7. Transactions'
  BY <1>1, <1>2, <1>4, SweepsTyped DEF MailInv, Transactions, Fewer, Nobody
<1>8. AllKept' /\ Watermark'
  BY <1>1, <1>2, <1>6 DEF MailInv, AllKept, Watermark
<1>9. CountedListed' /\ Saving'
  BY <1>1, <1>6 DEF MailInv, CountedListed, Saving
<1> QED BY <1>5, <1>7, <1>8, <1>9 DEF MailInv

LEMMA InitMail == Init => MailInv
<1> SUFFICES ASSUME Init PROVE MailInv
  OBVIOUS
<1>1. Empty \in [Items -> Rows] /\ \A i \in Items : Empty[i].name = 0
  BY RowsTyped DEF Empty, NoRow
<1>2. Shaped
  BY IdleTyped, NoRenameTyped DEF Init, Shaped
<1>3. TypeOK
  <2>1. 0 \in 0..MaxCalls /\ 0 \in 0..MaxFailures
    BY BoundsAreNatural
  <2>2. /\ job.phase = "idle" /\ job.limit \in BOOLEAN /\ job.todo = {} /\ job.counted = {}
        /\ job.top \in Days /\ job.last \in Mails \cup {Nothing}
    BY <1>2, IdleTyped DEF Init, Shaped, Jobs
  <2>3. /\ ren.todo \subseteq Mails /\ ren.names \in [Mails -> 0..MaxNames]
        /\ ren.moved \subseteq Mails \X (1..MaxNames) /\ ren.on \in BOOLEAN
    BY <1>2 DEF Shaped, Renames
  <2> QED BY <1>1, <2>1, <2>2, <2>3, DaysNumbers, SweepsTyped DEF Init, TypeOK
<1>4. Transactions
  BY NoRenameTyped, SweepsTyped DEF Init, Transactions, Nobody
<1>5. AllKept /\ Watermark
  BY <1>1 DEF Init, AllKept, Watermark, Items
<1>6. CountedListed /\ Saving
  BY IdleTyped DEF Init, CountedListed, Saving
<1> QED BY <1>2, <1>3, <1>4, <1>5, <1>6 DEF MailInv

LEMMA StepKeepsMail == MailInv /\ [Next]_vars => MailInv'
<1> SUFFICES ASSUME MailInv, [Next]_vars PROVE MailInv'
  OBVIOUS
<1>1. CASE Download \/ \E m \in Mails : Arrive(m)
  BY <1>1, WorldKeeps
<1>2. CASE \/ \E plan \in Plans : Start(plan, FALSE)
           \/ Start(<<"list">>, TRUE)
  BY <1>2, StartKeeps
<1>3. CASE JobStep
  BY <1>3, SweepReadKeeps, SweepLookKeeps, SweepRowKeeps, CleanEndsKeeps, ListKeeps,
     SaveEndsKeeps, BetweenKeeps, TakeEndsKeeps, SaveKeeps, TakeKeeps DEF JobStep
<1>4. CASE RenameStart \/ RenameStep
  BY <1>4, RenameStartKeeps, RenameRowKeeps, RenameEndsKeeps, RenameFileKeeps DEF RenameStep
<1>5. CASE Fail \/ RenameFails \/ DeleteFails \/ CleanupFails
  BY <1>5, FailKeeps, RenameFailsKeeps, DeleteFailsKeeps, CleanupFailsKeeps
<1>6. CASE \/ \E i \in Items : \E k \in 1..MaxNames : DeleteFile(i, k)
           \/ CleanupMissing \/ ViewerStep
  BY <1>6, DeleteFileKeeps, DeleteRowsKeeps, SweepReadKeeps, SweepLookKeeps, SweepRowKeeps,
     CleanupEndsKeeps DEF ViewerStep
<1>7. CASE UNCHANGED vars
  <2>1. /\ UNCHANGED <<arrived, zip, file, index, mark, job, ren, calls, failures, viewer, partial>>
    BY <1>7 DEF vars, index
  <2> QED BY <2>1, QuietKeeps DEF MailInv, TypeOK
<1> QED BY <1>1, <1>2, <1>3, <1>4, <1>5, <1>6, <1>7 DEF Next

LEMMA MailInvariance == Spec => []MailInv
BY InitMail, StepKeepsMail, PTL DEF Spec

------------------------------------------------------------------------------
(* Theorems. *)

(* No mail of the account is passed by the watermark before it is in the vault, and
   none the index lists is lost from it except through the viewer's own deletion, for
   any mails and days, any number of failures and whatever a rename and the viewer do
   beside (backup_gmail_api, _incremental_query, rename_existing_gmail_files,
   delete_local_file_and_index). *)
THEOREM MailKept == Spec => []MailIsKept
<1>1. MailInv => NothingForgotten
  <2> SUFFICES ASSUME MailInv, ~partial, NEW m \in arrived
               PROVE  Kept(m) \/ Date[m] >= Cutoff
    BY DEF NothingForgotten
  <2> QED BY NothingIsForgotten DEF Listed
<1>2. MailInv => IndexedIsKept
  BY DEF MailInv, AllKept, IndexedIsKept
<1>3. MailInv => MailIsKept
  BY <1>1, <1>2 DEF MailInv, MailIsKept
<1> QED BY <1>3, MailInvariance, PTL

(* Whoever is told that a job ended well finds in the committed index what the
   job counted, or the viewer took it out while the job ran (run_with_report). *)
THEOREM OkIndexed == Spec => OkMeansIndexed
<1> DEFINE Told == (job' = Idle /\ job # Idle /\ failures' = failures)
                     => \A i \in job.counted : row'[i].name # 0 \/ i \in dropped
<1>1. MailInv /\ [Next]_vars => [Told]_vars
  <2> SUFFICES ASSUME MailInv, Next, job' = Idle, job # Idle, failures' = failures,
                      NEW i \in job.counted
               PROVE  row'[i].name # 0 \/ i \in dropped
    BY DEF vars
  <2>1. job.counted \subseteq Items /\ (View("job")[i].name # 0 \/ i \in dropped)
    BY DEF MailInv, TypeOK, CountedListed
  <2>2. CASE SaveEnds \/ TakeEnds
    <3>1. Commit("job")
      BY <2>2 DEF SaveEnds, TakeEnds
    <3> QED BY <2>1, <3>1, CommitShape
  <2>3. CASE CleanEnds
    <3>1. job.phase = "clean"
      BY <2>3 DEF CleanEnds, SweepEnds, MailInv, Transactions
    <3> QED BY <3>1 DEF MailInv, CountedListed
  <2>4. CASE Sync \/ Move
    <3>1. tx # "job" /\ row' = row
      BY <2>4 DEF Sync, Move, index, MailInv, Transactions
    <3> QED BY <2>1, <3>1 DEF View
  <2>5. CASE List \/ (\E kind \in {"photos", "mail"} : Extract(kind))
    <3>1. job'.phase \in {"save", "take"}
      BY <2>5 DEF List, Extract, MailInv, Shaped, Jobs
    <3> QED BY <3>1, IdleTyped
  <2>6. CASE (\E m \in Mails : Save(m)) \/ (\E k \in Items : Take(k) \/ TakeFails(k))
    <3>1. job'.phase \in {"save", "take"}
      BY <2>6, SaveShape, TakeShape DEF Handled, MailInv
    <3> QED BY <3>1, IdleTyped
  <2>7. CASE Fail \/ CleanupFails \/ DeleteFails
    BY <2>7 DEF Fail, CleanupFails, DeleteFails, MailInv, TypeOK
  <2>8. CASE CleanRead \/ SweepRow("job") \/ \E k \in Items : SweepLook("job", k)
    BY <2>8 DEF CleanRead, SweepRead, SweepRow, SweepLook
  <2>9. CASE \/ CleanupMissing \/ ViewerStep
             \/ \E k \in Items : \E n \in 1..MaxNames : DeleteFile(k, n)
    BY <2>9 DEF CleanupMissing, SweepRead, ViewerStep, DeleteRows, SweepRow, CleanupEnds,
       SweepLook, DeleteFile
  <2>10. CASE \/ Download \/ RenameStart \/ RenameStep \/ RenameFails
              \/ \E m \in Mails : Arrive(m)
    BY <2>10 DEF Arrive, Download, outside, RenameStart, RenameStep, RenameRow, RenameEnds,
       RenameFile, RenameFails
  <2>11. CASE Start(<<"list">>, TRUE) \/ \E plan \in Plans : Start(plan, FALSE)
    BY <2>11 DEF Start
  <2> QED BY <2>2, <2>3, <2>4, <2>5, <2>6, <2>7, <2>8, <2>9, <2>10, <2>11 DEF JobStep, Next
<1> QED BY <1>1, MailInvariance, PTL DEF Spec, OkMeansIndexed

------------------------------------------------------------------------------
(* The replica and the restore. *)

CommandStates ==
  [kind : {"none", "replica", "restore"}, pc : {"idle", "walk", "wait", "copy", "restore"},
   policy : Policies, todo : SUBSET Files, plan : [Files -> Contents], keep : SUBSET Files,
   stale : BOOLEAN, blind : BOOLEAN, at : SUBSET Files, target : {0, 1}, staged : Contents,
   errors : BOOLEAN, bad : SUBSET Written, late : SUBSET Files]

(* What each command remembers fits where it is; one that copies to the replica
   has the vault lock. *)
InOrder(c) ==
  /\ cmd[c].kind = IF cmd[c].pc = "idle" THEN "none"
                   ELSE IF cmd[c].pc = "restore" THEN "restore" ELSE "replica"
  /\ cmd[c].at = {} \/ \E f \in Files : cmd[c].at = {f}
  /\ cmd[c].at \subseteq cmd[c].todo
  /\ cmd[c].pc \in {"idle", "walk", "wait"} => cmd[c].at = {}
  /\ cmd[c].pc = "wait" => cmd[c].todo = Planned(c)
  /\ cmd[c].pc = "copy" => cmd[c].todo \subseteq Planned(c) /\ lock = c
  /\ cmd[c].keep \cap Planned(c) = {}
  /\ cmd[c].pc \in {"wait", "copy"} => cmd[c].stale = (cmd[c].keep # {})
  /\ cmd[c].pc \notin {"wait", "copy"} => cmd[c].keep = {}
  /\ cmd[c].pc # "restore" => cmd[c].bad = {}

Typed ==
  /\ vault \in [Files -> Contents] /\ hash \in [Files -> Contents]
  /\ newest \in Contents /\ moving \subseteq Files \X Files
  /\ lock \in Commands \cup {Unlocked}
  /\ replica \in [Files -> Contents] /\ snapshot \in [Files -> Contents]
  /\ manifest \in [status : {"none", "completed", "stale", "incomplete"}, files : SUBSET Files]
  /\ dest \in [Targets -> Contents \cup {Own}]
  /\ cmd \in [Commands -> CommandStates]
  /\ spent \in [starts : 0..MaxStarts, changes : 0..MaxChanges, crashes : 0..MaxCrashes]
  /\ lost \in BOOLEAN /\ indexed \subseteq Files \X Contents /\ doubt \subseteq Written
  /\ \A c \in Commands : InOrder(c)

(* A file planned and no longer to do is in the replica as planned, as long as
   no item failed. *)
Copied(c) ==
  cmd[c].pc = "copy" /\ ~cmd[c].errors =>
    \A f \in Planned(c) \ cmd[c].todo : replica[f] = cmd[c].plan[f]

(* A file in the vault is planned once the walk has passed it, unless its name
   came since the walk began. *)
Found(c) ==
  cmd[c].pc \in {"walk", "wait", "copy"} =>
    \A f \in Files :
      (vault[f] # 0 /\ f \notin cmd[c].late
         /\ (cmd[c].pc = "walk" => f \notin cmd[c].todo)) => cmd[c].plan[f] # 0

(* As long as one replica command runs at a time and none was cut off while it
   copied, its plan and what it keeps account for what the replica holds, unless
   it could not read the manifest. *)
Accounted ==
  ~lost =>
    /\ \A c, d \in Commands : cmd[c].kind = "replica" /\ cmd[d].kind = "replica" => c = d
    /\ \A c \in Commands :
         /\ cmd[c].pc = "wait" /\ ~cmd[c].blind =>
              manifest.files \subseteq Planned(c) \cup cmd[c].keep
         /\ cmd[c].pc = "copy" /\ ~cmd[c].blind =>
              \A f \in Files : replica[f] # 0 => f \in Planned(c) \cup cmd[c].keep

(* The index and every plan of a restore hold contents the index has had. *)
PlansAreIndexed ==
  /\ \A f \in Files : hash[f] # 0 => <<f, hash[f]>> \in indexed
  /\ \A c \in Commands : cmd[c].pc = "restore" =>
       \A f \in Files : cmd[c].plan[f] # 0 => <<f, cmd[c].plan[f]>> \in indexed

(* The target a restore is about to write holds no file of the owner's, except
   under overwrite or when it was put there since the target was looked at. *)
Spared ==
  /\ \A f \in Files : dest[<<f, 1>>] # Own
  /\ \A c \in Commands : cmd[c].pc = "restore" /\ cmd[c].policy # "overwrite" =>
       \A f \in cmd[c].at \ cmd[c].late : dest[<<f, cmd[c].target>>] # Own

CopiesInv ==
  /\ Typed /\ NothingUnlisted /\ Accounted
  /\ \A c \in Commands : Copied(c) /\ Found(c)
RestoreInv == Typed /\ PlansAreIndexed /\ RestoredIsIndexed /\ Spared

------------------------------------------------------------------------------
(* What the steps of a command make of what it remembers; the other commands
   stay as they are. *)

OthersStay(c) == \A d \in Commands \ {c} : cmd'[d] = cmd[d]
Sets(c) == cmd' \in [Commands -> CommandStates] /\ OthersStay(c)

LEMMA SetOne ==
  ASSUME Typed, NEW c \in Commands, NEW r \in CommandStates, Set(c, r)
  PROVE  Sets(c) /\ cmd'[c] = r
BY DEF Typed, Set, Sets, OthersStay

LEMMA FreeTyped ==
  /\ Free \in CommandStates
  /\ Free.kind = "none" /\ Free.pc = "idle" /\ Free.at = {} /\ Free.todo = {} /\ Free.keep = {}
  /\ Free.plan = [f \in Files |-> 0] /\ Free.bad = {}
BY LimitsAreNatural DEF Free, CommandStates, Policies, Contents

LEMMA SetFree ==
  ASSUME Typed, NEW c \in Commands, Set(c, Free)
  PROVE  /\ Sets(c) /\ cmd'[c].kind = "none" /\ cmd'[c].pc = "idle" /\ cmd'[c].at = {}
         /\ cmd'[c].todo = {} /\ cmd'[c].keep = {} /\ cmd'[c].plan = [f \in Files |-> 0]
         /\ cmd'[c].bad = {}
<1>1. Sets(c) /\ cmd'[c] = Free
  BY FreeTyped, SetOne
<1> QED BY <1>1, FreeTyped

LEMMA StartReplicaShape ==
  ASSUME Typed, NEW c \in Commands, StartReplica(c)
  PROVE  /\ Sets(c) /\ cmd[c].pc = "idle"
         /\ cmd'[c].kind = "replica" /\ cmd'[c].pc = "walk" /\ cmd'[c].todo = Files
         /\ cmd'[c].at = {} /\ cmd'[c].keep = {} /\ cmd'[c].plan = [f \in Files |-> 0]
         /\ cmd'[c].bad = {}
<1> DEFINE r == [Free EXCEPT !.kind = "replica", !.pc = "walk", !.todo = Files]
<1>1. r \in CommandStates
  BY FreeTyped DEF CommandStates
<1>2. Sets(c) /\ cmd'[c] = r
  BY <1>1, SetOne DEF StartReplica
<1> QED BY <1>2, FreeTyped DEF CommandStates, StartReplica

LEMMA WalkShape ==
  ASSUME Typed, NEW c \in Commands, NEW f \in Files, Walk(c, f)
  PROVE  /\ Sets(c) /\ cmd[c].pc = "walk" /\ cmd'[c].pc = "walk" /\ cmd'[c].kind = cmd[c].kind
         /\ cmd'[c].todo = cmd[c].todo \ {f} /\ cmd'[c].at = cmd[c].at
         /\ cmd'[c].plan = [cmd[c].plan EXCEPT ![f] = vault[f]]
         /\ cmd'[c].keep = cmd[c].keep /\ cmd'[c].late = cmd[c].late
         /\ cmd'[c].bad = cmd[c].bad
<1> DEFINE r == [cmd[c] EXCEPT !.todo = @ \ {f}, !.plan[f] = vault[f]]
<1>1. cmd[c] \in CommandStates /\ vault[f] \in Contents
  BY DEF Typed
<1>2. r \in CommandStates
  BY <1>1 DEF CommandStates
<1>3. Sets(c) /\ cmd'[c] = r
  BY <1>2, SetOne DEF Walk
<1> QED BY <1>1, <1>3 DEF CommandStates, Walk

LEMMA WalkEndsShape ==
  ASSUME Typed, NEW c \in Commands, WalkEnds(c)
  PROVE  /\ Sets(c) /\ cmd[c].pc = "walk" /\ cmd'[c].pc = "wait" /\ cmd'[c].kind = cmd[c].kind
         /\ cmd[c].todo = {} /\ cmd'[c].todo = Planned(c) /\ cmd'[c].at = cmd[c].at
         /\ cmd'[c].plan = cmd[c].plan /\ cmd'[c].keep \subseteq manifest.files \ Planned(c)
         /\ ~cmd'[c].blind => cmd'[c].keep = manifest.files \ Planned(c)
         /\ cmd'[c].stale = (cmd'[c].keep # {}) /\ cmd'[c].late = cmd[c].late
         /\ cmd'[c].bad = cmd[c].bad
<1> DEFINE gone == manifest.files \ Planned(c)
           r(kept) == [cmd[c] EXCEPT !.pc = "wait", !.todo = Planned(c), !.keep = kept,
                                     !.stale = (kept # {}), !.blind = (kept # gone)]
<1>1. cmd[c] \in CommandStates /\ gone \in SUBSET Files /\ Planned(c) \in SUBSET Files
  BY DEF Typed, Planned
<1>2. PICK kept \in {gone, {}} : Set(c, r(kept))
  BY DEF WalkEnds
<1>3. r(kept) \in CommandStates
  BY <1>1, <1>2 DEF CommandStates
<1>4. Sets(c) /\ cmd'[c] = r(kept)
  BY <1>2, <1>3, SetOne
<1> QED BY <1>1, <1>2, <1>4 DEF CommandStates, WalkEnds

LEMMA LockShape ==
  ASSUME Typed, NEW c \in Commands, Lock(c)
  PROVE  /\ Sets(c) /\ cmd[c].pc = "wait" /\ cmd'[c].pc = "copy" /\ cmd'[c].kind = cmd[c].kind
         /\ cmd'[c].todo = cmd[c].todo /\ cmd'[c].at = cmd[c].at
         /\ cmd'[c].plan = cmd[c].plan /\ cmd'[c].keep = cmd[c].keep
         /\ cmd'[c].stale = cmd[c].stale /\ cmd'[c].late = cmd[c].late
         /\ cmd'[c].blind = cmd[c].blind /\ cmd'[c].bad = cmd[c].bad
<1> DEFINE r == [cmd[c] EXCEPT !.pc = "copy"]
<1>1. cmd[c] \in CommandStates
  BY DEF Typed
<1>2. r \in CommandStates
  BY <1>1 DEF CommandStates
<1>3. Sets(c) /\ cmd'[c] = r
  BY <1>2, SetOne DEF Lock
<1> QED BY <1>1, <1>3 DEF CommandStates, Lock

(* What stays when a command goes through the items of its plan. *)
SameTask(c) ==
  /\ Sets(c) /\ cmd'[c].pc = cmd[c].pc /\ cmd'[c].kind = cmd[c].kind
  /\ cmd'[c].plan = cmd[c].plan /\ cmd'[c].keep = cmd[c].keep
  /\ cmd'[c].stale = cmd[c].stale /\ cmd'[c].policy = cmd[c].policy
  /\ cmd'[c].blind = cmd[c].blind

LEMMA StageShape ==
  ASSUME Typed, NEW c \in Commands, NEW f \in Files, Stage(c, f)
  PROVE  /\ SameTask(c) /\ cmd[c].pc = "copy" /\ f \in cmd[c].todo
         /\ cmd'[c].at = {f} /\ cmd'[c].todo = cmd[c].todo /\ cmd'[c].errors = cmd[c].errors
         /\ cmd'[c].late = cmd[c].late /\ cmd'[c].bad = cmd[c].bad
<1> DEFINE r == [cmd[c] EXCEPT !.at = {f}, !.staged = vault[f]]
<1>1. cmd[c] \in CommandStates /\ vault[f] \in Contents
  BY DEF Typed
<1>2. r \in CommandStates
  BY <1>1 DEF CommandStates
<1>3. Sets(c) /\ cmd'[c] = r
  BY <1>2, SetOne DEF Stage
<1> QED BY <1>1, <1>3 DEF CommandStates, Stage, SameTask

LEMMA PromoteShape ==
  ASSUME Typed, NEW c \in Commands, NEW f \in Files, Promote(c, f)
  PROVE  /\ SameTask(c) /\ cmd[c].pc = "copy" /\ f \in cmd[c].at
         /\ cmd'[c].at = {} /\ cmd'[c].todo = cmd[c].todo \ {f} /\ cmd'[c].late = cmd[c].late
         /\ cmd'[c].bad = cmd[c].bad
         /\ \/ /\ replica' = [replica EXCEPT ![f] = cmd[c].plan[f]]
               /\ cmd'[c].errors = cmd[c].errors
            \/ replica' = replica /\ cmd'[c].errors
<1> DEFINE r == [cmd[c] EXCEPT !.at = {}, !.todo = @ \ {f}]
           s == [cmd[c] EXCEPT !.at = {}, !.todo = @ \ {f}, !.errors = TRUE]
<1>1. cmd[c] \in CommandStates
  BY DEF Typed
<1>2. r \in CommandStates /\ s \in CommandStates
  BY <1>1 DEF CommandStates
<1>3. Sets(c) /\ (IF cmd[c].staged = cmd[c].plan[f] THEN cmd'[c] = r ELSE cmd'[c] = s)
  BY <1>2, SetOne DEF Promote
<1> QED BY <1>1, <1>3 DEF CommandStates, Promote, SameTask

LEMMA FailShape ==
  ASSUME Typed, NEW c \in Commands, NEW f \in Files, ItemFails(c, f) \/ CopyOutFails(c, f)
  PROVE  /\ SameTask(c) /\ cmd'[c].late = cmd[c].late /\ cmd'[c].bad = cmd[c].bad
         /\ cmd'[c].at = {} /\ cmd'[c].todo = cmd[c].todo \ {f}
         /\ ItemFails(c, f) => cmd'[c].errors
<1> DEFINE r == [cmd[c] EXCEPT !.at = {}, !.todo = @ \ {f}, !.errors = TRUE]
           s == [cmd[c] EXCEPT !.at = {}, !.todo = @ \ {f}]
<1>1. cmd[c] \in CommandStates
  BY DEF Typed
<1>2. r \in CommandStates /\ s \in CommandStates
  BY <1>1 DEF CommandStates
<1>3. Sets(c) /\ (cmd'[c] = r \/ (cmd'[c] = s /\ ~ItemFails(c, f)))
  BY <1>2, SetOne DEF ItemFails, CopyOutFails
<1> QED BY <1>1, <1>3 DEF CommandStates, SameTask

LEMMA StartRestoreShape ==
  ASSUME Typed, NEW c \in Commands, NEW policy \in Policies, StartRestore(c, policy)
  PROVE  /\ Sets(c) /\ cmd[c].pc = "idle"
         /\ cmd'[c].kind = "restore" /\ cmd'[c].pc = "restore" /\ cmd'[c].plan = hash
         /\ cmd'[c].at = {} /\ cmd'[c].keep = {} /\ cmd'[c].bad = {}
<1> DEFINE listed == {f \in Files : hash[f] # 0}
           taken == {f \in listed : policy = "skip" /\ Taken(f)}
           todo == {f \in listed \ taken : Present(f)}
           r == [Free EXCEPT !.kind = "restore", !.pc = "restore", !.policy = policy,
                             !.plan = hash, !.todo = todo]
<1>1. hash \in [Files -> Contents] /\ todo \in SUBSET Files
  BY DEF Typed
<1> HIDE DEF todo
<1>2. r \in CommandStates
  BY <1>1, FreeTyped DEF CommandStates
<1>3. Sets(c) /\ cmd'[c] = r
  BY <1>2, SetOne DEF StartRestore, todo
<1> QED BY <1>1, <1>3, FreeTyped DEF CommandStates, StartRestore

LEMMA ExamineShape ==
  ASSUME Typed, NEW c \in Commands, NEW f \in Files, Examine(c, f)
  PROVE  /\ SameTask(c) /\ cmd[c].pc = "restore" /\ cmd[c].at = {} /\ f \in cmd[c].todo
         /\ cmd'[c].bad = cmd[c].bad
         /\ \/ cmd'[c].at = {} /\ cmd'[c].todo = cmd[c].todo \ {f}
            \/ /\ cmd'[c].at = {f} /\ cmd'[c].todo = cmd[c].todo
               /\ cmd[c].policy = "skip" => dest[<<f, 0>>] = 0 /\ cmd'[c].target = 0
               /\ cmd[c].policy = "rename" => dest[<<f, cmd'[c].target>>] = 0
<1> DEFINE target == IF cmd[c].policy = "rename" /\ Taken(f) THEN 1 ELSE 0
           s == [cmd[c] EXCEPT !.todo = @ \ {f}]
           w == [cmd[c] EXCEPT !.at = {f}, !.target = target, !.late = {}]
<1>1. cmd[c] \in CommandStates
  BY DEF Typed
<1>2. s \in CommandStates /\ w \in CommandStates
  BY <1>1 DEF CommandStates
<1>3. /\ cmd[c].pc = "restore" /\ cmd[c].at = {} /\ f \in cmd[c].todo
      /\ \/ Set(c, s)
         \/ /\ Set(c, w) /\ ~(Taken(f) /\ cmd[c].policy = "skip")
            /\ ~(target = 1 /\ dest[<<f, 1>>] # 0)
  BY DEF Examine
<1>4. CASE Set(c, s)
  <2>1. Sets(c) /\ cmd'[c] = s
    BY <1>2, <1>4, SetOne
  <2> QED BY <1>1, <1>3, <2>1 DEF CommandStates, SameTask
<1>5. CASE /\ Set(c, w) /\ ~(Taken(f) /\ cmd[c].policy = "skip")
           /\ ~(target = 1 /\ dest[<<f, 1>>] # 0)
  <2>1. Sets(c) /\ cmd'[c] = w
    BY <1>2, <1>5, SetOne
  <2> QED BY <1>1, <1>3, <1>5, <2>1 DEF CommandStates, SameTask, Taken
<1> QED BY <1>3, <1>4, <1>5

LEMMA CopyOutShape ==
  ASSUME Typed, NEW c \in Commands, NEW f \in Files, CopyOut(c, f)
  PROVE  /\ SameTask(c) /\ cmd[c].pc = "restore" /\ f \in cmd[c].at
         /\ cmd'[c].at = cmd[c].at /\ cmd'[c].todo = cmd[c].todo /\ cmd'[c].bad = cmd[c].bad
         /\ cmd'[c].target = cmd[c].target /\ cmd'[c].late = cmd[c].late
         /\ cmd'[c].staged = vault[f]
<1> DEFINE r == [cmd[c] EXCEPT !.staged = vault[f]]
<1>1. cmd[c] \in CommandStates /\ vault[f] \in Contents
  BY DEF Typed
<1>2. r \in CommandStates
  BY <1>1 DEF CommandStates
<1>3. Sets(c) /\ cmd'[c] = r
  BY <1>2, SetOne DEF CopyOut
<1> QED BY <1>1, <1>3 DEF CommandStates, SameTask, CopyOut

LEMMA VerifyShape ==
  ASSUME Typed, NEW c \in Commands, NEW f \in Files, Verify(c, f)
  PROVE  /\ SameTask(c) /\ cmd[c].pc = "restore" /\ f \in cmd[c].at
         /\ cmd'[c].at = {} /\ cmd'[c].todo = cmd[c].todo \ {f}
         /\ \/ /\ cmd'[c].bad = cmd[c].bad
               /\ dest[<<f, cmd[c].target>>] = cmd[c].plan[f]
            \/ cmd'[c].bad = Unreported(c)
<1> DEFINE r(bad) == [cmd[c] EXCEPT !.at = {}, !.todo = @ \ {f}, !.staged = 0, !.bad = bad]
<1>1. cmd[c] \in CommandStates /\ 0 \in Contents /\ cmd[c].pc = "restore"
  BY LimitsAreNatural DEF Typed, Contents, Verify
<1>2. Unreported(c) \in SUBSET Written
  BY <1>1 DEF CommandStates, Unreported, Unverified, Written, Targets
<1>3. PICK bad \in SUBSET Written :
        /\ Set(c, r(bad))
        /\ \/ bad = cmd[c].bad /\ dest[<<f, cmd[c].target>>] = cmd[c].plan[f]
           \/ bad = Unreported(c)
  BY <1>1, <1>2 DEF Verify, CommandStates, Unreported
<1>4. r(bad) \in CommandStates
  BY <1>1, <1>3 DEF CommandStates
<1>5. Sets(c) /\ cmd'[c] = r(bad)
  BY <1>3, <1>4, SetOne
<1> QED BY <1>1, <1>3, <1>5 DEF CommandStates, SameTask, Verify

------------------------------------------------------------------------------
(* Types, and the order of each command. *)

LEMMA OthersInOrder ==
  ASSUME Typed, NEW c \in Commands, OthersStay(c), lock' = lock \/ lock \in {c, Unlocked}
  PROVE  \A d \in Commands \ {c} : InOrder(d)'
BY UnlockedIsNoCommand DEF Typed, OthersStay, InOrder, Planned

LEMMA FreeInOrder ==
  ASSUME Typed, NEW c \in Commands, Set(c, Free), lock' = lock \/ lock \in {c, Unlocked}
  PROVE  Sets(c) /\ \A d \in Commands : InOrder(d)'
<1>1. InOrder(c)'
  BY SetFree DEF InOrder, Planned
<1> QED BY <1>1, SetFree, OthersInOrder DEF Sets

LEMMA TaskInOrder ==
  ASSUME Typed, NEW c \in Commands, SameTask(c), lock' = lock, cmd[c].pc \in {"copy", "restore"},
         cmd'[c].todo \subseteq cmd[c].todo,
         cmd'[c].at = {} \/ \E f \in cmd'[c].todo : cmd'[c].at = {f},
         cmd[c].pc = "copy" => cmd'[c].bad = cmd[c].bad
  PROVE  InOrder(c)' /\ Sets(c)
<1>1. InOrder(c) /\ cmd'[c].todo \in SUBSET Files /\ Sets(c)
  BY DEF Typed, SameTask, CommandStates
<1>2. Planned(c)' = Planned(c)
  BY DEF Planned, SameTask
<1> QED BY <1>1, <1>2 DEF InOrder, SameTask

LEMMA ReplicateTyped ==
  ASSUME Typed, NEW c \in Commands, Replicate(c) PROVE Typed'
<1> USE DEF source, mirror, folder
<1>1. CASE StartReplica(c)
  <2>1. InOrder(c)' /\ Sets(c)
    BY <1>1, StartReplicaShape DEF InOrder, Planned
  <2>2. spent' \in [starts : 0..MaxStarts, changes : 0..MaxChanges, crashes : 0..MaxCrashes]
    BY <1>1, LimitsAreNatural DEF StartReplica, Typed
  <2>3. lost' \in BOOLEAN
    BY <1>1 DEF StartReplica
  <2> QED BY <1>1, <2>1, <2>2, <2>3, OthersInOrder DEF StartReplica, Typed, Sets
<1>2. CASE WalkEnds(c)
  <2>1. InOrder(c)' /\ Sets(c)
    BY <1>2, WalkEndsShape DEF Typed, InOrder, Planned
  <2> QED BY <1>2, <2>1, OthersInOrder DEF WalkEnds, Typed, Sets
<1>3. CASE Lock(c)
  <2>1. InOrder(c)' /\ Sets(c) /\ lock = Unlocked /\ lock' = c
    BY <1>3, LockShape DEF Typed, InOrder, Planned, Lock
  <2> QED BY <1>3, <2>1, OthersInOrder DEF Lock, Typed, Sets
<1>4. CASE Refused(c)
  BY <1>4, FreeInOrder DEF Refused, Typed, Sets
<1>5. CASE Record(c)
  <2>1. lock = c /\ lock' = Unlocked /\ Set(c, Free)
    BY <1>5 DEF Record, Typed, InOrder
  <2>2. Sets(c) /\ \A d \in Commands : InOrder(d)'
    BY <2>1, FreeInOrder
  <2>3. PICK failed \in BOOLEAN :
          /\ snapshot' = IF failed THEN snapshot ELSE hash
          /\ manifest' = [status |-> IF failed THEN "incomplete" ELSE Status(c),
                          files |-> Planned(c) \cup cmd[c].keep]
    BY <1>5 DEF Record
  <2>4. Planned(c) \cup cmd[c].keep \in SUBSET Files
    BY DEF Typed, CommandStates, Planned
  <2>5. manifest' \in [status : {"none", "completed", "stale", "incomplete"},
                       files : SUBSET Files]
    BY <2>3, <2>4 DEF Status
  <2>6. snapshot' \in [Files -> Contents]
    BY <2>3 DEF Typed
  <2> QED BY <1>5, <2>1, <2>2, <2>5, <2>6 DEF Record, Typed, Sets
<1>6. ASSUME NEW f \in Files, Walk(c, f) PROVE Typed'
  <2>1. InOrder(c)' /\ Sets(c)
    BY <1>6, WalkShape DEF Typed, InOrder, Planned
  <2> QED BY <1>6, <2>1, OthersInOrder DEF Walk, Typed, Sets
<1>7. ASSUME NEW f \in Files, Stage(c, f) PROVE Typed'
  <2>1. InOrder(c)' /\ Sets(c)
    BY <1>7, StageShape, TaskInOrder DEF Stage
  <2> QED BY <1>7, <2>1, OthersInOrder DEF Stage, Typed, Sets
<1>8. ASSUME NEW f \in Files, Promote(c, f) PROVE Typed'
  <2>1. InOrder(c)' /\ Sets(c)
    BY <1>8, PromoteShape, TaskInOrder DEF Promote
  <2>2. replica' \in [Files -> Contents]
    BY <1>8, PromoteShape DEF Typed, CommandStates
  <2> QED BY <1>8, <2>1, <2>2, OthersInOrder DEF Promote, Typed, Sets
<1>9. ASSUME NEW f \in Files, ItemFails(c, f) PROVE Typed'
  <2>1. InOrder(c)' /\ Sets(c)
    BY <1>9, FailShape, TaskInOrder DEF ItemFails
  <2> QED BY <1>9, <2>1, OthersInOrder DEF ItemFails, Typed, Sets
<1> QED BY <1>1, <1>2, <1>3, <1>4, <1>5, <1>6, <1>7, <1>8, <1>9 DEF Replicate

LEMMA RestoreTyped ==
  ASSUME Typed, NEW c \in Commands, Restore(c) PROVE Typed'
<1> USE DEF source, mirror, folder
<1>1. ASSUME NEW policy \in Policies, StartRestore(c, policy) PROVE Typed'
  <2>1. InOrder(c)' /\ Sets(c)
    BY <1>1, StartRestoreShape DEF InOrder, Planned
  <2>2. spent' \in [starts : 0..MaxStarts, changes : 0..MaxChanges, crashes : 0..MaxCrashes]
    BY <1>1, LimitsAreNatural DEF StartRestore, Typed
  <2> QED BY <1>1, <2>1, <2>2, OthersInOrder DEF StartRestore, Typed, Sets
<1>2. ASSUME NEW f \in Files, Examine(c, f) PROVE Typed'
  <2>1. UNCHANGED <<source, lock, mirror, folder, spent>>
    BY <1>2 DEF Examine
  <2>2. InOrder(c)' /\ Sets(c)
    BY <1>2, <2>1, ExamineShape, TaskInOrder
  <2> QED BY <2>1, <2>2, OthersInOrder DEF Typed, Sets
<1>3. ASSUME NEW f \in Files, CopyOut(c, f) PROVE Typed'
  <2>1. InOrder(c)' /\ Sets(c)
    <3>1. /\ SameTask(c) /\ lock' = lock /\ cmd[c].pc = "restore" /\ cmd'[c].todo = cmd[c].todo
          /\ cmd'[c].at = cmd[c].at
      BY <1>3, CopyOutShape DEF CopyOut
    <3>2. cmd[c].at = {} \/ \E g \in cmd[c].todo : cmd[c].at = {g}
      BY DEF Typed, InOrder
    <3> QED BY <3>1, <3>2, TaskInOrder
  <2>2. <<f, cmd[c].target>> \in Targets /\ vault[f] \in Contents
    BY DEF Typed, CommandStates, Targets
  <2>3. dest' \in [Targets -> Contents \cup {Own}] /\ UNCHANGED doubt
    BY <1>3, <2>2 DEF CopyOut, Typed
  <2> QED BY <1>3, <2>1, <2>3, OthersInOrder DEF CopyOut, Typed, Sets
<1>4. ASSUME NEW f \in Files, CopyOutFails(c, f) PROVE Typed'
  <2>1. InOrder(c)' /\ Sets(c)
    BY <1>4, FailShape, TaskInOrder DEF CopyOutFails
  <2> QED BY <1>4, <2>1, OthersInOrder DEF CopyOutFails, Typed, Sets
<1>5. CASE RestoreEnds(c)
  <2>1. doubt' \subseteq Written
    BY <1>5 DEF RestoreEnds, Typed, CommandStates
  <2> QED BY <1>5, <2>1, FreeInOrder DEF RestoreEnds, Typed, Sets
<1>6. ASSUME NEW f \in Files, Verify(c, f) PROVE Typed'
  <2>1. UNCHANGED <<source, lock, mirror, folder, spent>>
    BY <1>6 DEF Verify
  <2>2. InOrder(c)' /\ Sets(c)
    BY <1>6, <2>1, VerifyShape, TaskInOrder
  <2> QED BY <2>1, <2>2, OthersInOrder DEF Typed, Sets
<1> QED BY <1>1, <1>2, <1>3, <1>4, <1>5, <1>6 DEF Restore

LEMMA CutTyped ==
  ASSUME Typed, NEW c \in Commands, Cut(c) PROVE Typed'
<1> USE DEF source, mirror, folder
<1>1. Sets(c) /\ \A d \in Commands : InOrder(d)'
  BY FreeInOrder DEF Cut
<1>2. spent' \in [starts : 0..MaxStarts, changes : 0..MaxChanges, crashes : 0..MaxCrashes]
  BY LimitsAreNatural DEF Cut, Typed
<1>3. lost' \in BOOLEAN /\ doubt' \subseteq Written
  BY DEF Cut, Typed, CommandStates, Unreported, Unverified, Written, Targets
<1> QED BY <1>1, <1>2, <1>3 DEF Cut, Typed, Sets

(* The world changes nothing a command remembers but what came late. *)
LateOnly(c) ==
  /\ cmd'[c].kind = cmd[c].kind /\ cmd'[c].pc = cmd[c].pc /\ cmd'[c].policy = cmd[c].policy
  /\ cmd'[c].todo = cmd[c].todo /\ cmd'[c].plan = cmd[c].plan /\ cmd'[c].keep = cmd[c].keep
  /\ cmd'[c].stale = cmd[c].stale /\ cmd'[c].at = cmd[c].at /\ cmd'[c].target = cmd[c].target
  /\ cmd'[c].errors = cmd[c].errors /\ cmd'[c].blind = cmd[c].blind
  /\ cmd'[c].staged = cmd[c].staged /\ cmd'[c].bad = cmd[c].bad
LateShape == \A c \in Commands : LateOnly(c)

LEMMA ComesShape ==
  ASSUME Typed, NEW f \in Files, Comes(f)
  PROVE  /\ cmd' \in [Commands -> CommandStates] /\ LateShape
         /\ \A c \in Commands :
              cmd'[c].late = IF cmd[c].kind = "replica" THEN cmd[c].late \cup {f} ELSE cmd[c].late
<1>1. ASSUME NEW c \in Commands
      PROVE  [cmd[c] EXCEPT !.late = @ \cup {f}] \in CommandStates
  <2>1. cmd[c] \in CommandStates
    BY DEF Typed
  <2> QED BY <2>1 DEF CommandStates
<1>2. /\ cmd' \in [Commands -> CommandStates]
      /\ \A c \in Commands : cmd'[c] = IF cmd[c].kind = "replica"
                                       THEN [cmd[c] EXCEPT !.late = @ \cup {f}] ELSE cmd[c]
  BY <1>1 DEF Comes, Typed
<1>3. \A c \in Commands : cmd[c] \in CommandStates
  BY DEF Typed
<1>4. ASSUME NEW c \in Commands
      PROVE  /\ LateOnly(c)
             /\ cmd'[c].late = IF cmd[c].kind = "replica" THEN cmd[c].late \cup {f}
                              ELSE cmd[c].late
  <2>1. CASE cmd[c].kind = "replica"
    <3>1. cmd'[c] = [cmd[c] EXCEPT !.late = @ \cup {f}]
      BY <1>2, <2>1
    <3> QED BY <1>3, <2>1, <3>1 DEF LateOnly, CommandStates
  <2>2. CASE cmd[c].kind # "replica"
    <3>1. cmd'[c] = cmd[c]
      BY <1>2, <2>2
    <3> QED BY <2>2, <3>1 DEF LateOnly
  <2> QED BY <2>1, <2>2
<1> QED BY <1>2, <1>4 DEF LateShape

LEMMA PutOwnShape ==
  ASSUME Typed, NEW f \in Files, PutOwn(f)
  PROVE  /\ cmd' \in [Commands -> CommandStates] /\ LateShape
         /\ \A c \in Commands :
              cmd'[c].late = IF cmd[c].kind = "restore" /\ f \in cmd[c].at THEN {f}
                             ELSE cmd[c].late
<1>1. ASSUME NEW c \in Commands PROVE [cmd[c] EXCEPT !.late = {f}] \in CommandStates
  <2>1. cmd[c] \in CommandStates
    BY DEF Typed
  <2> QED BY <2>1 DEF CommandStates
<1>2. /\ cmd' \in [Commands -> CommandStates]
      /\ \A c \in Commands : cmd'[c] = IF cmd[c].kind = "restore" /\ f \in cmd[c].at
                                       THEN [cmd[c] EXCEPT !.late = {f}] ELSE cmd[c]
  BY <1>1 DEF PutOwn, Typed
<1>3. \A c \in Commands : cmd[c] \in CommandStates
  BY DEF Typed
<1>4. ASSUME NEW c \in Commands
      PROVE  /\ LateOnly(c)
             /\ cmd'[c].late = IF cmd[c].kind = "restore" /\ f \in cmd[c].at THEN {f}
                              ELSE cmd[c].late
  <2>1. CASE cmd[c].kind = "restore" /\ f \in cmd[c].at
    <3>1. cmd'[c] = [cmd[c] EXCEPT !.late = {f}]
      BY <1>2, <2>1
    <3> QED BY <1>3, <2>1, <3>1 DEF LateOnly, CommandStates
  <2>2. CASE ~(cmd[c].kind = "restore" /\ f \in cmd[c].at)
    <3>1. cmd'[c] = cmd[c]
      BY <1>2, <2>2
    <3> QED BY <2>2, <3>1 DEF LateOnly
  <2> QED BY <2>1, <2>2
<1> QED BY <1>2, <1>4 DEF LateShape

LEMMA LateInOrder ==
  ASSUME Typed, LateShape, lock' = lock PROVE \A c \in Commands : InOrder(c)'
BY DEF Typed, LateShape, LateOnly, InOrder, Planned

LEMMA ChangeTyped ==
  ASSUME Typed, Change
  PROVE  spent' \in [starts : 0..MaxStarts, changes : 0..MaxChanges, crashes : 0..MaxCrashes]
BY LimitsAreNatural DEF Change, Typed

LEMMA WorldTyped ==
  ASSUME Typed, World PROVE Typed'
<1> USE DEF source, mirror, folder
<1>0. 0 \in Contents /\ (newest < MaxVersion => newest + 1 \in Contents)
  BY LimitsAreNatural DEF Typed, Contents
<1>1. ASSUME NEW f \in Files, Import(f) PROVE Typed'
  <2>1. /\ vault' \in [Files -> Contents] /\ hash' \in [Files -> Contents]
        /\ newest' \in Contents /\ indexed' \subseteq Files \X Contents
    BY <1>0, <1>1 DEF Import, Typed
  <2>2. cmd' \in [Commands -> CommandStates] /\ \A c \in Commands : InOrder(c)'
    BY <1>1, ComesShape, LateInOrder DEF Import
  <2> QED BY <1>1, <2>1, <2>2, ChangeTyped DEF Import, Typed
<1>2. ASSUME NEW f \in Files, DropRow(f) PROVE Typed'
  <2>1. hash' \in [Files -> Contents]
    BY <1>0, <1>2 DEF DropRow, Typed
  <2>2. \A c \in Commands : InOrder(c)'
    BY <1>2 DEF DropRow, Typed, InOrder, Planned
  <2> QED BY <1>2, <2>1, <2>2 DEF DropRow, Typed
<1>3. ASSUME NEW f \in Files, Vanish(f) \/ Edit(f) PROVE Typed'
  <2>1. vault' \in [Files -> Contents] /\ newest' \in Contents
    BY <1>0, <1>3 DEF Vanish, Edit, Typed
  <2>2. \A c \in Commands : InOrder(c)'
    BY <1>3 DEF Vanish, Edit, Typed, InOrder, Planned
  <2> QED BY <1>3, <2>1, <2>2, ChangeTyped DEF Vanish, Edit, Typed
<1>4. ASSUME NEW f \in Files, PutOwn(f) PROVE Typed'
  <2>1. cmd' \in [Commands -> CommandStates] /\ \A c \in Commands : InOrder(c)'
    BY <1>4, PutOwnShape, LateInOrder DEF PutOwn
  <2>2. dest' \in [Targets -> Contents \cup {Own}]
    BY <1>4 DEF PutOwn, Typed
  <2> QED BY <1>4, <2>1, <2>2, ChangeTyped DEF PutOwn, Typed
<1>5. ASSUME NEW f \in Files, NEW g \in Files, MoveFile(f, g) PROVE Typed'
  <2>1. vault' \in [Files -> Contents] /\ moving' \subseteq Files \X Files
    BY <1>0, <1>5 DEF MoveFile, Typed
  <2>2. cmd' \in [Commands -> CommandStates] /\ \A c \in Commands : InOrder(c)'
    BY <1>5, ComesShape, LateInOrder DEF MoveFile
  <2> QED BY <1>5, <2>1, <2>2, ChangeTyped DEF MoveFile, Typed
<1>6. ASSUME NEW f \in Files, NEW g \in Files, MoveRow(f, g) PROVE Typed'
  <2>1. /\ hash' \in [Files -> Contents] /\ moving' \subseteq Files \X Files
        /\ indexed' \subseteq Files \X Contents
    BY <1>0, <1>6 DEF MoveRow, Typed
  <2>2. \A c \in Commands : InOrder(c)'
    BY <1>6 DEF MoveRow, Typed, InOrder, Planned
  <2> QED BY <1>6, <2>1, <2>2 DEF MoveRow, Typed
<1>7. CASE MoveFails
  <2>1. \A c \in Commands : InOrder(c)'
    BY <1>7 DEF MoveFails, Typed, InOrder, Planned
  <2> QED BY <1>7, <2>1 DEF MoveFails, Typed
<1> QED BY <1>1, <1>2, <1>3, <1>4, <1>5, <1>6, <1>7 DEF World

LEMMA StepTyped == Typed /\ [CopiesNext]_copiesVars => Typed'
<1> SUFFICES ASSUME Typed, [CopiesNext]_copiesVars PROVE Typed'
  OBVIOUS
<1>1. CASE UNCHANGED copiesVars
  BY <1>1 DEF copiesVars, source, mirror, folder, Typed, InOrder, Planned
<1> QED BY <1>1, ReplicateTyped, RestoreTyped, CutTyped, WorldTyped DEF CopiesNext

------------------------------------------------------------------------------
(* The replica. *)

Holds == NothingUnlisted /\ Accounted /\ \A c \in Commands : Copied(c) /\ Found(c)

(* A command that does not get into or out of a copy changes nothing of it. *)
LEMMA ReplicaUndisturbed ==
  ASSUME Typed, Typed', Holds, NEW c \in Commands, OthersStay(c), cmd[c].pc # "copy",
         cmd'[c].pc \in {"idle", "restore"}, UNCHANGED <<vault, hash, replica, manifest, lost>>
  PROVE  Holds'
<1>1. \A d \in Commands : Copied(d)' /\ Found(d)'
  BY DEF Holds, OthersStay, Copied, Found, Planned
<1>2. NothingUnlisted'
  BY DEF Holds, OthersStay, NothingUnlisted
<1>3. cmd'[c].kind # "replica"
  BY DEF Typed, InOrder
<1>4. Accounted'
  BY <1>3 DEF Holds, OthersStay, Accounted, Planned
<1> QED BY <1>1, <1>2, <1>4 DEF Holds

LEMMA StartReplicaHolds ==
  ASSUME Typed, Typed', Holds, NEW c \in Commands, StartReplica(c) PROVE Holds'
<1>0. /\ OthersStay(c) /\ cmd[c].pc = "idle" /\ cmd[c].kind = "none"
      /\ cmd'[c].kind = "replica" /\ cmd'[c].pc = "walk" /\ cmd'[c].todo = Files
      /\ UNCHANGED <<vault, hash, replica, manifest>>
      /\ lost' = (lost \/ \E o \in Commands : cmd[o].kind = "replica")
  BY StartReplicaShape DEF StartReplica, Sets, source, Typed, InOrder
<1>1. \A d \in Commands : Copied(d)' /\ Found(d)'
  BY <1>0 DEF Holds, OthersStay, Copied, Found, Planned
<1>2. NothingUnlisted'
  BY <1>0 DEF Holds, OthersStay, NothingUnlisted
<1>3. Accounted'
  <2> SUFFICES ASSUME ~lost' PROVE Accounted'
    BY DEF Accounted
  <2>1. ~lost /\ \A o \in Commands : cmd[o].kind # "replica"
    BY <1>0
  <2>2. \A d \in Commands \ {c} : cmd'[d].kind # "replica" /\ cmd'[d].pc \notin {"wait", "copy"}
    BY <1>0, <2>1 DEF OthersStay, Typed, InOrder
  <2> QED BY <1>0, <2>2 DEF Accounted
<1> QED BY <1>1, <1>2, <1>3 DEF Holds

LEMMA WalkHolds ==
  ASSUME Typed, Typed', Holds, NEW c \in Commands, NEW f \in Files, Walk(c, f) PROVE Holds'
<1>0. /\ OthersStay(c) /\ cmd[c].pc = "walk" /\ cmd'[c].pc = "walk"
      /\ cmd'[c].kind = cmd[c].kind /\ cmd'[c].todo = cmd[c].todo \ {f}
      /\ cmd'[c].plan = [cmd[c].plan EXCEPT ![f] = vault[f]] /\ cmd'[c].late = cmd[c].late
      /\ cmd[c].plan \in [Files -> Contents]
      /\ UNCHANGED <<vault, hash, replica, manifest, lost>>
  <2>1. cmd[c] \in CommandStates
    BY DEF Typed
  <2>2. cmd[c].plan \in [Files -> Contents]
    BY <2>1 DEF CommandStates
  <2> QED BY <2>2, WalkShape DEF Walk, Sets, source, mirror
<1>1. \A d \in Commands : Copied(d)'
  BY <1>0 DEF Holds, OthersStay, Copied, Planned
<1>2. \A d \in Commands : Found(d)'
  BY <1>0 DEF Holds, OthersStay, Found
<1>3. NothingUnlisted' /\ Accounted'
  BY <1>0 DEF Holds, OthersStay, NothingUnlisted, Accounted, Planned
<1> QED BY <1>1, <1>2, <1>3 DEF Holds

LEMMA WalkEndsHolds ==
  ASSUME Typed, Typed', Holds, NEW c \in Commands, WalkEnds(c) PROVE Holds'
<1>0. /\ OthersStay(c) /\ cmd[c].pc = "walk" /\ cmd'[c].pc = "wait"
      /\ cmd'[c].kind = cmd[c].kind /\ cmd[c].todo = {} /\ cmd'[c].plan = cmd[c].plan
      /\ ~cmd'[c].blind => cmd'[c].keep = manifest.files \ Planned(c)
      /\ cmd'[c].late = cmd[c].late
      /\ UNCHANGED <<vault, hash, replica, manifest, lost>>
  BY WalkEndsShape DEF WalkEnds, Sets, source, mirror
<1>1. \A d \in Commands : Copied(d)' /\ Found(d)'
  BY <1>0 DEF Holds, OthersStay, Copied, Found, Planned
<1>2. NothingUnlisted' /\ Accounted'
  BY <1>0 DEF Holds, OthersStay, NothingUnlisted, Accounted, Planned
<1> QED BY <1>1, <1>2 DEF Holds

(* With the lock the run finds in the replica only what the manifest listed when
   it was planned: there is no other run to have changed it. *)
LEMMA LockHolds ==
  ASSUME Typed, Typed', Holds, NEW c \in Commands, Lock(c) PROVE Holds'
<1>0. /\ OthersStay(c) /\ cmd[c].pc = "wait" /\ cmd'[c].pc = "copy"
      /\ cmd'[c].kind = cmd[c].kind /\ cmd[c].todo = Planned(c) /\ cmd'[c].todo = cmd[c].todo
      /\ cmd'[c].plan = cmd[c].plan
      /\ cmd'[c].keep = cmd[c].keep /\ cmd'[c].late = cmd[c].late
      /\ cmd'[c].blind = cmd[c].blind
      /\ \A d \in Commands : cmd[d].pc # "copy"
      /\ UNCHANGED <<vault, hash, replica, manifest, lost>>
  BY LockShape, UnlockedIsNoCommand DEF Lock, Sets, source, mirror, Typed, InOrder
<1>1. \A d \in Commands : Copied(d)' /\ Found(d)'
  BY <1>0 DEF Holds, OthersStay, Copied, Found, Planned
<1>2. NothingUnlisted' /\ Accounted'
  BY <1>0 DEF Holds, OthersStay, NothingUnlisted, Accounted, Planned
<1> QED BY <1>1, <1>2 DEF Holds

LEMMA ItemHolds ==
  ASSUME Typed, Typed', Holds, NEW c \in Commands, NEW f \in Files,
         Stage(c, f) \/ ItemFails(c, f)
  PROVE  Holds'
<1>0. /\ SameTask(c) /\ cmd[c].pc = "copy" /\ cmd'[c].late = cmd[c].late
      /\ (cmd'[c].errors = cmd[c].errors /\ cmd'[c].todo = cmd[c].todo) \/ cmd'[c].errors
      /\ UNCHANGED <<vault, hash, replica, manifest, lost>>
  BY StageShape, FailShape DEF Stage, ItemFails, source, mirror
<1>1. \A d \in Commands : Copied(d)' /\ Found(d)'
  BY <1>0 DEF Holds, SameTask, Sets, OthersStay, Copied, Found, Planned
<1>2. NothingUnlisted' /\ Accounted'
  BY <1>0 DEF Holds, SameTask, Sets, OthersStay, NothingUnlisted, Accounted, Planned
<1> QED BY <1>1, <1>2 DEF Holds

LEMMA PromoteHolds ==
  ASSUME Typed, Typed', Holds, NEW c \in Commands, NEW f \in Files, Promote(c, f) PROVE Holds'
<1>0. cmd[c].pc = "copy" /\ f \in Planned(c) /\ \A d \in Commands \ {c} : cmd[d].pc # "copy"
  BY UnlockedIsNoCommand DEF Promote, Typed, InOrder
<1>1. /\ SameTask(c) /\ cmd[c].pc = "copy" /\ f \in Planned(c)
      /\ cmd'[c].todo = cmd[c].todo \ {f} /\ cmd'[c].late = cmd[c].late
      /\ \/ replica' = [replica EXCEPT ![f] = cmd[c].plan[f]] /\ cmd'[c].errors = cmd[c].errors
         \/ replica' = replica /\ cmd'[c].errors
      /\ replica \in [Files -> Contents]
      /\ \A d \in Commands \ {c} : cmd[d].pc # "copy"
      /\ UNCHANGED <<vault, hash, manifest, lost>>
  BY <1>0, PromoteShape DEF Promote, source, Typed
<1>2. \A d \in Commands : Found(d)'
  BY <1>1 DEF Holds, SameTask, Sets, OthersStay, Found
<1>3. \A d \in Commands : Copied(d)'
  BY <1>1 DEF Holds, SameTask, Sets, OthersStay, Copied, Planned
<1>4. NothingUnlisted'
  BY <1>1 DEF SameTask, NothingUnlisted
<1>5. Accounted'
  BY <1>1 DEF Holds, SameTask, Sets, OthersStay, Accounted, Planned
<1> QED BY <1>2, <1>3, <1>4, <1>5 DEF Holds

LEMMA RecordHolds ==
  ASSUME Typed, Typed', Holds, NEW c \in Commands, Record(c) PROVE Holds'
<1>0. /\ OthersStay(c) /\ cmd[c].pc = "copy" /\ cmd'[c].pc = "idle"
      /\ cmd[c].kind = "replica" /\ cmd'[c].kind = "none"
      /\ manifest'.files = Planned(c) \cup cmd[c].keep
      /\ \A d \in Commands \ {c} : cmd[d].pc # "copy"
      /\ \A d \in Commands : cmd[d].pc = "wait" => cmd[d].kind = "replica"
      /\ lost' = (lost \/ cmd[c].blind) /\ UNCHANGED <<vault, hash, replica>>
  BY SetFree, UnlockedIsNoCommand DEF Record, Sets, source, Typed, InOrder
<1>1. \A d \in Commands : Copied(d)' /\ Found(d)'
  BY <1>0 DEF Holds, OthersStay, Copied, Found, Planned
<1>2. NothingUnlisted'
  BY <1>0 DEF Holds, Accounted, NothingUnlisted
<1>3. Accounted'
  <2>1. ~lost => \A d \in Commands \ {c} : cmd[d].kind # "replica" /\ cmd[d].pc # "wait"
    BY <1>0 DEF Holds, Accounted
  <2> QED BY <1>0, <2>1 DEF Holds, OthersStay, Accounted
<1> QED BY <1>1, <1>2, <1>3 DEF Holds

LEMMA CutHolds ==
  ASSUME Typed, Typed', Holds, NEW c \in Commands, Cut(c) PROVE Holds'
<1>0. /\ OthersStay(c) /\ cmd'[c].pc = "idle" /\ lost' = (lost \/ cmd[c].pc = "copy")
      /\ UNCHANGED <<vault, hash, replica, manifest>>
  BY SetFree DEF Cut, Sets, source
<1>1. CASE cmd[c].pc = "copy"
  <2>1. lost'
    BY <1>0, <1>1
  <2>2. \A d \in Commands : Copied(d)' /\ Found(d)'
    BY <1>0 DEF Holds, OthersStay, Copied, Found, Planned
  <2> QED BY <2>1, <2>2 DEF Holds, NothingUnlisted, Accounted
<1>2. CASE cmd[c].pc # "copy"
  <2>1. lost' = lost
    BY <1>0, <1>2 DEF Typed
  <2> QED BY <1>0, <1>2, <2>1, ReplicaUndisturbed
<1> QED BY <1>1, <1>2

(* A change of the vault under which no name comes that is not late. *)
LEMMA VaultHolds ==
  ASSUME Typed, Typed', Holds, LateShape, UNCHANGED <<replica, manifest, lost>>,
         \A c \in Commands : /\ cmd[c].late \subseteq cmd'[c].late \/ cmd[c].kind # "replica"
                            /\ \A f \in Files : \/ vault'[f] = 0 \/ vault[f] # 0
                                                \/ cmd[c].kind = "replica" => f \in cmd'[c].late
  PROVE  Holds'
<1>1. \A c \in Commands : cmd[c].pc \in {"walk", "wait", "copy"} => cmd[c].kind = "replica"
  BY DEF Typed, InOrder
<1>2. \A c \in Commands : Copied(c)'
  BY DEF Holds, LateShape, LateOnly, Copied, Planned
<1>3. \A c \in Commands : Found(c)'
  BY <1>1 DEF Holds, LateShape, LateOnly, Found
<1>4. NothingUnlisted' /\ Accounted'
  BY DEF Holds, LateShape, LateOnly, NothingUnlisted, Accounted, Planned
<1> QED BY <1>2, <1>3, <1>4 DEF Holds

LEMMA WorldHolds ==
  ASSUME Typed, Typed', Holds, World PROVE Holds'
<1> DEFINE Quiet ==
      /\ LateShape /\ UNCHANGED <<replica, manifest, lost>>
      /\ \A c \in Commands : /\ cmd[c].late \subseteq cmd'[c].late \/ cmd[c].kind # "replica"
                            /\ \A f \in Files : \/ vault'[f] = 0 \/ vault[f] # 0
                                                \/ cmd[c].kind = "replica" => f \in cmd'[c].late
<1>1. ASSUME NEW f \in Files, Import(f) PROVE Quiet
  <2>1. \A g \in Files \ {f} : vault'[g] = vault[g]
    BY <1>1 DEF Import, Typed
  <2>2. Comes(f) /\ UNCHANGED <<replica, manifest, lost>>
    BY <1>1 DEF Import, mirror
  <2> QED BY <2>1, <2>2, ComesShape
<1>2. ASSUME NEW f \in Files, NEW g \in Files, MoveFile(f, g) PROVE Quiet
  <2>1. \A h \in Files \ {g} : vault'[h] = vault[h] \/ vault'[h] = 0
    BY <1>2 DEF MoveFile, Typed
  <2>2. Comes(g) /\ UNCHANGED <<replica, manifest, lost>>
    BY <1>2 DEF MoveFile, mirror
  <2> QED BY <2>1, <2>2, ComesShape
<1>3. ASSUME NEW f \in Files, PutOwn(f) PROVE Quiet
  <2>1. \A c \in Commands : cmd[c].kind = "replica" => cmd'[c].late = cmd[c].late
    BY <1>3, PutOwnShape
  <2>2. LateShape /\ UNCHANGED <<vault, replica, manifest, lost>>
    BY <1>3, PutOwnShape DEF PutOwn, source, mirror
  <2> QED BY <2>1, <2>2
<1>4. ASSUME NEW f \in Files, Vanish(f) \/ Edit(f) \/ DropRow(f) PROVE Quiet
  <2>1. \A g \in Files : vault'[g] # 0 => vault[g] # 0
    BY <1>4 DEF Vanish, Edit, DropRow, Typed
  <2>2. UNCHANGED <<cmd, replica, manifest, lost>>
    BY <1>4 DEF Vanish, Edit, DropRow, mirror
  <2> QED BY <2>1, <2>2 DEF LateShape, LateOnly
<1>5. ASSUME NEW f \in Files, NEW g \in Files, MoveRow(f, g) PROVE Quiet
  BY <1>5 DEF MoveRow, mirror, LateShape, LateOnly
<1>6. MoveFails => Quiet
  BY DEF MoveFails, mirror, LateShape, LateOnly
<1>7. Quiet
  BY <1>1, <1>2, <1>3, <1>4, <1>5, <1>6 DEF World
<1> QED BY <1>7, VaultHolds

LEMMA StepHolds == Typed /\ Holds /\ [CopiesNext]_copiesVars => Holds'
<1> SUFFICES ASSUME Typed, Holds, [CopiesNext]_copiesVars PROVE Holds'
  OBVIOUS
<1>0. Typed'
  BY StepTyped
<1>1. ASSUME NEW c \in Commands, Replicate(c) PROVE Holds'
  <2>1. CASE Refused(c)
    BY <1>0, <2>1, SetFree, ReplicaUndisturbed DEF Refused, Sets, source, mirror
  <2> QED BY <1>0, <1>1, <2>1, StartReplicaHolds, WalkHolds, WalkEndsHolds, LockHolds,
     ItemHolds,
       PromoteHolds, RecordHolds DEF Replicate
<1>2. ASSUME NEW c \in Commands, Restore(c) PROVE Holds'
  <2> DEFINE Quiet == /\ OthersStay(c) /\ cmd[c].pc # "copy"
                      /\ cmd'[c].pc \in {"idle", "restore"}
                      /\ UNCHANGED <<vault, hash, replica, manifest, lost>>
  <2>1. Quiet
    <3>1. ASSUME NEW policy \in Policies, StartRestore(c, policy) PROVE Quiet
      BY <3>1, StartRestoreShape DEF StartRestore, Sets, source, mirror
    <3>2. ASSUME NEW f \in Files, Examine(c, f) PROVE Quiet
      BY <3>2, ExamineShape DEF Examine, SameTask, Sets, source, mirror
    <3>3. ASSUME NEW f \in Files, CopyOut(c, f) PROVE Quiet
      BY <3>3, CopyOutShape DEF CopyOut, SameTask, Sets, source, mirror
    <3>4. ASSUME NEW f \in Files, CopyOutFails(c, f) PROVE Quiet
      BY <3>4, FailShape DEF CopyOutFails, SameTask, Sets, source, mirror
    <3>5. CASE RestoreEnds(c)
      BY <3>5, SetFree DEF RestoreEnds, Sets, source, mirror
    <3>6. ASSUME NEW f \in Files, Verify(c, f) PROVE Quiet
      BY <3>6, VerifyShape DEF Verify, SameTask, Sets, source, mirror
    <3> QED BY <1>2, <3>1, <3>2, <3>3, <3>4, <3>5, <3>6 DEF Restore
  <2> QED BY <1>0, <2>1, ReplicaUndisturbed
<1>3. CASE UNCHANGED copiesVars
  BY <1>3 DEF copiesVars, source, mirror, Holds, Copied, Found, NothingUnlisted, Accounted, Planned
<1> QED BY <1>0, <1>1, <1>2, <1>3, CutHolds, WorldHolds DEF CopiesNext

------------------------------------------------------------------------------
(* The restore. *)

Restores == PlansAreIndexed /\ RestoredIsIndexed /\ Spared

LEMMA OnlyRestoresReport ==
  ASSUME Typed, NEW c \in Commands, cmd[c].pc # "restore" PROVE Unreported(c) = {}
BY DEF Typed, InOrder, Unreported, Unverified

(* Nothing is written to the folder, and what was unreported is or still has to
   be reported. *)
LEMMA FolderKept ==
  ASSUME RestoredIsIndexed, UNCHANGED dest, indexed \subseteq indexed', doubt \subseteq doubt',
         \A c \in Commands : Unreported(c) \subseteq doubt' \cup Unreported(c)'
  PROVE  RestoredIsIndexed'
BY DEF RestoredIsIndexed

LEMMA OthersUnreported ==
  ASSUME NEW c \in Commands, OthersStay(c)
  PROVE  \A d \in Commands \ {c} : Unreported(d)' = Unreported(d)
BY DEF OthersStay, Unreported, Unverified

(* A command that does not restore changes nothing of it, and one that ends has
   reported or leaves it in doubt. *)
LEMMA RestoreUndisturbed ==
  ASSUME Restores, NEW c \in Commands, OthersStay(c), cmd'[c].pc # "restore",
         UNCHANGED <<hash, indexed, dest>>, doubt' = doubt \cup Unreported(c)
  PROVE  Restores'
<1>1. RestoredIsIndexed'
  BY OthersUnreported, FolderKept DEF Restores
<1> QED BY <1>1 DEF Restores, OthersStay, PlansAreIndexed, Spared

LEMMA ReplicateRestores ==
  ASSUME Typed, Restores, NEW c \in Commands, Replicate(c) \/ Cut(c) PROVE Restores'
<1> USE DEF source, folder, Sets
<1>0. cmd[c].pc # "restore" => Unreported(c) = {}
  BY OnlyRestoresReport
<1>1. CASE StartReplica(c)
  BY <1>0, <1>1, StartReplicaShape, RestoreUndisturbed DEF StartReplica
<1>2. CASE WalkEnds(c) \/ Lock(c)
  <2>1. /\ OthersStay(c) /\ cmd[c].pc # "restore" /\ cmd'[c].pc # "restore"
        /\ UNCHANGED <<hash, indexed, dest, doubt>>
    BY <1>2, WalkEndsShape, LockShape DEF WalkEnds, Lock
  <2> QED BY <1>0, <2>1, RestoreUndisturbed
<1>3. CASE Refused(c) \/ Record(c)
  <2>1. Set(c, Free) /\ cmd[c].pc # "restore" /\ UNCHANGED <<hash, indexed, dest, doubt>>
    BY <1>3 DEF Refused, Record
  <2> QED BY <1>0, <2>1, SetFree, RestoreUndisturbed
<1>4. ASSUME NEW f \in Files, Walk(c, f) PROVE Restores'
  BY <1>0, <1>4, WalkShape, RestoreUndisturbed DEF Walk
<1>5. ASSUME NEW f \in Files, Stage(c, f) \/ Promote(c, f) PROVE Restores'
  <2>1. SameTask(c) /\ cmd[c].pc = "copy" /\ UNCHANGED <<hash, indexed, dest, doubt>>
    BY <1>5, StageShape, PromoteShape DEF Stage, Promote
  <2> QED BY <1>0, <2>1, RestoreUndisturbed DEF SameTask
<1>6. ASSUME NEW f \in Files, ItemFails(c, f) PROVE Restores'
  BY <1>0, <1>6, FailShape, RestoreUndisturbed DEF ItemFails, SameTask
<1>7. CASE Cut(c)
  BY <1>7, SetFree, RestoreUndisturbed DEF Cut
<1> QED BY <1>1, <1>2, <1>3, <1>4, <1>5, <1>6, <1>7 DEF Replicate

(* A step of a restore that writes nothing to the folder. *)
LEMMA RestoringKeeps ==
  ASSUME Restores, NEW c \in Commands, SameTask(c), cmd'[c].at = {},
         UNCHANGED <<hash, indexed, dest, doubt>>, Unreported(c) \subseteq Unreported(c)'
  PROVE  Restores'
<1>1. RestoredIsIndexed'
  BY OthersUnreported, FolderKept DEF Restores, SameTask, Sets
<1> QED BY <1>1 DEF Restores, SameTask, Sets, OthersStay, PlansAreIndexed, Spared

LEMMA CopyOutRestores ==
  ASSUME Typed, Restores, NEW c \in Commands, NEW f \in Files, CopyOut(c, f) PROVE Restores'
<1> USE DEF source, folder, Sets
<1> DEFINE t == <<f, cmd[c].target>>
<1>1. /\ SameTask(c) /\ cmd[c].kind = "restore" /\ cmd[c].staged = 0 /\ f \in cmd[c].at
      /\ cmd'[c].at = cmd[c].at /\ cmd'[c].bad = cmd[c].bad /\ cmd'[c].late = cmd[c].late
      /\ cmd'[c].target = cmd[c].target /\ cmd'[c].staged = vault[f]
      /\ UNCHANGED <<hash, indexed, doubt>>
  BY CopyOutShape DEF CopyOut, Typed, InOrder
<1>2. /\ t \in Targets /\ vault[f] \in Contents /\ vault[f] # Own /\ vault[f] # 0
      /\ dest' = [dest EXCEPT ![t] = vault[f]] /\ dest \in [Targets -> Contents \cup {Own}]
  BY LimitsAreNatural DEF CopyOut, Present, Typed, CommandStates, Targets, Contents, Own
<1>3. PlansAreIndexed'
  BY <1>1 DEF Restores, SameTask, OthersStay, PlansAreIndexed
<1>4. \A d \in Commands : Unreported(d) \subseteq Unreported(d)'
  <2>1. Unreported(c) \subseteq Unreported(c)'
    BY <1>1 DEF Unreported, Unverified
  <2> QED BY <1>1, <2>1, OthersUnreported DEF SameTask
<1>5. <<t, vault[f]>> \in Unreported(c)'
  BY <1>1, <1>2 DEF Unreported, Unverified, SameTask
<1>6. RestoredIsIndexed'
  <2> SUFFICES ASSUME NEW u \in Targets, ~(dest'[u] <= 0)
               PROVE  \/ <<u[1], dest'[u]>> \in indexed \/ <<u, dest'[u]>> \in doubt
                      \/ \E d \in Commands : <<u, dest'[u]>> \in Unreported(d)'
    BY <1>1 DEF RestoredIsIndexed
  <2>1. CASE u = t
    BY <1>2, <1>5, <2>1
  <2>2. CASE u # t
    <3>1. dest'[u] = dest[u]
      BY <1>2, <2>2
    <3> QED BY <1>4, <3>1 DEF Restores, RestoredIsIndexed
  <2> QED BY <2>1, <2>2
<1>7. Spared'
  <2>1. \A u \in Targets : dest[u] # Own => dest'[u] # Own
    BY <1>2
  <2>2. \A g \in Files, k \in {0, 1} : <<g, k>> \in Targets
    BY DEF Targets
  <2>3. \A d \in Commands : cmd[d].target \in {0, 1} /\ cmd[d].at \subseteq Files
    BY DEF Typed, CommandStates
  <2>4. \A d \in Commands : /\ cmd'[d].pc = cmd[d].pc /\ cmd'[d].policy = cmd[d].policy
                           /\ cmd'[d].at = cmd[d].at /\ cmd'[d].late = cmd[d].late
                           /\ cmd'[d].target = cmd[d].target
    BY <1>1 DEF SameTask, OthersStay
  <2>5. \A g \in Files : dest'[<<g, 1>>] # Own
    BY <2>1, <2>2 DEF Restores, Spared
  <2>6. ASSUME NEW d \in Commands, cmd[d].pc = "restore", cmd[d].policy # "overwrite",
               NEW g \in cmd[d].at \ cmd[d].late
        PROVE  dest'[<<g, cmd[d].target>>] # Own
    BY <2>1, <2>2, <2>3, <2>6 DEF Restores, Spared
  <2> QED BY <2>4, <2>5, <2>6 DEF Spared
<1> QED BY <1>3, <1>6, <1>7 DEF Restores

(* A copy that verifies holds what the plan says, which the index has had. *)
LEMMA VerifyRestores ==
  ASSUME Typed, Restores, NEW c \in Commands, NEW f \in Files, Verify(c, f) PROVE Restores'
<1> DEFINE t == <<f, cmd[c].target>>
<1>1. /\ SameTask(c) /\ cmd[c].pc = "restore" /\ cmd[c].at = {f} /\ cmd'[c].at = {}
      /\ \/ cmd'[c].bad = cmd[c].bad /\ dest[t] = cmd[c].plan[f]
         \/ cmd'[c].bad = Unreported(c)
      /\ UNCHANGED <<hash, indexed, dest, doubt>>
  <2>1. cmd[c].at = {} \/ \E g \in Files : cmd[c].at = {g}
    BY DEF Typed, InOrder
  <2> QED BY <2>1, VerifyShape DEF Verify, source, folder
<1>2. CASE cmd'[c].bad = Unreported(c)
  <2>1. Unreported(c) \subseteq Unreported(c)'
    BY <1>2 DEF Unreported
  <2> QED BY <1>1, <2>1, RestoringKeeps
<1>3. CASE cmd'[c].bad = cmd[c].bad /\ dest[t] = cmd[c].plan[f]
  <2>1. RestoredIsIndexed'
    <3> SUFFICES ASSUME NEW u \in Targets, ~(dest[u] <= 0)
                 PROVE  \/ <<u[1], dest[u]>> \in indexed \/ <<u, dest[u]>> \in doubt
                        \/ \E d \in Commands : <<u, dest[u]>> \in Unreported(d)'
      BY <1>1 DEF RestoredIsIndexed
    <3>1. CASE u = t
      <4>1. cmd[c].plan[f] # 0
        BY <1>3, <3>1
      <4>2. <<f, cmd[c].plan[f]>> \in indexed
        BY <1>1, <4>1 DEF Restores, PlansAreIndexed
      <4> QED BY <1>3, <3>1, <4>2
    <3>2. CASE u # t
      <4>1. ASSUME NEW d \in Commands, <<u, dest[u]>> \in Unreported(d)
            PROVE  <<u, dest[u]>> \in Unreported(d)'
        <5>1. CASE d # c
          BY <1>1, <4>1, <5>1, OthersUnreported DEF SameTask, Sets
        <5>2. CASE d = c
          <6>1. <<u, dest[u]>> \notin Unverified(c)
            BY <1>1, <3>2 DEF Unverified
          <6> QED BY <1>3, <4>1, <5>2, <6>1 DEF Unreported
        <5> QED BY <5>1, <5>2
      <4> QED BY <4>1 DEF Restores, RestoredIsIndexed
    <3> QED BY <3>1, <3>2
  <2> QED BY <1>1, <2>1 DEF Restores, SameTask, Sets, OthersStay, PlansAreIndexed, Spared
<1> QED BY <1>1, <1>2, <1>3

LEMMA RestoreRestores ==
  ASSUME Typed, Restores, NEW c \in Commands, Restore(c) PROVE Restores'
<1> USE DEF source, folder, Sets
<1>1. ASSUME NEW policy \in Policies, StartRestore(c, policy) PROVE Restores'
  <2>1. /\ OthersStay(c) /\ cmd'[c].plan = hash /\ cmd'[c].at = {}
        /\ Unreported(c) = {} /\ UNCHANGED <<hash, indexed, dest, doubt>>
    BY <1>1, StartRestoreShape, OnlyRestoresReport DEF StartRestore
  <2>2. RestoredIsIndexed'
    BY <2>1, OthersUnreported, FolderKept DEF Restores
  <2> QED BY <2>1, <2>2 DEF Restores, OthersStay, PlansAreIndexed, Spared
<1>2. ASSUME NEW f \in Files, Examine(c, f) PROVE Restores'
  <2>0. cmd[c].policy \in {"skip", "rename", "overwrite"} /\ Own # 0
    BY DEF Typed, CommandStates, Policies, Own
  <2>1. /\ SameTask(c) /\ UNCHANGED <<hash, indexed, dest, doubt>>
        /\ cmd[c].at = {} /\ cmd'[c].bad = cmd[c].bad
        /\ \/ cmd'[c].at = {}
           \/ /\ cmd'[c].at = {f}
              /\ cmd[c].policy # "overwrite" => dest[<<f, cmd'[c].target>>] # Own
    BY <1>2, <2>0, ExamineShape DEF Examine
  <2>2. Unreported(c) \subseteq Unreported(c)'
    BY <2>1 DEF Unreported, Unverified
  <2>3. RestoredIsIndexed'
    BY <2>1, <2>2, OthersUnreported, FolderKept DEF Restores, SameTask
  <2> QED BY <2>1, <2>3 DEF Restores, SameTask, OthersStay, PlansAreIndexed, Spared
<1>3. ASSUME NEW f \in Files, CopyOutFails(c, f) PROVE Restores'
  <2>1. /\ SameTask(c) /\ cmd'[c].at = {} /\ cmd'[c].bad = cmd[c].bad
        /\ cmd[c].staged = 0 /\ UNCHANGED <<hash, indexed, dest, doubt>>
    BY <1>3, FailShape DEF CopyOutFails
  <2>2. Unreported(c) \subseteq Unreported(c)'
    BY <2>1 DEF Unreported, Unverified
  <2> QED BY <2>1, <2>2, RestoringKeeps
<1>4. CASE RestoreEnds(c)
  <2>1. cmd[c].at = {}
    BY <1>4 DEF RestoreEnds, Typed, InOrder
  <2>2. Unreported(c) = cmd[c].bad
    BY <2>1 DEF Unreported, Unverified
  <2> QED BY <1>4, <2>2, SetFree, RestoreUndisturbed DEF RestoreEnds
<1> QED BY <1>1, <1>2, <1>3, <1>4, CopyOutRestores, VerifyRestores DEF Restore

LEMMA WorldRestores ==
  ASSUME Typed, Restores, World PROVE Restores'
<1> USE DEF folder
<1>0. LateShape => \A c \in Commands : Unreported(c)' = Unreported(c)
  BY DEF LateShape, LateOnly, Unreported, Unverified
<1>1. ASSUME NEW f \in Files, Comes(f)
      PROVE  LateShape /\ \A c \in Commands : cmd[c].pc = "restore" => cmd'[c].late = cmd[c].late
  BY <1>1, ComesShape DEF Typed, InOrder
<1>2. ASSUME NEW f \in Files, Import(f) PROVE Restores'
  <2>1. /\ LateShape /\ UNCHANGED <<dest, doubt>>
        /\ \A c \in Commands : cmd[c].pc = "restore" => cmd'[c].late = cmd[c].late
        /\ indexed' = indexed \cup {<<f, newest + 1>>}
        /\ hash' = [hash EXCEPT ![f] = newest + 1] /\ hash \in [Files -> Contents]
    BY <1>1, <1>2 DEF Import, Typed
  <2>2. PlansAreIndexed'
    BY <2>1 DEF Restores, LateShape, LateOnly, PlansAreIndexed
  <2>3. RestoredIsIndexed'
    BY <1>0, <2>1, FolderKept DEF Restores
  <2>4. Spared'
    BY <2>1 DEF Restores, LateShape, LateOnly, Spared
  <2> QED BY <2>2, <2>3, <2>4 DEF Restores
<1>3. ASSUME NEW f \in Files, NEW g \in Files, MoveFile(f, g) PROVE Restores'
  <2>1. /\ LateShape /\ UNCHANGED <<dest, doubt, hash, indexed>>
        /\ \A c \in Commands : cmd[c].pc = "restore" => cmd'[c].late = cmd[c].late
    BY <1>1, <1>3 DEF MoveFile
  <2>2. RestoredIsIndexed'
    BY <1>0, <2>1, FolderKept DEF Restores
  <2> QED BY <2>1, <2>2 DEF Restores, LateShape, LateOnly, PlansAreIndexed, Spared
<1>4. ASSUME NEW f \in Files, NEW g \in Files, MoveRow(f, g) PROVE Restores'
  <2>1. /\ UNCHANGED <<cmd, dest, doubt>> /\ indexed' = indexed \cup {<<g, hash[f]>>}
        /\ hash' = [hash EXCEPT ![f] = 0, ![g] = hash[f]] /\ hash \in [Files -> Contents]
    BY <1>4 DEF MoveRow, Typed
  <2>2. PlansAreIndexed'
    BY <2>1 DEF Restores, PlansAreIndexed
  <2>3. RestoredIsIndexed'
    BY <2>1, FolderKept DEF Restores, Unreported, Unverified
  <2>4. Spared'
    BY <2>1 DEF Restores, Spared
  <2> QED BY <2>2, <2>3, <2>4 DEF Restores
<1>5. CASE MoveFails \/ \E f \in Files : Vanish(f) \/ Edit(f) \/ DropRow(f)
  <2>1. /\ UNCHANGED <<cmd, dest, doubt, indexed>>
        /\ \A g \in Files : hash'[g] # 0 => hash'[g] = hash[g]
    BY <1>5 DEF Vanish, Edit, DropRow, MoveFails, Typed
  <2>2. RestoredIsIndexed'
    BY <2>1, FolderKept DEF Restores, Unreported, Unverified
  <2> QED BY <2>1, <2>2 DEF Restores, PlansAreIndexed, Spared
<1>6. ASSUME NEW f \in Files, PutOwn(f) PROVE Restores'
  <2>1. /\ LateShape /\ UNCHANGED <<hash, indexed, doubt>>
        /\ dest' = [dest EXCEPT ![<<f, 0>>] = Own] /\ dest \in [Targets -> Contents \cup {Own}]
        /\ \A c \in Commands : cmd[c].kind = "restore" <=> cmd[c].pc = "restore"
        /\ \A c \in Commands :
             cmd'[c].late = IF cmd[c].kind = "restore" /\ f \in cmd[c].at THEN {f}
                            ELSE cmd[c].late
        /\ \A c \in Commands : cmd[c].at = {} \/ \E g \in Files : cmd[c].at = {g}
    BY <1>6, PutOwnShape DEF PutOwn, source, Typed, InOrder
  <2>2. PlansAreIndexed'
    BY <2>1 DEF Restores, LateShape, LateOnly, PlansAreIndexed
  <2>3. RestoredIsIndexed'
    <3> SUFFICES ASSUME NEW u \in Targets, ~(dest'[u] <= 0)
                 PROVE  \/ <<u[1], dest'[u]>> \in indexed \/ <<u, dest'[u]>> \in doubt
                        \/ \E c \in Commands : <<u, dest'[u]>> \in Unreported(c)'
      BY <2>1 DEF RestoredIsIndexed
    <3>1. dest'[u] = dest[u]
      BY <2>1 DEF Own
    <3> QED BY <1>0, <2>1, <3>1 DEF Restores, RestoredIsIndexed
  <2>4. Spared'
    <3>1. \A u \in Targets : u # <<f, 0>> => dest'[u] = dest[u]
      BY <2>1
    <3>2. ASSUME NEW c \in Commands, cmd'[c].pc = "restore", cmd'[c].policy # "overwrite",
                 NEW g \in cmd'[c].at \ cmd'[c].late
          PROVE  dest'[<<g, cmd'[c].target>>] # Own
      <4>1. g # f /\ g \in cmd[c].at \ cmd[c].late /\ g \in Files /\ cmd[c].target \in {0, 1}
        <5>1. cmd[c].at \subseteq Files /\ cmd[c].target \in {0, 1}
          BY DEF Typed, CommandStates
        <5>2. /\ cmd'[c].at = cmd[c].at /\ cmd[c].pc = "restore"
              /\ cmd'[c].late = IF cmd[c].kind = "restore" /\ f \in cmd[c].at THEN {f}
                               ELSE cmd[c].late
          BY <2>1, <3>2 DEF LateShape, LateOnly
        <5>3. cmd[c].kind = "restore" /\ (cmd[c].at = {} \/ \E h \in Files : cmd[c].at = {h})
          BY <2>1, <5>2
        <5> QED BY <3>2, <5>1, <5>2, <5>3
      <4>2. dest[<<g, cmd[c].target>>] # Own
        BY <2>1, <3>2, <4>1 DEF Restores, Spared, LateShape, LateOnly
      <4> QED BY <2>1, <3>1, <4>1, <4>2 DEF LateShape, LateOnly, Targets
    <3>3. ASSUME NEW g \in Files PROVE dest'[<<g, 1>>] # Own
      <4>1. <<g, 1>> \in Targets /\ <<g, 1>> # <<f, 0>>
        BY DEF Targets
      <4> QED BY <3>1, <4>1 DEF Restores, Spared
    <3> QED BY <3>2, <3>3 DEF Spared
  <2> QED BY <2>2, <2>3, <2>4 DEF Restores
<1> QED BY <1>2, <1>3, <1>4, <1>5, <1>6 DEF World

LEMMA StepRestores == Typed /\ Restores /\ [CopiesNext]_copiesVars => Restores'
<1> SUFFICES ASSUME Typed, Restores, [CopiesNext]_copiesVars PROVE Restores'
  OBVIOUS
<1>1. CASE UNCHANGED copiesVars
  BY <1>1 DEF copiesVars, source, folder, Restores, PlansAreIndexed, RestoredIsIndexed, Spared,
     Unreported, Unverified
<1> QED BY <1>1, ReplicateRestores, RestoreRestores, WorldRestores DEF CopiesNext

------------------------------------------------------------------------------
(* The inductive invariant. *)

LEMMA InitCopies == CopiesInit => CopiesInv /\ RestoreInv
<1> SUFFICES ASSUME CopiesInit PROVE CopiesInv /\ RestoreInv
  OBVIOUS
<1>1. \A c \in Commands : cmd[c] = Free
  BY DEF CopiesInit
<1>2. \A c \in Commands : InOrder(c) /\ Copied(c) /\ Found(c)
  BY <1>1, FreeTyped DEF InOrder, Copied, Found, Planned
<1>3. Typed
  <2>1. 0 \in Contents /\ 0 \in 0..MaxStarts /\ 0 \in 0..MaxChanges /\ 0 \in 0..MaxCrashes
    BY LimitsAreNatural DEF Contents
  <2> QED BY <1>2, <2>1, FreeTyped DEF CopiesInit, Typed
<1>4. NothingUnlisted /\ Accounted
  BY <1>1, FreeTyped DEF CopiesInit, NothingUnlisted, Accounted
<1>5. PlansAreIndexed /\ RestoredIsIndexed /\ Spared
  BY <1>1, FreeTyped DEF CopiesInit, PlansAreIndexed, RestoredIsIndexed, Spared, Own,
     Targets
<1> QED BY <1>2, <1>3, <1>4, <1>5 DEF CopiesInv, RestoreInv

LEMMA CopiesInvariance == CopiesSpec => [](CopiesInv /\ RestoreInv)
<1>1. CopiesInv /\ RestoreInv /\ [CopiesNext]_copiesVars => (CopiesInv /\ RestoreInv)'
  BY StepTyped, StepHolds, StepRestores DEF CopiesInv, RestoreInv, Holds, Restores
<1> QED BY <1>1, InitCopies, PTL DEF CopiesSpec

LEMMA OneAtATime ==
  ASSUME Typed, NEW c \in Commands, Replicate(c) \/ Restore(c) PROVE OthersStay(c)
<1> USE DEF Sets, SameTask
<1>1. CASE StartReplica(c) \/ WalkEnds(c) \/ Lock(c)
  BY <1>1, StartReplicaShape, WalkEndsShape, LockShape
<1>2. CASE Refused(c) \/ Record(c) \/ RestoreEnds(c)
  BY <1>2, SetFree DEF Refused, Record, RestoreEnds
<1>3. ASSUME NEW f \in Files, Walk(c, f) \/ Stage(c, f) \/ Promote(c, f) PROVE OthersStay(c)
  BY <1>3, WalkShape, StageShape, PromoteShape
<1>4. ASSUME NEW f \in Files,
             \/ ItemFails(c, f) \/ Examine(c, f)
             \/ CopyOut(c, f) \/ CopyOutFails(c, f) \/ Verify(c, f)
      PROVE  OthersStay(c)
  BY <1>4, FailShape, ExamineShape, CopyOutShape, VerifyShape
<1>5. ASSUME NEW policy \in Policies, StartRestore(c, policy) PROVE OthersStay(c)
  BY <1>5, StartRestoreShape
<1> QED BY <1>1, <1>2, <1>3, <1>4, <1>5 DEF Replicate, Restore

(* The only step that ends a copy and is not a crash writes the manifest. *)
LEMMA RecordedIsRecord ==
  ASSUME Typed, CopiesNext, NEW c \in Commands, Recorded(c) PROVE Record(c)
<1>0. cmd[c].pc = "copy" /\ cmd'[c].pc = "idle" /\ spent' = spent
  BY DEF Recorded
<1>1. CASE World
  BY <1>0, <1>1, ComesShape, PutOwnShape
     DEF World, LateShape, LateOnly, Import, MoveFile, DropRow, Vanish, Edit, MoveRow, MoveFails
<1>2. ASSUME NEW d \in Commands, Replicate(d) \/ Restore(d) PROVE d = c
  BY <1>0, <1>2, OneAtATime DEF OthersStay
<1>3. CASE Replicate(c)
  <2>1. ~StartReplica(c) /\ ~WalkEnds(c) /\ ~Lock(c) /\ ~Refused(c)
    BY <1>0 DEF StartReplica, WalkEnds, Lock, Refused
  <2>2. ASSUME NEW f \in Files
        PROVE  ~Walk(c, f) /\ ~Stage(c, f) /\ ~Promote(c, f) /\ ~ItemFails(c, f)
    BY <1>0, WalkShape, StageShape, PromoteShape, FailShape DEF SameTask
  <2> QED BY <1>3, <2>1, <2>2 DEF Replicate
<1>4. ~Restore(c)
  BY <1>0 DEF Restore, StartRestore, Examine, CopyOut, CopyOutFails, Verify, RestoreEnds
<1>5. ASSUME NEW d \in Commands, Cut(d) PROVE FALSE
  <2>1. spent.crashes \in Int /\ spent'.crashes = spent.crashes + 1
    BY <1>5, LimitsAreNatural DEF Cut, Typed
  <2> QED BY <1>0, <2>1
<1> QED BY <1>1, <1>2, <1>3, <1>4, <1>5 DEF CopiesNext

------------------------------------------------------------------------------
(* Theorems. *)

LEMMA TypedIsTypeOK == Typed => CopiesTypeOK
<1> SUFFICES ASSUME Typed PROVE CopiesTypeOK
  OBVIOUS
<1>1. ASSUME NEW c \in Commands
      PROVE  /\ cmd[c].kind \in {"none", "replica", "restore"}
             /\ cmd[c].pc \in {"idle", "walk", "wait", "copy", "restore"}
             /\ cmd[c].at \subseteq Files /\ Cardinality(cmd[c].at) <= 1
             /\ cmd[c].plan \in [Files -> Contents]
             /\ cmd[c].todo \cap cmd[c].keep = {}
             /\ cmd[c].bad \subseteq Written
  <2>1. cmd[c] \in CommandStates /\ InOrder(c)
    BY DEF Typed
  <2>2. Cardinality(cmd[c].at) <= 1
    <3>1. CASE cmd[c].at = {}
      BY <3>1, FS_EmptySet
    <3>2. ASSUME NEW f \in Files, cmd[c].at = {f} PROVE Cardinality(cmd[c].at) <= 1
      BY <3>2, FS_Singleton
    <3> QED BY <2>1, <3>1, <3>2 DEF InOrder
  <2>3. cmd[c].todo \cap cmd[c].keep = {}
    BY <2>1 DEF InOrder
  <2> QED BY <2>1, <2>2, <2>3 DEF CommandStates
<1> QED BY <1>1 DEF Typed, CopiesTypeOK

(* The replica holds no file that its manifest does not list, except while a run
   copies and after a run was cut off at that, two of them overlapped or one
   could not read the manifest: a later plan can tell from the manifest what is
   no longer in the vault (plan_replica). *)
THEOREM ReplicaListed == CopiesSpec => []ReplicaIsListed
<1>1. CopiesInv => ReplicaIsListed
  BY TypedIsTypeOK DEF CopiesInv, ReplicaIsListed
<1> QED BY <1>1, CopiesInvariance, PTL

(* What a run says of the replica as it ends is so, whatever was edited, deleted
   or cleaned from the index since its plan: what it planned is there as planned;
   what the copied index lists of the vault is there, but for names an import or
   a rename has brought since; and "completed" is said of a replica without
   anything the vault had no longer, unless a manifest was lost or not read
   (plan_replica, execute_replica). *)
THEOREM ReplicaTrue == CopiesSpec => ReplicaIsTrue
<1> DEFINE Planning == \A c \in Commands :
             Served(c) => \A f \in Planned(c) : replica'[f] = cmd[c].plan[f]
           Listing == \A c \in Commands : Served(c)
             => \A f \in Files : (snapshot'[f] # 0 /\ vault[f] # 0 /\ f \notin cmd[c].late)
                                    => replica'[f] # 0
           Whole == \A c \in Commands :
             (Recorded(c) /\ manifest'.status = "completed" /\ ~lost')
               => \A f \in Files : replica'[f] # 0 => f \in Planned(c)
<1>1. CopiesInv /\ [CopiesNext]_copiesVars => [Planning /\ Listing /\ Whole]_copiesVars
  <2> SUFFICES ASSUME CopiesInv, CopiesNext, NEW c \in Commands, Recorded(c)
               PROVE  /\ manifest'.status # "incomplete" =>
                           /\ \A f \in Planned(c) : replica'[f] = cmd[c].plan[f]
                           /\ \A f \in Files :
                                (snapshot'[f] # 0 /\ vault[f] # 0 /\ f \notin cmd[c].late)
                                   => replica'[f] # 0
                      /\ manifest'.status = "completed" /\ ~lost' =>
                           \A f \in Files : replica'[f] # 0 => f \in Planned(c)
    BY DEF Served
  <2>1. /\ cmd[c].pc = "copy" /\ cmd[c].todo = {} /\ UNCHANGED replica
        /\ InOrder(c) /\ Copied(c) /\ Found(c) /\ Record(c)
    BY RecordedIsRecord DEF CopiesInv, Typed, Record
  <2>2. manifest'.status # "incomplete" => ~cmd[c].errors /\ snapshot' = hash
    BY <2>1 DEF Record, Status
  <2>3. manifest'.status = "completed" => cmd[c].keep = {}
    <3>1. manifest'.status = "completed" => ~cmd[c].stale
      BY <2>1 DEF Record, Status
    <3>2. cmd[c].stale = (cmd[c].keep # {})
      BY <2>1 DEF InOrder
    <3> QED BY <3>1, <3>2
  <2>4. manifest'.status # "incomplete" =>
          \A f \in Planned(c) : replica'[f] = cmd[c].plan[f] /\ replica'[f] # 0
    BY <2>1, <2>2 DEF Copied, Planned
  <2>5. manifest'.status # "incomplete" =>
          \A f \in Files : (snapshot'[f] # 0 /\ vault[f] # 0 /\ f \notin cmd[c].late)
                              => f \in Planned(c)
    BY <2>1, <2>2 DEF Found, Planned
  <2>6. ~lost' => \A f \in Files : replica'[f] # 0 => f \in Planned(c) \cup cmd[c].keep
    <3>1. lost' = (lost \/ cmd[c].blind)
      BY <2>1 DEF Record
    <3> QED BY <2>1, <3>1 DEF CopiesInv, Accounted
  <2> QED BY <2>3, <2>4, <2>5, <2>6
<1>2. CopiesSpec => [][Planning]_copiesVars /\ [][Listing]_copiesVars /\ [][Whole]_copiesVars
  BY <1>1, CopiesInvariance, PTL DEF CopiesSpec
<1> QED BY <1>2 DEF ReplicaIsTrue, ServedAsPlanned, SnapshotIsServed, CompletedIsNotStale

(* What a restore leaves in the folder is a content the index had for that file,
   or the restore has reported an error for it, has yet to, or ended before it
   could; a file of the owner's there goes under overwrite only, or when it came
   while that very name was being written (execute_restore). *)
THEOREM RestoreSafe == CopiesSpec => RestoreIsSafe
<1> DEFINE Stay == \A f \in Files : \A k \in {0, 1} :
             (dest[<<f, k>>] = Own /\ dest'[<<f, k>>] # Own)
               => \E c \in Commands : /\ cmd[c].kind = "restore" /\ cmd[c].at = {f}
                                      /\ cmd[c].policy = "overwrite" \/ f \in cmd[c].late
<1>1. RestoreInv => RestoredIsIndexed
  BY DEF RestoreInv
<1>2. RestoreInv /\ [CopiesNext]_copiesVars => [Stay]_copiesVars
  <2> SUFFICES ASSUME RestoreInv, CopiesNext, NEW f \in Files, NEW k \in {0, 1},
                      dest[<<f, k>>] = Own, dest'[<<f, k>>] # Own
               PROVE  \E c \in Commands : /\ cmd[c].kind = "restore" /\ cmd[c].at = {f}
                                          /\ cmd[c].policy = "overwrite" \/ f \in cmd[c].late
    OBVIOUS
  <2>1. dest \in [Targets -> Contents \cup {Own}] /\ <<f, k>> \in Targets
    BY DEF RestoreInv, Typed, Targets
  <2>2. PICK c \in Commands, g \in Files : CopyOut(c, g)
    <3>0. UNCHANGED dest => FALSE
      OBVIOUS
    <3>1. ~World
      <4>1. ASSUME NEW g \in Files, PutOwn(g) PROVE FALSE
        BY <2>1, <4>1 DEF PutOwn
      <4> QED BY <3>0, <4>1 DEF World, Import, DropRow, Vanish, Edit, MoveFile, MoveRow, MoveFails,
           folder
    <3>2. ASSUME NEW c \in Commands, Replicate(c) \/ Cut(c) PROVE FALSE
      BY <3>0, <3>2 DEF Replicate, Cut, StartReplica, WalkEnds, Lock, Refused, Record, Walk,
         Stage, Promote, ItemFails, folder
    <3>3. ASSUME NEW c \in Commands, Restore(c) PROVE \E g \in Files : CopyOut(c, g)
      BY <3>0, <3>3 DEF Restore, StartRestore, Examine, CopyOutFails, Verify, RestoreEnds, folder
    <3> QED BY <3>1, <3>2, <3>3 DEF CopiesNext
  <2>3. g = f /\ cmd[c].target = k
    BY <2>1, <2>2 DEF CopyOut
  <2>4. cmd[c].pc = "restore" /\ f \in cmd[c].at
    BY <2>2, <2>3 DEF CopyOut
  <2>5. cmd[c].kind = "restore" /\ cmd[c].at = {f}
    BY <2>4 DEF RestoreInv, Typed, InOrder
  <2>6. cmd[c].policy = "overwrite" \/ f \in cmd[c].late
    BY <2>3, <2>4 DEF RestoreInv, Spared
  <2> QED BY <2>5, <2>6
<1>3. CopiesSpec => []RestoredIsIndexed /\ [][Stay]_copiesVars
  BY <1>1, <1>2, CopiesInvariance, PTL DEF CopiesSpec
<1> QED BY <1>3 DEF RestoreIsSafe, OwnFilesStay
==============================================================================
