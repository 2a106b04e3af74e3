----------------------------- MODULE MailArchive ----------------------------
(***************************************************************************)
(* The imports of the vault: the incremental backup through the Gmail API,  *)
(* the Takeout archive that is copied into the inbox and taken apart into   *)
(* mail and photos, the cleaning of the index before the daily backup, the  *)
(* renaming of mail files, and the viewer's routes that delete a file or    *)
(* clean the index.  Files are written one by one; the rows of the index    *)
(* are in the transaction of the connection and all come or none.           *)
(*                                                                         *)
(* Jobs that import hold the vault lock, so there is one at a time;         *)
(* rename-gmail-files and the viewer do not take it and may run beside any  *)
(* of them.  SQLite lets one of them write.                                 *)
(***************************************************************************)
EXTENDS Integers, Sequences, FiniteSets

CONSTANTS
  Mails, Photos, \* what there is to import
  Date,          \* the day of a mail
  Exported,      \* the items in the Takeout archive
  Overlap,       \* INCREMENTAL_OVERLAP_DAYS
  MaxNames,      \* names a file may get (bound of the model)
  MaxFailures,   \* jobs, renames and requests cut off (bound of the model)
  MaxCalls       \* renames and requests of the viewer (bound of the model)

Items == Mails \cup Photos
Nobody == "nobody"
Nothing == "nothing"

ASSUME DatesAreDays == Date \in [Mails -> Nat \ {0}]
ASSUME ArchiveOfItems == Exported \subseteq Items
ASSUME NothingIsNoMail == Nothing \notin Mails
ASSUME BoundsAreNatural ==
  Overlap \in Nat /\ MaxNames \in Nat /\ MaxFailures \in Nat /\ MaxCalls \in Nat

VARIABLES
  arrived,  \* mails in the account
  zip,      \* where the archive is: the download folder, the inbox
  file,     \* files of the vault: the item and which of its names
  row,      \* the committed index
  draft,    \* what the open transaction has made of it
  tx,       \* who has the open transaction
  mark,     \* gmail.last_seen_internal_date_ms, in days
  job,      \* the running job
  ren,      \* the running rename
  sweep,    \* the cleaning of the index by the job, and by the viewer
  erase,    \* files the viewer has unlinked, whose rows are still to go
  calls,    \* how many renames and requests there have been
  failures, \* what has been cut off so far
  partial,  \* history: mail was indexed before the first whole backup
  deleted,  \* history: items a file of which the viewer has deleted
  dropped   \* history: items whose row the viewer took out during the job

vars == <<arrived, zip, file, row, draft, tx, mark, job, ren, sweep, erase, calls, failures,
          partial, deleted, dropped>>
index == <<row, draft, tx>>
viewer == <<sweep, erase, deleted, dropped>>
outside == <<arrived, ren, calls, failures, viewer>>

(* A row: the name of its file (0 for no row), whether the Gmail id is      *)
(* known, and whose text is stored for it.                                  *)
Rows == [name : 0..MaxNames, gid : BOOLEAN, body : Mails \cup {Nothing}]
NoRow == [name |-> 0, gid |-> FALSE, body |-> Nothing]
Empty == [i \in Items |-> NoRow]
Idle == [phase |-> "idle", rest |-> <<>>, limit |-> FALSE, todo |-> {}, top |-> 0,
         last |-> Nothing, counted |-> {}]
Days == {0} \cup {Date[m] : m \in Mails}
Sweeps == [on : BOOLEAN, todo : SUBSET Items, names : [Items -> 0..MaxNames],
           missing : SUBSET Items]

TypeOK ==
  /\ arrived \subseteq Mails
  /\ zip \subseteq {"source", "inbox"}
  /\ file \subseteq Items \X (1..MaxNames)
  /\ row \in [Items -> Rows] /\ draft \in [Items -> Rows]
  /\ tx \in {Nobody, "job", "rename", "viewer"}
  /\ mark \in Days
  /\ job.phase \in {"idle", "clean", "list", "save", "sync", "move", "photos", "mail", "take"}
  /\ job.limit \in BOOLEAN /\ job.todo \subseteq Items /\ job.counted \subseteq Items
  /\ job.top \in Days /\ job.last \in Mails \cup {Nothing}
  /\ ren.todo \subseteq Mails /\ ren.names \in [Mails -> 0..MaxNames]
  /\ ren.moved \subseteq Mails \X (1..MaxNames) /\ ren.on \in BOOLEAN
  /\ sweep \in [{"job", "viewer"} -> Sweeps]
  /\ erase \subseteq Items \X (1..MaxNames)
  /\ calls \in 0..MaxCalls /\ failures \in 0..MaxFailures
  /\ partial \in BOOLEAN /\ deleted \subseteq Items /\ dropped \subseteq Items

NoRename == [on |-> FALSE, todo |-> {}, names |-> [m \in Mails |-> 0], moved |-> {}]
NoSweep == [on |-> FALSE, todo |-> {}, names |-> [i \in Items |-> 0], missing |-> {}]

Init ==
  /\ arrived = {} /\ zip = {} /\ file = {}
  /\ row = Empty /\ draft = Empty /\ tx = Nobody
  /\ mark = 0
  /\ job = Idle /\ ren = NoRename /\ calls = 0
  /\ sweep = [who \in {"job", "viewer"} |-> NoSweep] /\ erase = {}
  /\ failures = 0 /\ partial = FALSE /\ deleted = {} /\ dropped = {}

MinOf(S) == CHOOSE x \in S : \A y \in S : x <= y
MaxOf(S) == CHOOSE x \in S : \A y \in S : x >= y

(* unique_path: the first name that is not taken (one of the first MaxNames,*)
(* the bound of the model).                                                 *)
FreeNames(i) == {k \in 1..MaxNames : <<i, k>> \notin file}
FreeName(i) == MinOf(FreeNames(i))

(* What a connection sees, and its first write and its end: the end of one  *)
(* that has written nothing leaves the transaction of the other alone.      *)
View(who) == IF tx = who THEN draft ELSE row
Write(who, rows) == tx \in {Nobody, who} /\ tx' = who /\ draft' = rows
Commit(who) ==
  IF tx = who THEN row' = draft /\ draft' = Empty /\ tx' = Nobody ELSE UNCHANGED index
Rollback(who) ==
  /\ draft' = IF tx = who THEN Empty ELSE draft
  /\ tx' = IF tx = who THEN Nobody ELSE tx

HasFile(rows, i) == <<i, rows[i].name>> \in file

----------------------------------------------------------------------------
(* The world.                                                               *)

(* A mail may arrive a little late.                                         *)
Arrive(m) ==
  /\ m \notin arrived
  /\ \A a \in arrived : Date[a] <= Date[m] + Overlap
  /\ arrived' = arrived \cup {m}
  /\ UNCHANGED <<zip, file, index, mark, job, ren, calls, failures, viewer, partial>>

Download ==
  /\ zip = {} /\ Exported \cap Mails \subseteq arrived
  /\ zip' = {"source"}
  /\ UNCHANGED <<file, index, mark, job, outside, partial>>

----------------------------------------------------------------------------
(* Jobs.                                                                    *)

Plans == {<<"list">>, <<"photos", "mail">>, <<"move", "photos", "mail">>,
          <<"clean", "list", "sync", "photos", "mail">>}

Start(plan, limited) ==
  /\ job = Idle
  /\ job' = [Idle EXCEPT !.phase = Head(plan), !.rest = Tail(plan), !.limit = limited]
  /\ dropped' = {}
  /\ UNCHANGED <<arrived, zip, file, index, mark, ren, calls, failures, sweep, erase, deleted,
                 partial>>

(* The next part of the work, or a report that says ok.                     *)
Proceed(j) ==
  job' = IF j.rest = <<>> THEN Idle
         ELSE [j EXCEPT !.phase = Head(j.rest), !.rest = Tail(j.rest), !.todo = {},
                        !.top = 0, !.last = Nothing]

(* run_with_report catches the exception and says failed, or the process    *)
(* ends; either way the connection rolls back and the files stay.           *)
Fail ==
  /\ job.phase # "idle" /\ failures < MaxFailures
  /\ failures' = failures + 1
  /\ job' = Idle
  /\ sweep' = [sweep EXCEPT !["job"] = NoSweep]
  /\ Rollback("job")
  /\ UNCHANGED <<arrived, zip, file, row, mark, ren, calls, erase, deleted, dropped, partial>>

(* cleanup_missing_index_entries, in a transaction of its own: the rows are *)
(* read, then the file of each is looked for by the name that was read ...  *)
SweepRead(who) ==
  /\ ~sweep[who].on
  /\ sweep' = [sweep EXCEPT ![who] =
                 [NoSweep EXCEPT !.on = TRUE, !.todo = {i \in Items : row[i].name # 0},
                    !.names = [i \in Items |-> row[i].name]]]
  /\ UNCHANGED <<arrived, zip, file, index, mark, job, ren, failures, erase, deleted, dropped,
                 partial>>

SweepLook(who, i) ==
  /\ i \in sweep[who].todo /\ sweep[who].missing = {}
  /\ sweep' = [sweep EXCEPT ![who].todo = @ \ {i},
                  ![who].missing = {k \in {i} : <<k, sweep[who].names[k]>> \notin file}]
  /\ UNCHANGED <<arrived, zip, file, index, mark, job, ren, calls, failures, erase, deleted,
                 dropped, partial>>

(* ... and the row of one that is missing is deleted, by its id: whatever   *)
(* file it names by then, once the other writer is through.                 *)
SweepRow(who) ==
  /\ \E i \in sweep[who].missing : Write(who, [View(who) EXCEPT ![i] = NoRow])
  /\ sweep' = [sweep EXCEPT ![who].missing = {}]
  /\ UNCHANGED <<arrived, zip, file, row, mark, job, ren, calls, failures, erase, deleted,
                 dropped, partial>>

SweepEnds(who) ==
  /\ sweep[who].on /\ sweep[who].todo = {} /\ sweep[who].missing = {}
  /\ Commit(who)
  /\ sweep' = [sweep EXCEPT ![who] = NoSweep]
  /\ UNCHANGED <<arrived, zip, file, mark, ren, calls, failures, erase, deleted, partial>>

(* The daily backup cleans the index first.                                 *)
CleanRead == job.phase = "clean" /\ SweepRead("job") /\ UNCHANGED calls
CleanEnds == SweepEnds("job") /\ Proceed(job) /\ UNCHANGED dropped

(* _incremental_query: from the watermark, else from the newest mail of the *)
(* index, a day earlier.                                                    *)
IndexedDays == {Date[m] : m \in {n \in Mails : row[n].name # 0}}

(* Mutant of Cutoff: no overlap.                                            *)
CutoffAtMark ==
  IF mark # 0 THEN mark ELSE IF IndexedDays # {} THEN MaxOf(IndexedDays) ELSE 0

Cutoff ==
  IF mark # 0 THEN mark - Overlap
  ELSE IF IndexedDays # {} THEN MaxOf(IndexedDays) - Overlap ELSE 0

IsNewest(m, S) == m \in S /\ \A n \in S : Date[n] <= Date[m]
Listed == {m \in arrived : Date[m] >= Cutoff}

(* The answer lists the newest first; max_messages keeps the first of them. *)
List ==
  /\ job.phase = "list"
  /\ \E S \in SUBSET Listed :
       /\ IF job.limit /\ Listed # {} THEN \E m \in S : S = {m} /\ IsNewest(m, Listed)
                                     ELSE S = Listed
       /\ job' = [job EXCEPT !.phase = "save", !.top = 0, !.last = Nothing, !.todo = S]
  /\ UNCHANGED <<outside, zip, file, index, mark, partial>>

(* _ensure_renderable_for_existing                                          *)
WithBody(r, m) == IF r.body = Nothing THEN [r EXCEPT !.body = m] ELSE r

(* A mail whose row has its Gmail id and its file is passed over.           *)
SkipKnown(m, rows) ==
  /\ rows[m].gid /\ HasFile(rows, m)
  /\ IF rows[m].body = Nothing
     THEN Write("job", [rows EXCEPT ![m] = WithBody(@, m)])
     ELSE UNCHANGED <<draft, tx>>
  /\ job' = [job EXCEPT !.todo = @ \ {m},
                        !.last = IF rows[m].body = Nothing THEN m ELSE @]
  /\ UNCHANGED file

(* One that Takeout brought gets its Gmail id.                              *)
AdoptRow(m, rows) ==
  /\ ~rows[m].gid /\ HasFile(rows, m)
  /\ Write("job", [rows EXCEPT ![m] = [WithBody(@, m) EXCEPT !.gid = TRUE]])
  /\ job' = [job EXCEPT !.todo = @ \ {m}, !.top = MaxOf({@, Date[m]}),
                        !.last = IF rows[m].body = Nothing THEN m ELSE @]
  /\ UNCHANGED file

Fetched(m) ==
  /\ FreeNames(m) # {}
  /\ file' = file \cup {<<m, FreeName(m)>>}
  /\ job' = [job EXCEPT !.todo = @ \ {m}, !.top = MaxOf({@, Date[m]}), !.last = m,
                        !.counted = @ \cup {m}]

(* Mutant of SaveRow: the row comes without its file.                       *)
SaveRowOnly(m, rows) ==
  /\ rows[m].name = 0 \/ rows[m].gid
  /\ ~HasFile(rows, m) /\ FreeNames(m) # {}
  /\ job' = [job EXCEPT !.todo = @ \ {m}, !.top = MaxOf({@, Date[m]}), !.last = m,
                        !.counted = @ \cup {m}]
  /\ UNCHANGED file
  /\ Write("job", [rows EXCEPT ![m] = [name |-> FreeName(m), gid |-> TRUE, body |-> m]])

(* Every other mail is written under a new name; its row is made or, if its *)
(* file had gone, pointed to the new one.                                   *)
SaveRow(m, rows) ==
  /\ rows[m].name = 0 \/ rows[m].gid
  /\ ~HasFile(rows, m)
  /\ Fetched(m)
  /\ Write("job", [rows EXCEPT ![m] = [name |-> FreeName(m), gid |-> TRUE, body |-> m]])

(* A row of Takeout without its file: INSERT OR IGNORE inserts nothing and  *)
(* lastrowid is that of the insertion before, the text of another mail;     *)
(* that mail gets the parts of this one.  Without one the row is not found, *)
(* an exception (Fail).                                                     *)
SaveIgnored(m, rows) ==
  /\ rows[m].name # 0 /\ ~rows[m].gid /\ ~HasFile(rows, m)
  /\ job.last # Nothing /\ FreeNames(m) # {}
  /\ file' = file \cup {<<m, FreeName(m)>>}
  /\ Write("job", [rows EXCEPT ![job.last].body = m])
  /\ job' = [job EXCEPT !.todo = @ \ {m}, !.top = MaxOf({@, Date[m]}),
                        !.counted = @ \cup {m}]

Save(m) ==
  /\ job.phase = "save" /\ IsNewest(m, job.todo)
  /\ LET rows == View("job")
     IN SkipKnown(m, rows) \/ AdoptRow(m, rows) \/ SaveRow(m, rows) \/ SaveIgnored(m, rows)
  /\ UNCHANGED <<outside, zip, row, mark, partial>>

(* Mutant of SaveEnds: a limited run is not committed.                      *)
SaveEndsUncommitted ==
  /\ job.phase = "save" /\ job.todo = {}
  /\ job.limit \/ tx \in {Nobody, "job"}
  /\ IF job.limit THEN Rollback("job") /\ UNCHANGED row ELSE Commit("job")
  /\ mark' = IF job.limit \/ job.top = 0 THEN mark ELSE job.top
  /\ partial' = (partial \/ (mark = 0 /\ job.limit))
  /\ Proceed(job)
  /\ UNCHANGED <<outside, zip, file>>

(* The watermark is the newest day of what this run brought; it is written  *)
(* in the transaction of the run, and not touched by a limited run.         *)
SaveEnds ==
  /\ job.phase = "save" /\ job.todo = {}
  /\ job.limit \/ tx \in {Nobody, "job"}
  /\ Commit("job")
  /\ mark' = IF job.limit \/ job.top = 0 THEN mark ELSE job.top
  /\ partial' = (partial \/ (mark = 0 /\ job.limit))
  /\ Proceed(job)
  /\ UNCHANGED <<outside, zip, file>>

(* sync_sources copies an archive it has not copied; an error is noted.     *)
Sync ==
  /\ job.phase = "sync"
  /\ zip' \in {zip, zip \cup {"inbox" : s \in zip}}
  /\ Proceed(job)
  /\ UNCHANGED <<outside, file, index, mark, partial>>

(* auto_takeout imports what it has copied, if nothing failed and it is new.*)
Move ==
  /\ job.phase = "move"
  /\ \/ /\ "source" \in zip /\ "inbox" \notin zip
        /\ zip' = zip \cup {"inbox"}
        /\ Proceed(job)
     \/ /\ Proceed([job EXCEPT !.rest = <<>>])
        /\ UNCHANGED zip
  /\ UNCHANGED <<outside, file, index, mark, partial>>

(* The archive of the inbox is taken apart, or cannot be read.              *)
Extract(kind) ==
  /\ job.phase = kind
  /\ \E found \in {{}, IF "inbox" \in zip THEN Exported ELSE {}} :
       job' = [job EXCEPT !.phase = "take",
                 !.todo = found \cap (IF kind = "mail" THEN Mails ELSE Photos)]
  /\ UNCHANGED <<outside, zip, file, index, mark, partial>>

(* _import_messages and _import_media: an item whose bytes the index knows  *)
(* is passed over, whether or not its file is there.                        *)
Take(i) ==
  /\ job.phase = "take" /\ i \in job.todo
  /\ LET rows == View("job")
     IN IF rows[i].name # 0
        THEN /\ job' = [job EXCEPT !.todo = @ \ {i}]
             /\ UNCHANGED <<file, draft, tx>>
        ELSE /\ FreeNames(i) # {}
             /\ file' = file \cup {<<i, FreeName(i)>>}
             /\ Write("job", [rows EXCEPT ![i] = [NoRow EXCEPT !.name = FreeName(i)]])
             /\ job' = [job EXCEPT !.todo = @ \ {i}, !.counted = @ \cup {i}]
  /\ UNCHANGED <<outside, zip, row, mark, partial>>

(* A photo that cannot be copied or whose copy differs is noted.            *)
TakeFails(i) ==
  /\ job.phase = "take" /\ i \in job.todo \cap Photos
  /\ View("job")[i].name = 0
  /\ job' = [job EXCEPT !.todo = @ \ {i}]
  /\ UNCHANGED <<outside, zip, file, index, mark, partial>>

TakeEnds ==
  /\ job.phase = "take" /\ job.todo = {}
  /\ Commit("job")
  /\ partial' = (partial \/ (mark = 0 /\ \E m \in Mails : row'[m].name # 0))
  /\ Proceed(job)
  /\ UNCHANGED <<outside, zip, file, mark>>

----------------------------------------------------------------------------
(* rename_existing_gmail_files                                              *)

RenameStart ==
  /\ ~ren.on /\ calls < MaxCalls
  /\ ren' = [NoRename EXCEPT !.on = TRUE, !.todo = {m \in Mails : row[m].name # 0},
               !.names = [m \in Mails |-> row[m].name]]
  /\ calls' = calls + 1
  /\ UNCHANGED <<arrived, zip, file, index, mark, job, failures, viewer, partial>>

(* The file gets the free name, which is never the one it has ...           *)
RenameFile(m) ==
  /\ m \in ren.todo /\ ren.moved = {}
  /\ LET old == <<m, ren.names[m]>>
         new == <<m, FreeName(m)>>
     IN IF old \in file
        THEN /\ FreeNames(m) # {}
             /\ file' = (file \ {old}) \cup {new} /\ ren' = [ren EXCEPT !.moved = {new}]
        ELSE ren' = [ren EXCEPT !.todo = @ \ {m}] /\ UNCHANGED file
  /\ UNCHANGED <<arrived, zip, index, mark, job, calls, failures, viewer, partial>>

(* ... and its row the new name, once the other writer is through.          *)
RenameRow ==
  /\ \E new \in ren.moved :
       LET m == new[1]
           rows == View("rename")
       IN /\ Write("rename", IF rows[m].name = 0 THEN rows
                             ELSE [rows EXCEPT ![m].name = new[2]])
          /\ ren' = [ren EXCEPT !.moved = {}, !.todo = @ \ {m}]
  /\ UNCHANGED <<arrived, zip, file, row, mark, job, calls, failures, viewer, partial>>

RenameEnds ==
  /\ ren.on /\ ren.todo = {}
  /\ Commit("rename")
  /\ ren' = NoRename
  /\ UNCHANGED <<arrived, zip, file, mark, job, calls, failures, viewer, partial>>

(* The database stays locked for a minute, or the process ends.             *)
RenameFails ==
  /\ ren.on /\ failures < MaxFailures
  /\ failures' = failures + 1
  /\ Rollback("rename")
  /\ ren' = NoRename
  /\ UNCHANGED <<arrived, zip, file, row, mark, job, calls, viewer, partial>>

----------------------------------------------------------------------------
(* The viewer, without the vault lock.                                      *)

(* POST /actions/delete-file: the file goes first ...                       *)
DeleteFile(i, k) ==
  /\ calls < MaxCalls /\ <<i, k>> \in file
  /\ calls' = calls + 1
  /\ file' = file \ {<<i, k>>}
  /\ erase' = erase \cup {<<i, k>>}
  /\ deleted' = deleted \cup {i}
  /\ UNCHANGED <<arrived, zip, index, mark, job, ren, sweep, failures, dropped, partial>>

(* ... and then the rows of its path, in a transaction that waits for the   *)
(* other writer ...                                                         *)
DeleteRows ==
  /\ tx = Nobody
  /\ \E f \in erase :
       LET gone == {i \in Items : <<i, row[i].name>> = f}
       IN /\ row' = [i \in Items |-> IF i \in gone THEN NoRow ELSE row[i]]
          /\ erase' = erase \ {f} /\ dropped' = dropped \cup gone
  /\ UNCHANGED <<arrived, zip, file, draft, tx, mark, job, ren, sweep, calls, failures, deleted,
                 partial>>

(* ... a minute at most, and the viewer may end before.                     *)
DeleteFails ==
  /\ failures < MaxFailures
  /\ \E f \in erase : erase' = erase \ {f}
  /\ failures' = failures + 1
  /\ UNCHANGED <<arrived, zip, file, index, mark, job, ren, sweep, calls, deleted, dropped,
                 partial>>

(* POST /maintenance/cleanup-missing                                        *)
CleanupMissing == calls < MaxCalls /\ SweepRead("viewer") /\ calls' = calls + 1

CleanupEnds ==
  /\ SweepEnds("viewer")
  /\ dropped' = dropped \cup {i \in Items : row[i].name # 0 /\ row'[i].name = 0}
  /\ UNCHANGED job

CleanupFails ==
  /\ sweep["viewer"].on /\ failures < MaxFailures
  /\ failures' = failures + 1
  /\ Rollback("viewer")
  /\ sweep' = [sweep EXCEPT !["viewer"] = NoSweep]
  /\ UNCHANGED <<arrived, zip, file, row, mark, job, ren, calls, erase, deleted, dropped,
                 partial>>

----------------------------------------------------------------------------
JobStep ==
  \/ CleanRead \/ SweepRow("job") \/ CleanEnds \/ List \/ SaveEnds \/ Sync \/ Move \/ TakeEnds
  \/ \E m \in Mails : Save(m)
  \/ \E kind \in {"photos", "mail"} : Extract(kind)
  \/ \E i \in Items : Take(i) \/ TakeFails(i) \/ SweepLook("job", i)
RenameStep == RenameRow \/ RenameEnds \/ \E m \in Mails : RenameFile(m)
ViewerStep ==
  DeleteRows \/ SweepRow("viewer") \/ CleanupEnds \/ \E i \in Items : SweepLook("viewer", i)

Next ==
  \/ \E m \in Mails : Arrive(m)
  \/ Download
  \/ \E plan \in Plans : Start(plan, FALSE)
  \/ Start(<<"list">>, TRUE)
  \/ JobStep \/ Fail
  \/ RenameStart \/ RenameStep \/ RenameFails
  \/ \E i \in Items : \E k \in 1..MaxNames : DeleteFile(i, k)
  \/ CleanupMissing \/ ViewerStep \/ DeleteFails \/ CleanupFails

Spec == Init /\ [][Next]_vars

Daily == Start(<<"clean", "list", "sync", "photos", "mail">>, FALSE)

(* Jobs go on, the daily backup is started when no other job runs, and a    *)
(* rename and a request of the viewer go on.                                *)
FairSpec ==
  /\ Spec /\ WF_vars(JobStep) /\ WF_vars(RenameStep) /\ WF_vars(ViewerStep)
  /\ SF_vars(Daily)

----------------------------------------------------------------------------
(* Properties.                                                              *)

Copies(i) == {k \in 1..MaxNames : <<i, k>> \in file}

(* In the vault, or deleted through the viewer.                             *)
Kept(i) == Copies(i) # {} \/ i \in deleted

(* A mail of the account that is not in the vault is within reach of the    *)
(* next backup: the watermark never passes a mail that was not saved,       *)
(* however runs fail, renames and the viewer interfere and mail arrives     *)
(* late, if the index was empty until the first whole backup and nobody     *)
(* deleted the mail (gmail_api.py:35-50, 233-245).                          *)
NothingForgotten == ~partial => \A m \in arrived : Kept(m) \/ Date[m] >= Cutoff

(* What the index lists is in the vault, if perhaps under another name than *)
(* the index says, unless it was deleted through the viewer, whose deletion *)
(* of the rows may fail (gmail_api.py:108, gmail_maintenance.py:38-40,      *)
(* vault_index.py:108-115).                                                 *)
IndexedIsKept == \A i \in Items : row[i].name # 0 => Kept(i)

(* No mail is lost between the account, the vault and the index.            *)
MailIsKept == TypeOK /\ NothingForgotten /\ IndexedIsKept

(* A report that says ok counts only items the index has, or had until the  *)
(* viewer took the row out while the job ran: what a rollback took back is  *)
(* reported as failed (cli.py:143-149).                                     *)
OkMeansIndexed ==
  [][(job' = Idle /\ job # Idle /\ failures' = failures)
       => \A i \in job.counted : row'[i].name # 0 \/ i \in dropped]_vars

(* Every mail gets into the vault, if the index was empty until the first   *)
(* whole backup, the daily backup keeps being started and nobody deletes    *)
(* the mail (cli.py:333-345).                                               *)
EveryMailIsSaved == \A m \in Mails : m \in arrived ~> (Kept(m) \/ partial)
=============================================================================
