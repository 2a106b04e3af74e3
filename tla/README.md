# L-vault in TLA+

L-vault keeps a local vault of a person's mail, photos and files on a Windows
machine, and can clone the system disk, or the data volumes of it, onto another
disk. These modules model the parts of it whose correctness depends on the order
of events: several processes, files and rows that outlive them, crashes,
timeouts, and disks that change their numbers.

`tlc -config X.cfg M` checks a configuration, `tlapm M.tla` the proofs.

## The system

| Component | State it keeps | Operations | What is hard |
|---|---|---|---|
| Data clone, app side (`first_party_data_clone.py`, routes of `viewer.py`) | `_pending_state`, `_cancel_pending`, the open cancel gate; the job record `active.json` | `launch`, `monitor`, `cancel`, `recover_vss`, on concurrent request threads | a launch that gives up while its worker goes on; flags shared by threads; polls that clear them |
| Data clone, worker (`first_party_clone_worker.py`) | the record, `worker.lock`, `target_clear_started`, the job's snapshots | one job: precheck, snapshots, source scan, boundary, target preparation, copy, verification, clean-up; recovery of a dead job | the race of cancellation and erasure; a kill or timeout between any two of these |
| Cancel gate (`clone_control.py`) | a named mutex and a named event per job | create, open, lock, signal, read | abandoned mutexes; objects that vanish with their last handle |
| VSS requester (`native/vss_snapshot`) | the snapshot journal of a job; snapshots in Windows | `snapshot`, `cleanup` | snapshots that exist before anybody knows their names; partial roll-back |
| Runtime installer (`tools/install_clone_worker.ps1`, `clone_runtime_security.py`) | worker, helper and manifest under ProgramData, their backups, an update journal | install or update, recovery of an interrupted update, start of the first worker | three files that have to change together |
| Scheduled disk clone (`disk_clone.py`, `disk_clone_ui.py`) | rows of runs, events, control requests, monitor owners; `localvault_disk_clone.lock`; the enrollment; the target on- or offline | enroll, `execute`, `retry`, `consume_retry_request`, `reconcile_interrupted`, countdown and monitor windows | two processes; the target must end offline whatever fails; disks are found by identity and used by number |
| Vault locks (`locks.py`, `CloneLock`) | a lock file | acquire, release, staleness | takeover of a stale lock by check, unlink and create |
| Offline clone (`offline_clone*.py`, `offline_runtime.py`, `offline_preparation.py`) | replay store, job store, result package, return channel | prepare, run offline, publish, recover and consume the result | at most one engine; a result announced is there, true, and for the job it belongs to |
| Assisted clone (`diskgenius_assisted.py`) | a signed session file; the clone lock | `launch`, `revalidate_before_overwrite`, `cancel_before_overwrite`, `verify` | another vendor's program does the writing, out of sight |
| Gmail import (`gmail_api.py`, `gmail_takeout.py`, `gmail_maintenance.py`) | message files, rows, the watermark of the last sync | incremental and archive import, rename | files and rows are not written together |
| Takeout, photos, folder sync (`auto_takeout.py`, `photos.py`, `source_sync.py`) | archives in the inbox, media files, rows | move or copy with verification, import, dedupe | an interrupted move; partial success of a batch |
| Vault index (`db.py`, `vault_index.py`) | SQLite rows | upsert, removal of rows whose file is gone | rows against files |
| Viewer (`viewer.py`) | none of its own | pages; deletion of a file and its rows, clean-up of the index, both without the vault lock; start of commands and clones | it changes the index and the vault beside every command |
| Replica, restore, recovery (`replica.py`, `restore.py`, `recovery.py`) | copies of the vault | mirror, restore, verify | copies of a vault that changes meanwhile; interrupted copies |
| Command line, scheduler, control panel (`cli.py`, `scheduler.py`, `control_panel.py`) | one running command and its log | start, status | what is done inside the lock and what outside |

The app is a local web server. Its synchronous routes run on a pool of threads,
so `monitor`, `cancel` and `recover_vss` run concurrently with `launch`. A
launch starts an elevated worker process; from then on the two share only
files and named Windows objects. The worker starts the VSS requester, the
PowerShell script that prepares the target, and robocopy, each as a process of
its own. A recovery is another elevated process, for a job whose worker died.

Everything else is commands: processes that share the vault, the database and
two lock files. Scheduled clones, retry workers and imports meet over the
backup lock and the clone lock; windows and workers over rows; the replica is
planned outside the lock and copied inside; restore, rename and the viewer's
deletions take no lock.
The offline runner shares with Windows only an exchange medium.

What makes it correct, in a sentence each: the target of a data clone is
erased only for a job that was not cancelled before, and the record names one
process and tells what happened; no snapshot is lost; the runtime is one build
whenever it may be used; one provider writes one enrolled disk, which ends
offline; a failed run is retried at most once; an offline job starts one engine
and its result is consumed only if it is true; an assisted session is verified
only for its own work; mail of the account gets into the vault and what the
index lists stays there; a replica that says completed holds what was planned.

## The modules

`VssRequester` is the native helper alone: `journal`, `snaps` (what Windows
keeps) and `helper` (where the process stands), one of each per job. The
actions follow `create_snapshots`: create the journal, write it, register one
volume after the other (identifier first journaled, then the next VSS call),
`DoSnapshotSet`, the checks, roll-back, clearing of the journal. A snapshot is
identified by job and volume instead of a GUID.

`DataClone` extends it with the processes around it. Its variables:

| Variable | Code |
|---|---|
| `launch`, `pending`, `cancelPending`, `appGate` | `_launch_guard` and the progress of `_launch_once`, `_pending_state`, `_cancel_pending`, `_cancel_gate` with `_cancel_gate_job_id` |
| `canceller` | the thread in `cancel()` |
| `event`, `mutex` | the named objects of `CloneCancelGate` |
| `active` | `active.json`, the fields that decide something |
| `lock` | the process named by `worker.lock` |
| `worker`, `exc`, `clean` | where `_run_clone_job` stands, the exception on its way to the handlers, the clean-up it is in |
| `script`, `marked`, `erased` | the script of `_prepare_target`, the file `target_clear_started`, and whether `Clear-Disk` ran |
| `recoverer` | processes in `_recover_vss_job` |
| `accepted` | history: jobs whose `cancel()` returned before their preparation began |
| `crashes`, `fresh` | bounds: crashes so far, jobs not yet launched |

An action is one durable write, one system call that others can observe, or
one check they can race with, together with everything the code does in the
same step. `monitor()` is called at the end of most operations of the app and
clears flags there; `Observe` is that call, and the actions that end with it
contain it.

`CloneBoundary` is what the two promise about cancellation: per job, either the
cancellation or the preparation is decided first, and only a job whose
preparation was decided is erased. `DataClone` implements it (`BoundaryKept`)
with `status` read from the event and the script.

`RuntimeInstall` is the installer script and, as far as it concerns it, the
worker. Its variables: `files` and `backups` (which build each of worker,
helper and manifest is from), `journal` (phase, the files before, the build
that comes), `ownerSid`, `mutex`, `installer` (place in `Install-CloneRuntime`,
the mode in which it runs `Recover-InterruptedInstall`, the worker it started),
`worker` (how far a worker process has checked the runtime), `active` and
`blocking` (`active.json`: its worker, and whether its state forbids an
installation). Each file operation that another process could meet half done
is an action; recovery is the same actions in two modes, before an installation
and after its failure. A failure is possible wherever the script can throw, an
end from outside everywhere. `DataClone` takes the runtime as given; the worker
of `RuntimeInstall` is its worker before the claim.

`RuntimeBundle` is what the installation promises: one build as a whole or none,
not usable while it is changed, replaced at one instant. `RuntimeInstall`
implements it (`BundleKept`): the build in place is that of the manifest, or,
while an uncommitted journal exists, the one the journal goes back to.

`CloneService` is `CloneService.execute` in any number of processes over one
database, one target and the two lock files, with imports that take the backup
lock only. `state`, `old` and `pidSaved` are the row of a run (its state, whether
it is older than twelve hours, whether it has the pid of a provider), `prov` the
provider itself, `online` the target, `file` the lock files (owner, whether the
content has been written, whether it is old), `held` the `acquired` flags, `pc` the
place in `execute`, `brought` what the `finally` of `execute` knows of the target,
`listed` the rows `reconcile_interrupted` has read and not yet settled. Acquiring
is look, unlink, create and write, each an action. Under the locks every write of the
row, the event sink and the waiting may raise, also while the provider runs: `Raise`
leads to the handlers and the `finally`, whose own writes may raise again. At this commit the scheduled
command only reports, and the configuration refuses `allow_real_provider_execution`,
so a run outside simulation ends before the locks; the service is modelled as its
class offers it, which tests and the simulation run.

`DiskSelection` is which disk that service writes: `identity` and `slot` are the
disks and the numbers they have now, `choice` and `enrollment` what the owner picked
and what was signed, `number` what the next disk operation names, `offlined` and
`written` the disks it met. The actions are the three look-ups of
`_enroll_disk_clone`, `set_offline` between the last two, the checks of a run, its
plan, the start and the structural verifier; `Change` renumbers disks between any
two. `Matches`, `NoConflict` and `GreedyMatch` are the code's own comparisons of
identities, protected paths and partitions.

`CloneControl` is how runs are started, confirmed and retried through the
database: `run` (state, parent and `retry_run_id` of a row), `request` (controls of
action retry), `owner` (monitor owners), `worker` (a process in `consume_retry_request`,
`retry`, `execute` and its countdown window) and `monitor` (a window and its button).
The reconciliation at the start of `execute` reads the rows in one step and writes
"interrupted" to each in a later one; `failed` in a row remembers that it ever said so.
What `execute` does after the window has answered is `Work` here and
`CloneService` there.

`OfflineReturn` is one offline job: `package` (what the preparation put on the
medium), `meta` (`channel.json`), `final` and `partial` (the result package under its
final and its temporary name), `lock`, `nonce` (the replay store), `pc` and `seen`
(each start of the runner and what it observed), `target`, `outcome` (the answer of the
last consumption). Every method of the channel holds its lock from its first read to its
last write and is one step, except `publish_result`, whose files reach the medium
one after the other. A runner that is to tell its failure and can neither read nor
write `channel.json` ends as "untold".

`AssistedClone` is the DiskGenius session: `session` (state, numbers and layouts
recorded at launch), `step` (the operation that has the clone lock; launch is four
steps), `gui` (DiskGenius and the numbers it listed when it opened), `number`,
`layout` and `target` (the disks as they are). What the owner does in DiskGenius
(`WriteStarts`, `WriteEnds`, `GuiCloses`) is outside L-vault and constrained only by
what the page says and the owner attests. The check of the target is structural: an
old target does not pass it, a written one may or may not, half-written or whole
(`LooksMigrated`). `broken` and `verified` remember which sessions were broken off
while they wrote and which were verified. The provider is used by tests only at
this commit.

`MailArchive` is the imports: `arrived` (the account), `zip` (where the archive is),
`file` (files of the vault under their names), `row` and `draft` (the index as
committed and as the open transaction `tx` has it), `mark` (the watermark), `job` (the
running command and its parts), `ren` (a rename beside it), `sweep` (the clean-up of
the index, of the job and of the viewer: rows read, files looked for, rows deleted),
`erase` (files the viewer has unlinked, whose rows are still to go). A job is one of the
commands `backup-gmail-api`, `import-takeout` by its parts, `auto-takeout` and
`daily-backup`, each a list of phases; each mail or photo saved is an action.

`VaultCopies` is replica and restore: `vault` and `hash` (files and the hashes the index
has), `moving` (files a rename has moved and whose rows it has not), `replica`,
`snapshot` and `manifest` (the copies), `dest` (the restore folder), `cmd` (each
command: its plan, what is left of it, the file in hand), `lock`. Walk, lock, copy,
verification and manifest or report are actions; imports, clean-ups, edits, deletions
and both halves of a rename change the vault between them. `doubt` remembers what a
restore copied and reported as not verified, or had not reported when it ended.

The MC modules give the constants their finite sets, the modules named `...Proofs`
hold the theorems. `DataCloneProofs` has those of `VssRequester` too, `VaultProofs` those
of `MailArchive` and of `VaultCopies`, whose specification is therefore named
`CopiesSpec`.

Definitions commented "Mutant of ..." are variants of the definition that
follows, with one plausible mistake each. They occur in no specification;
putting one in place of its original must break the property it is listed
with in `PROJECT.json`.

### What is abstracted

* Disk roles, volumes, encryption, manifests and hashes are checks with two
  outcomes. Robocopy's progress writes do not change any field that is kept.
* Processes have their job as pid: a pid is never used again. `_process_is_running`
  answers yes or no; "cannot tell" behaves like yes in the code.
* In `DataClone` `worker.lock` is taken in one step (the race of check, unlink and
  create is in `CloneService`). The twelve hours of staleness are any time.
* A torn journal write is an unreadable journal ("empty").
* `DoSnapshotSet` does not create snapshots after the helper rolled back.
* The installer variant of a launch starts the worker itself and ends it after
  30 seconds without a record; in the model this is a launch with a crash.
* The states that `monitor()` makes up for a dead worker are shown to the owner
  and never saved; they are not part of `active`.

For the installer:

* Each installer brings a build of its own: hashes that differ. An installation
  of the build that is already there is not modelled.
* The build, ACLs, reparse points, signatures and the contents of the manifest
  are checks that may fail. The staged copies have names of their own and are
  removed by the next installer; they are left out, as is the audit file.
* `Restore-TransactionFile` writes through a temporary file, which replaces the
  destination at once.
* Windows refuses to replace or delete the image of a running worker (`InUse`);
  that of a running helper is not modelled, since it only makes more steps fail.
* The pid in `active.json` is taken to be that of the process the installer
  started.
* An abandoned mutex does not outlive the process: no other installer keeps a
  handle to it.

For the others:

* `CloneService`: "blocked" stands for every refusal (`skipped_*`, `blocked_*`,
  cancelled, re-enrollment), "failed" for `failed_provider` and
  `failed_verification`; the window of the schedule may be open or closed at each
  check. Twelve hours pass for all files and rows that exist at once.
* `DiskSelection`: model, sector sizes and size are one value (`shape`); the resolver
  of protected paths answers any part of the identifiers of the vault's disk.
* `CloneControl`: what a row says of progress, verification and clean-up is one
  state; blocked, skipped and successful runs are "ended", for which the button may
  or may not be drawn.
* `OfflineReturn`: signatures, digests and bindings are compared, not computed; a
  verifier does not take a broken copy for a whole one.
* `AssistedClone`: a layout is a counter that grows when the disk is written; the
  owner overwrites only while the page says the check is valid and does not attest
  "not started" wrongly, but may attest "complete" wrongly.
* `MailArchive`: a mail has one text and no attachments of its own; two mails differ
  in their bytes; a name is a number and the first free one is taken. Takeout has
  the bytes the Gmail API has. There is one archive, so what the failure of one move
  does to the others of a batch is not shown.
* `VaultCopies`: contents are numbered and a hash is the content. A copy of a file is
  one step, its verification another where the vault may change in between. The
  staging folder is one place per command. The vault lock is perfect (its races are in
  `CloneService`). A rename commits its rows one by one here and all together in
  `MailArchive`.

## The runs

| Run | Instance | Shows |
|---|---|---|
| `vss_requester` | 2 jobs, 3 volumes, 2,116 states | the journal covers the snapshots; success means the whole set; a helper ends |
| `clone_two_jobs` | 2 jobs, 1 volume, no crash, 1.1 million states | the record is owned by one process; no unfinished job is replaced |
| `clone_crash` | 1 job, 2 volumes, 2 recoveries, one crash each of app, worker, recovery, 0.4 million states | a job whose record admits the erasure of the target does not end as "failed" or "blocked", and one that ends as "cancelled" admits it (`ErasureIsTold`); the source stays readable until the copy is verified, and what a worker leaves is offered for recovery (`SnapshotsAreTended`); a confirmed clean-up left nothing unless the worker was killed (`ConfirmedMeansGone`); "complete" is true; a cancellation that was accepted in time is honoured; the boundary is kept |
| `clone_fair` | 1 job, 1 volume, a crash of the app and of the worker, 55,000 states | launch and cancel return (`AppReturns`), the worker ends |
| `runtime_install` | 2 installers, 2 workers, 115,000 states | the runtime is one build whenever it may be used, and the installer's own after a success (`RuntimeIsWhole`); nothing changes under a worker that trusts the runtime; `RuntimeBundle` is implemented; an installer ends |
| `clone_service` | 2 runs, 1 import, a crash, one passing of twelve hours | one run at a time has the target, one provider that is waited for writes it and no import is beside it (`CloneIsExclusive`); no lock is left behind; the target is offline at rest; it is never taken offline under a provider that is waited for, and a success is at rest (`ProviderIsWaitedFor`) |
| `disk_selection` | 3 disks with 8 confusable identities on 3 numbers, 5 partition tables, 3 changes | the disk enrolled is the one picked; the one written is the one enrolled and neither the system's nor the vault's (`SafeSelection`); an accepted layout corresponds one to one |
| `clone_control` | 2 workers, 2 monitor windows, 3 runs, 2 of them scheduled (`MaxScheduled`), 2 requests, a crash, 0.9 million states | one retry per failed run, of failed runs only, named rightly (`RetriesAreSound`); a request is claimed once, and one monitor shows a run (`OneOfEach`); Cancel is honoured |
| `offline_return` | 2 starts of the runner, one cut off, 29,000 states | one engine; a success is true, what is announced is there, "blocked" ran nothing (`ReturnIsTrue`); failure and result are final (`ChannelIsFinal`); "running" ends |
| `assisted_clone` | 3 sessions, 2 renumberings, a drift, 2 crashes, 1.8 million states | only the target is written; no attempt over a half-written target that was not verified by mistake; a verified session did it itself, an open DiskGenius is accounted for, settled sessions stay (`SessionIsTrue`) |
| `imports` | 2 mails and 1 photo, 5 names, a failure, and one rename, deletion or clean-up (`MaxCalls`), 0.5 million states | the watermark passes no mail and what is indexed is kept unless it was deleted through the viewer (`MailIsKept`); "ok" is indexed; every mail is saved |
| `copies` | 2 files, 2 commands beside each other, 2 starts, 3 changes, 2 contents, a crash, 1.0 million states | a replica that is not incomplete has what was planned and what its index lists, and completed is not stale (`ReplicaIsTrue`); the manifest lists all files of the replica (`ReplicaIsListed`); restores are of indexed contents, or say that they are not unless they were cut off, and leave the owner's files (`RestoreIsSafe`) |

Properties that say one thing in several parts are named conjunctions of the parts, which are stated and
proved one by one. `SafeSelection`, `MailIsKept` and `ReplicaIsListed` include the type invariant of their
modules; that of the others is not checked by a run but proved, and so is `SnapshotsJournaled`, which is
`JournalCoversSnapshots` in the composed system.

Two jobs are needed because the only worker a second launch can meet is a late
one of the first; a third adds nothing that two do not, since the record and
the lock hold one name. One volume is enough where snapshots only exist or do
not; two are used where a set can be partly deleted. Two recoveries can race
each other, and one can follow another that was killed. With one crash of each
kind a crash can hit a system that is already recovering from another.
Symmetry of jobs, volumes and recoveries is used in the safety runs only; the
run with two jobs leaves the history variable `accepted`, which no action
reads, out of the view.

Two installers are one that leaves a build, or a journal, and one that meets it;
with three (one to recover an interrupted second) the safety properties were
checked too, and they are proved for any number. Two workers can follow each
other, one before and one after an installation. Installers and workers are
started at most once each.

Two runs and an import are enough for `clone_service`: a lock file has one owner and
one who takes it over; the theorems hold for any number. In `clone_control` two workers
race for one request or one parent and a third run can be a retry of a retry; two
scheduled runs are one that fails and is retried and one whose reconciliation has read it
before; two
requests let a second one be made while the first is claimed. Two starts of the
offline runner are one that publishes, or is cut off, and one that meets it. Three
assisted sessions let one fail, one meet that and one follow; two renumberings can
undo each other, which no comparison sees. Two mails on neighbouring days can arrive in
either order within the overlap; five names suffice for two mails, a repeated import and
a rename; the photo is there because it can fail alone. Two files let a replica hold one
that is gone beside one that changed; three changes bring a file, take it away or rename
it, and change again; the two starts are two commands that overlap or follow each other.
One rename or request of the viewer meets every job; a second one would meet what the
first one left, which the theorems cover. The bounds of
`disk_selection` let the numbers change before, between and after both identity checks.

Deadlock is checked in the runs of `DataClone`, where polling (`Monitor`) is always
possible, and of `VssRequester`, where starting or deleting is. It is not in
the others, where everything may have ended or a bound is used up.

### Fairness

A started process keeps running: weak fairness of the steps of launch, cancel,
worker, helper, script and recovery. The justification is that each external
command has a timeout (15 minutes for the helper, 20 for the script, 30 seconds
for the acknowledgement) after which the code goes on. Who waits for the mutex
of a job gets it although others take it again (strong fairness): Windows
serves the waiters of a mutex in their order, and nobody waits for anything
while holding it. Requests of the owner, polls and crashes are not fair.

An installer that runs goes on (weak fairness): it takes its mutex without
waiting, and waits for its worker for 30 seconds only. Workers need not go on.

A runner of the offline clone that is not cut off goes on (weak fairness), its engine
included, which has a timeout. Whether the owner starts one is not fair.

Import jobs, renames and requests of the viewer that run go on (weak fairness). The daily backup is started
again and again by the scheduled task, whenever no other job is running at that moment
(strong fairness of `Daily`): a job that meets the vault lock is refused, and tried
again the next day. No other command is ever required.

## Seen while modelling

The properties above state what the code does keep, some of them with a precondition.
This is where a document, a message or a test says more than the code does, or where
the precondition is there for a reason. Lines are of `src/src/localvault/` where no other
path is given.

Data clone and installer:

* `docs/clone-worker-runtime.md:73`: "If cancellation wins first, the target is not
  changed." A poll that sees an older job end clears `_cancel_pending` and
  `_pending_state` of the launch in progress (`first_party_data_clone.py:1309`); a
  cancellation that answered 202 is lost and the target erased. `AcceptedCancelHonoured`
  is checked in `clone_crash`, with one job, where no older one can end.
* `first_party_data_clone.py:1505` tells the owner that the clone "foi cancelada antes de
  alterar o Seagate". A cancellation during copy or verification gives the same final
  state (`first_party_clone_worker.py:666`): it is refused in the phases TARGET_PREPARE and
  CLEANUP only. What holds is `CancelledAdmitsDestruction`.
* `docs/clone-worker-runtime.md:75`: "An interrupted clone is marked incomplete and cannot be
  retried until reviewed." After the timeout of the preparation the job ends as "failed"
  and admits a new launch (`first_party_clone_worker.py:854`).
* `first_party_clone_worker.py:766`, "A limpeza VSS terminou": the helper of a killed worker
  may still run and create its set after that (`:752`). `ConfirmedMeansGone` excepts a
  worker that was killed. The same line says "a operação anterior não alterou o destino"
  although recovery does not look at `target_clear_started` (`:755`).
* `first_party_clone_worker.py:697`, "Não há uma limpeza VSS pendente para esta operação": a second
  recovery that finds nothing pending marks the job pending again (`:769`).
* `docs/clone-worker-runtime.md:46`: "the next installer invocation either finishes cleanup for
  a validated committed update or restores the previous worker, helper, and manifest." A
  roll-back that is interrupted after it removed a backup can never be repeated, and every
  installation stops at it (`tools/install_clone_worker.ps1:478`, `:551`).
* A worker that is killed after a cancellation saved the phase PRECHECK, and before its
  clean-up, leaves snapshots that no recovery is offered for (`first_party_clone_worker.py:834`;
  the exception in `LeftIsOffered`). An installer that ends between
  creating and writing `owner.sid` makes every later one refuse its own owner. A worker that
  has passed its check of the runtime may become active after the installer looked for an
  active clone (the replacement of the running worker's image then fails, and so does its
  roll-back until the worker has ended).

Scheduled clone:

* A lock that is stale can be taken over by two processes at once: the second unlinks what the
  first has just created (`disk_clone.py:1081`, `locks.py`); `BackupLock.release` unlinks
  whatever has the name (`locks.py:50`). Hence `stolen` and `halfDays` in the properties.
* A process that ends between creating and writing the clone lock leaves a file that names no
  process, counts as a live owner's, and is never taken over (`disk_clone.py:1087`).
* When the event sink, the update of the pid, the transition to cloning or the wait for the
  provider raises, the run ends as failed_provider, takes the target offline and releases both
  locks while the provider still writes (`disk_clone.py:849`, `:1707-1712`, `:1758-1766`); another
  run can then start a second one. Such a provider, like that of a process that died more than
  twelve hours ago, is "unattended" in the properties.
* When the revalidation after `set_online` does not find the target, the result has no target
  any more and the `finally` of `execute` leaves it online without a failed clean-up
  (`disk_clone.py:1764`; `brought = "lost"`).
* `reconcile_interrupted` of one process marks the old row of another that still lives and has
  no provider yet; that one overwrites the state when it goes on (`disk_clone.py:1466`). The rows are read first and
  written later (`:1464`, `:1471`): a run that failed, was retried or succeeded in between is called
  "interrupted" all the same.
* `retry_run_id` is written after the whole retry (`disk_clone.py:1812`): meanwhile, and for
  ever if that process ends, the window offers a retry that will be rejected. A retry that
  starts right after the failure was recorded can still meet the lock of its parent; it is
  then blocked, and the one retry is used up.
* A confirmation that could not be stored leaves the countdown window open with the controller
  confirmed; a later Cancel closes it and is answered "confirm" (`disk_clone_ui.py:90`, `:271`).
  An exception of a tick leaves a hidden window open for ever. Requests of the actions cancel
  and preflight are stored and never read (`disk_clone.py:1960`). With two runs in their
  countdown a window asks for the newest active run, which may be the other (`:1973`).
* Enrollment takes the disk offline before its last check; when that refuses, the disk stays
  offline (`cli.py:952`). Enrolling asks for an enabled configuration, enabling for an enrollment
  (`cli.py:824`, `disk_clone.py:2021`).

Offline and assisted clone:

* `docs/disk-clone-offline.md:61` gives the states "pending -> running -> result -> consumed, with
  failed as a terminal fail-closed state", and `RETURN_TRANSITIONS` no way out of consumed. A second
  `consume` with its default profile "simulation" of a production result fails a consumed channel
  (`offline_runtime.py:1487`).
* A second runner that is refused fails the channel while the first one's engine runs; the result
  of the first can then not be published (`offline_runtime.py:1656`). A result whose verification
  succeeded while the target is not known to be offline is published as a failure that
  `validate_semantics` rejects (`offline_runtime.py:1695`, `offline_clone.py:916`). A runner that is
  cut off leaves "running", which `recover` does not touch without a package (`:1475`). So does one
  whose engine failed while `channel.json` could not be read, since `status` then answers "pending",
  or written (`:1402`, `:1735`).
* `docs/diskgenius-normal-clone.md:29`: "A failed partial target requires fresh inspection and a new
  owner-started session." No operation records an inspection, and `failed_partial` bars every later
  launch (`diskgenius_assisted.py:234`).
* The check before the overwriting cannot be repeated after its two minutes: it asks for the state
  "launched" (`diskgenius_assisted.py:303`), which a test named
  `test_revalidation_expiry_returns_owner_to_the_identity_check` does not go on to. "clone_in_progress"
  is never written. A migration that leaves the same layout as before can never be verified.
* "Verified" is structural (`diskgenius_assisted.py:447`, `:581`): if DiskGenius is closed while it writes
  and the owner attests the end, a half-written target whose partitions and boot files are there
  already is verified, and does not bar the next launch.

Vault:

* Mail older than the first import is never fetched when that import was limited (the command line
  suggests `--max-messages 1`, `cli.py:417`) or came from Takeout: the newest mail of the index takes
  the place of the watermark (`gmail_api.py:241`). Hence `partial` in the properties.
* A mail that Takeout brought and whose file is gone is fetched again, but its row is not: `INSERT OR
  IGNORE` ignores it, `lastrowid` is that of the mail before, and that mail gets the text and
  attachments of this one (`gmail_api.py:123`).
* A rename gives every file a new name each time: the name is made free before it is compared
  (`gmail_maintenance.py:33`). It takes no vault lock (`cli.py:349`), and files are moved before the rows
  are committed. A failed run counts items that were rolled back (`cli.py:147`).
* `POST /actions/delete-file` unlinks the file and deletes its rows in a later transaction
  (`vault_index.py:108-115`): when an import holds the database for a minute, or the viewer ends, the
  index lists a file that is gone until the next clean-up. A clean-up deletes by id a row whose file
  was missing when it looked (`:92-96`), though an import may have given it a new file since.
* One failed move keeps the archives of a run from being imported, and the next run passes over them as
  already there (`auto_takeout.py:50`); a daily backup brings them.
* A file imported between the plan of a replica and its lock is listed by the index in the replica and is
  not among its files, and the run says "completed" (`cli.py:554`). A run that is cut off while it copies
  leaves files that no manifest lists (`replica.py:203`), and so does one that cannot read the last
  manifest and plans as if there had been none (`:129`, `:340-345`). A rename beside a replica puts a new
  name into the index that is copied, which the replica has not (`gmail_maintenance.py:38-40`,
  `replica.py:174`); that run says "completed" as well. An error of SQLite while the snapshot is taken
  is not caught with the other errors of an item (`replica.py:174`, `:199`). Plans are cut off at 10,000
  items, restores at 1,000 by default, and still say "completed" (`replica.py:148`, `restore.py:123`).
* A restore replaces the target before it verifies it and reports at its end (`restore.py:175-186`): content
  that changed in between stays in the folder, and if the restore is cut off nothing tells of it.

## The proofs

The theorems hold for any sets of jobs, volumes, recoveries, installers, workers, runs, imports,
monitors and runners and any values of the bounds. Each module proves, for an inductive invariant, that
it holds initially and that every action keeps it, one lemma or case per action and one step per
conjunct that the action can disturb; the properties follow from it, the action properties from it and
the action.

Data clone:

* `VssTypeCorrect`, `JournalIsComplete`, `SuccessIsWhole`: type and journal of the
  helper alone, and that it reports success of the whole set. The strengthening says
  what the journal holds at each stage: from "registered" on it names all volumes,
  before that and after clearing there is no snapshot.
* `TypeCorrect`, `AllSnapshotsJournaled`: the same for the composed system.
* `RecordOwned`: a worker past its claim, and a recovery that cleans up, own
  record and lock. `NoneForgotten`: a claim replaces a finished job only.
* `BoundaryHolds`: `Spec` implements `CloneBoundary`.
* `SourceReadable`, `SnapshotsTended`, `CompleteTrue`, `ErasureTold`: a worker that reads the
  source has its whole set, what it leaves is offered for recovery unless it was killed at
  one of two places, "complete" is true, an erasure that was recorded is not called "failed" or
  "blocked", and "cancelled" never hides one.
* `AcceptedCancelHolds`: as long as one job was drawn, a cancellation accepted before
  the preparation keeps the target as it is.
* `ConfirmedUnlessKilled`: a confirmed clean-up left nothing, unless the worker of that
  job was killed.

The inductive invariant `CloneInv` of `DataCloneProofs` adds to the types:
processes and records name known jobs (`JobsKnown`); a worker between its lock
and its release, and a recovery between its own, hold `worker.lock`, so there is
at most one of them (`LockHolders`, `LockNames`); and while the worker decides,
its mutex is held by it, and from "publish" on the event is not set
(`BoundaryGuarded`). `RecordIsOwned` alone is not inductive: that nobody else
writes the record follows from who can hold the lock. The step lemmas go by
process: what a worker, its script, a recovery and the app may move, then one
case per action.

`Sound` adds what is told of the target (`Told`). A helper runs only while its worker
waits for it or was killed, and from the reading of the journal to the clean-up all
snapshots are there (`HelperSupervised`). The record confirms a clean-up only of a set
that the worker, or a recovery that knows its identifiers, has deleted (`CleanUpTold`).
That snapshots are offered is not inductive, since a claim could replace the record that
offers them and a helper could make them later: a record that asks for a recovery also
forbids a new job, a worker between its announcement and its clean-up has a record that
says so, and the offer is made for live helpers too (`OfferTold`).
Each place of the worker fixes what the script has done and what the record admits
(`PlaceTold`, `ScriptTold`, `RecordTold`): `ErasureIsTold` is about the end of a job, and
holds there because a worker that leaves with a cancellation has not started the script
or has recorded what it did. And an accepted cancellation is in the event, or there is no
worker yet and a launch that would start one still reads the flag (`Heard`), as long as
no older job can clear it (`OneLaunch`).

Installer (`RuntimeInstallProofs`): `InstallerTypeCorrect`, `UsableIsWhole`, `SuccessComplete`, `WholeAndOwn`,
`TrustedRuntimeKept`, `BundleImplemented`: every safety property, and the refinement of `RuntimeBundle`.

`InstallInv` has three parts. A running installer holds
the mutex, so a step of one finds no other at work (`MutexHeld`). What a journal
goes back to is one build, and without a journal that is what is installed
(`JournalSound`). And for each place of the script, what has been achieved there
(`Stage`): which files a roll-back has restored, which backups are gone, that a
tidying installer has either a committed build or the previous one in place, and
that nobody gets past the check of the runtime while the files may be mixed.
`WholeWhenUsable` alone is not inductive, since deleting the journal preserves it
only because of what happened on the way there.

Scheduled clone (`CloneServiceProofs`): the type and all properties of the run, part by part.
`OneLiveRunGuarded` is not inductive, since it says nothing of the files. `HeldInv` ties the lock files to the
processes: a file is of a process that is gone, that is writing it, or that holds it, and a guarded run holds
the backup lock. `GuardInv` says that, as long as nothing was stolen, the clone lock is that of the guarded run;
a take-over keeps it because what may be unlinked has no live owner. `FreshInv` is the same within the first
twelve hours, without take-overs, for the backup lock. `AttendInv` says that a running provider has the clone
lock of its run in place or is unattended, which with `RowInv` (a lock file is no older than the row of its
owner) gives `OneProvider`, and `DeadInv` that a clone lock is taken over from the dead only. `ProviderInv`,
`OnlineInv` and `SucceedInv` say for each place of `execute` what the provider did and who answers for a target
that is online.

Control (`CloneControlProofs`): the type and all properties of the run. `RowInv` says that a
row with a parent is the only retry of a run that has failed, and that the row of such a run says "failed", or
"interrupted" by a reconciliation; `WorkerInv` that a worker in its window or at work has a row of its own that no other worker ends:
only a reconciliation writes it too, and only "interrupted"; `RequestInv` and `MonitorInv` count claims and
owners.

Offline clone (`OfflineReturnProofs`): the type and all properties of the run but liveness. `NonceInv` ties the
engine to the nonce, `BlockInv` keeps runners before the claim from those who started it, `TruthInv` says
that a success that was seen, published or told is good, and stays so since nobody else can start an engine,
and `ChannelInv` who holds the lock of the channel and what is on the medium at each step of publication.

Assisted clone (`AssistedCloneProofs`): the type and all properties of the run. The session that wrote is the
last one and not settled, or was verified (`WrittenInv`); a target that is half written has such a session, or one
that was broken off and verified by mistake (`PartialInv`, `BrokenInv`); layouts have changed since the launch exactly where it wrote
(`LayoutInv`), which is why a mistaken attestation never verifies the work of an earlier session; and, unless
raced, the numbers are those of the launch wherever they are used (`NumberInv`).

Disk selection (`DiskSelectionProofs`): the type and all properties of the run, for any identities, disks and
changes. `EnrolledIsPicked` is not inductive, since the identity is looked up again between the checks:
`ChoiceIsPicked` says that what is carried on is the identity of the disk picked or answers to it, which needs
that answering can be composed (`MatchesChain`). `PlannedAnswers` is the same for the number a run uses, and the
vault is spared because identifiers that single out one disk, and not the target, cannot have been read from the
target (`VaultElsewhere`). `SuccessStructural` is about `GreedyMatch`, a recursive function over the partitions,
which the theorem takes apart by a well-founded minimum: there is a least place of the source at which the claim
would fail, and the match takes it back to the next. So success means a one-to-one correspondence for layouts of
every length, not only those of the run.

Vault (`VaultProofs`): all properties of both runs but liveness. For the imports `MailInv` says, beside the
types, who may have uncommitted rows, and that the clean-ups only take rows away (`Transactions`); that the
files of committed and uncommitted rows are kept (`AllKept`), without which a commit could not be shown to keep
`IndexedIsKept`; and where the watermark stands (`Watermark`). That no mail is forgotten is not inductive, since
a whole backup raises the mark only at its end: `Saving` says during it that what is neither saved nor on the
list came after the list, and is not older than what was saved by more than the overlap. For the copies
`CopiesInv` says what a command knows at each place: its walk has found the files of the vault but those under
names that came since (`Found`), what is no longer to do is copied (`Copied`), and, while one replica at a time
runs, none was cut off and each could read the manifest, the old manifest and the plan account for all the
replica holds (`Accounted`). `RestoreInv` adds that plans are of indexed contents and that a target about to be
written has no file of the owner's (`Spared`).

These invariants were checked before they were proved: `Sound` on the instances of `clone_crash` and
`clone_two_jobs`, `SelectionInv`, `MailInv`, `CopiesInv` and `RestoreInv` on those of their runs.

Assumptions, each named where its constants are declared and evaluated by a run: volumes are finitely many and
at least one (`VolumesAssumption`); a recovery is not a job (`ProcessAssumption`), names of processes differ and
none is "nobody", "nothing" or "unlocked" (`ProcessesDiffer`, `NobodyIsNoProcess`, `NothingAssumption`,
`NobodyIsNoRunner`, `UnlockedIsNoCommand`); system and vault disk are disks, no disk is "nothing", a blank field
is no identity, and a layout is a sequence of partitions (`DisksKnown`, `NothingIsNoDisk`, `BlankIsNoIdentity`,
`LayoutsArePartitions`); mail has a date from 1 on and the archive holds items (`DatesAreDays`,
`ArchiveOfItems`, `NothingIsNoMail`); bounds are numbers and flags are flags. No theorem fixes how large a set
or a bound is.

Only model-checked: liveness, which is out of the prover's reach: `HelperEnds`, `AppReturns`, `WorkerEnds`,
`InstallerEnds`, `RunningEnds` and `EveryMailIsSaved`. Every other property of every run is stated by a theorem.

## What is left

1. The control panel, which starts one command at a time and reads its log.
2. A run of `CloneService` in which the configuration leaves the target online; the theorems cover it.

Not modelled, and why:

* The pages of `viewer.py` and its start of commands in the background, `health.py`, `reports.py` but for the
  status of a run, `gmail_audit.py`, `recovery.py`, `verify.py`: they read and report. The viewer's routes that
  change the vault or the index are in `MailArchive`, those of the clone in `DataClone`.
* `config.py`, the arguments of `cli.py`, `scheduler.py` (the text of a scheduled task), dry runs, `auth.py`.
* `clonezilla_artifacts.py`, the validators of `offline_runtime.py`, `offline_linux_inventory.py`: functions of
  files and device lists to a verdict, without state of their own.
* The limits on items of a replica or restore: far above any instance TLC can check; what they do is told
  above. Leftover staging folders, which the next plan reports and nothing removes.
* `migrations.py` and the search of `db.py`: declarative.
