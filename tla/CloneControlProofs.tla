-------------------------- MODULE CloneControlProofs ------------------------
(***************************************************************************)
(* The safety properties of CloneControl, for any number of workers,        *)
(* monitor windows, runs, requests and crashes.                             *)
(***************************************************************************)
EXTENDS CloneControl, FiniteSetTheorems, TLAPS

Active == {"window", "answer", "work"}
Executing == {"child", "begin", "reconcile"}
AtWork == Open \cup {"interrupted"}
Busy(row) == row.state \in AtWork /\ ~row.failed

Rows == [state : {"none"} \cup Open \cup Terminal, parent : 0..MaxRuns, child : 0..MaxRuns,
         failed : BOOLEAN]
Processes == [pc : {"gone", "claim", "parent", "child", "begin", "reconcile", "window", "answer",
                    "work", "record"},
              req : 0..MaxRequests, parent : 0..MaxRuns, listed : SUBSET Runs, run : 0..MaxRuns,
              confirmed : BOOLEAN, pressed : {"nothing", "cancel"}, unstored : BOOLEAN]

(* A retry that exists is the only one of a failed run, and the run that    *)
(* names a retry names that one.                                            *)
IsRow(x, rows) == x \in Runs /\ rows[x].state # "none"
IsRetry(y, x, rows) == IsRow(y, rows) /\ rows[y].parent = x
RowsSound(rows) ==
  /\ \A x, y \in Runs : rows[x].parent # 0 /\ IsRetry(x, rows[y].parent, rows) /\ IsRow(y, rows)
                          => x = y
  /\ \A x \in Runs : IsRow(x, rows) /\ rows[x].parent # 0
       => rows[x].parent \in Runs /\ rows[rows[x].parent].failed
  /\ \A x \in Runs : IsRow(x, rows) /\ rows[x].child # 0 => IsRetry(rows[x].child, x, rows)
  /\ \A x \in Runs : /\ rows[x].failed => rows[x].state \in {"failed", "interrupted"}
                     /\ rows[x].state = "failed" => rows[x].failed

(* What a worker has read of the rows is still so when it acts on it; a     *)
(* countdown window that is confirmed and still there could not store it.   *)
Sound(q, rows) ==
  /\ q.pc = "gone" => q = Gone
  /\ q.pc = "claim" => q.req \in Requests
  /\ q.pc = "parent" => q.parent \in Runs
  /\ q.pc \in Executing /\ q.parent # 0 => q.parent \in Runs /\ rows[q.parent].failed
  /\ q.pc = "reconcile" => \A x \in q.listed : IsRow(x, rows)
  /\ q.pc \in Active => IsRetry(q.run, q.parent, rows) /\ Busy(rows[q.run])
  /\ q.pc = "record" => q.parent \in Runs /\ IsRetry(q.run, q.parent, rows)
  /\ q.pc \in {"claim", "parent"} \cup Executing => ~q.confirmed
  /\ q.confirmed /\ (q.pc = "window" \/ q.pressed = "cancel") => q.unstored

RowInv == run \in [Runs -> Rows] /\ RowsSound(run)

(* Only the worker of a run ends it.                                        *)
WorkerInv ==
  /\ worker \in [Workers -> Processes]
  /\ \A w \in Workers : Sound(worker[w], run)
  /\ \A v, w \in Workers :
       worker[v].pc \in Active /\ worker[w].pc \in Active /\ worker[v].run = worker[w].run => v = w

(* A request that is open has not been claimed; afterwards it stays closed. *)
RequestInv ==
  /\ request \in [Requests -> [run : 0..MaxRuns, open : BOOLEAN]]
  /\ taken \in [Requests -> Nat]
  /\ \A r \in Requests :
       /\ request[r].open => request[r].run \in Runs
       /\ request[r].run = 0 \/ request[r].open => taken[r] = 0
       /\ taken[r] \in {0, 1}

(* A monitor that shows a run is the owner of that run.                     *)
MonitorInv ==
  /\ owner \in [Runs -> Monitors \cup {Nobody}]
  /\ monitor \in [Monitors -> [window : {"unopened", "open", "closed"},
                               run : 0..MaxRuns, button : BOOLEAN]]
  /\ \A m \in Monitors :
       monitor[m].run # 0 => monitor[m].run \in Runs /\ owner[monitor[m].run] = m

CrashInv == crashes \in 0..MaxCrashes

Inv == RowInv /\ WorkerInv /\ RequestInv /\ MonitorInv /\ CrashInv

(* Init establishes the invariant.                                          *)
LEMMA InitInv == Init => Inv
<1> SUFFICES ASSUME Init PROVE Inv
  OBVIOUS
<1> USE BoundsAreNatural
<1>1. NoRow \in Rows
  BY DEF NoRow, Rows
<1>2. Gone \in Processes
  BY DEF Gone, Processes
<1>3. RowInv
  BY <1>1 DEF Init, RowInv, RowsSound, IsRow, IsRetry, NoRow
<1>4. WorkerInv
  BY <1>2 DEF Init, WorkerInv, Sound, Gone, Active, Executing
<1>5. RequestInv /\ MonitorInv /\ CrashInv
  BY DEF Init, RequestInv, MonitorInv, CrashInv, Unopened
<1> QED
  BY <1>3, <1>4, <1>5 DEF Inv

----------------------------------------------------------------------------
(* The changes of the rows.                                                 *)

(* Rows are not deleted, keep their parent, and one that failed has failed. *)
Grown(old, new) ==
  \A x \in Runs : IsRow(x, old)
    => /\ IsRow(x, new) /\ new[x].parent = old[x].parent
       /\ old[x].failed => new[x].failed

(* A row is given a state.                                                  *)
LEMMA StateIsSet ==
  ASSUME NEW rows \in [Runs -> Rows], RowsSound(rows), NEW x \in Runs, IsRow(x, rows),
         NEW new \in [Runs -> Rows], \A y \in Runs : y # x => new[y] = rows[y],
         new[x].parent = rows[x].parent, new[x].child = rows[x].child, IsRow(x, new),
         rows[x].failed => new[x].failed,
         new[x].failed => new[x].state \in {"failed", "interrupted"},
         new[x].state = "failed" => new[x].failed
  PROVE  RowsSound(new) /\ Grown(rows, new)
<1>1. \A y \in Runs : /\ new[y].parent = rows[y].parent /\ new[y].child = rows[y].child
                     /\ (IsRow(y, new) <=> IsRow(y, rows))
                     /\ (rows[y].failed => new[y].failed)
  BY DEF IsRow
<1>2. Grown(rows, new)
  BY <1>1 DEF Grown, IsRow
<1>3. RowsSound(new)
  BY <1>1 DEF RowsSound, IsRetry, IsRow
<1> QED
  BY <1>2, <1>3

(* A run is inserted, for a failed one only if that has no retry.           *)
LEMMA RowIsInserted ==
  ASSUME NEW rows \in [Runs -> Rows], RowsSound(rows), NEW x \in Runs, rows[x].state = "none",
         NEW p \in 0..MaxRuns,
         p # 0 => p \in Runs /\ rows[p].failed /\ \A y \in Runs : ~IsRetry(y, p, rows)
  PROVE  LET new == [rows EXCEPT ![x] = [NoRow EXCEPT !.state = "countdown", !.parent = p]]
         IN /\ new \in [Runs -> Rows] /\ RowsSound(new) /\ Grown(rows, new)
            /\ IsRetry(x, p, new) /\ Busy(new[x])
            /\ \A y \in Runs : y # x => new[y] = rows[y]
<1> DEFINE new == [rows EXCEPT ![x] = [NoRow EXCEPT !.state = "countdown", !.parent = p]]
<1>1. new \in [Runs -> Rows]
  <2>1. NoRow \in Rows /\ "countdown" \in {"none"} \cup Open \cup Terminal
    BY BoundsAreNatural DEF Rows, Open, NoRow
  <2>2. [NoRow EXCEPT !.state = "countdown", !.parent = p] \in Rows
    BY <2>1 DEF Rows
  <2> QED
    BY <2>2
<1>2. /\ new[x].state = "countdown" /\ new[x].parent = p /\ new[x].child = 0 /\ ~new[x].failed
      /\ \A y \in Runs : y # x => new[y] = rows[y]
  BY DEF NoRow
<1> HIDE DEF new
<1>3. IsRow(x, new) /\ ~IsRow(x, rows) /\ \A y \in Runs : y # x => (IsRow(y, new) <=> IsRow(y, rows))
  BY <1>2 DEF IsRow
<1>4. Grown(rows, new)
  BY <1>2, <1>3 DEF Grown
<1>5. RowsSound(new)
  <2>1. ASSUME NEW y \in Runs, NEW z \in Runs, new[y].parent # 0,
               IsRetry(y, new[z].parent, new), IsRow(z, new)
        PROVE  y = z
    <3>1. CASE y # x /\ z # x
      BY <1>2, <1>3, <2>1, <3>1 DEF RowsSound, IsRetry
    <3>2. CASE y = x /\ z # x
      BY <1>2, <1>3, <2>1, <3>2 DEF IsRetry
    <3>3. CASE y # x /\ z = x
      BY <1>2, <1>3, <2>1, <3>3 DEF IsRetry
    <3> QED
      BY <3>1, <3>2, <3>3
  <2>2. ASSUME NEW y \in Runs, IsRow(y, new), new[y].parent # 0
        PROVE  new[y].parent \in Runs /\ new[new[y].parent].failed
    <3>1. CASE y # x
      BY <1>2, <1>3, <2>2, <3>1 DEF RowsSound
    <3>2. CASE y = x
      BY <1>2, <1>3, <2>2, <3>2 DEF RowsSound
    <3> QED
      BY <3>1, <3>2
  <2>3. ASSUME NEW y \in Runs, IsRow(y, new), new[y].child # 0 PROVE IsRetry(new[y].child, y, new)
    <3>1. y # x /\ IsRetry(rows[y].child, y, rows) /\ new[y].child = rows[y].child
      BY <1>2, <1>3, <2>3 DEF RowsSound
    <3> QED
      BY <1>2, <3>1 DEF IsRetry, IsRow
  <2>4. \A y \in Runs : /\ (new[y].failed => new[y].state \in {"failed", "interrupted"})
                       /\ (new[y].state = "failed" => new[y].failed)
    BY <1>2 DEF RowsSound
  <2> QED
    BY <2>1, <2>2, <2>3, <2>4 DEF RowsSound
<1>6. Busy(new[x])
  BY <1>2 DEF Busy, AtWork, Open
<1> QED
  BY <1>1, <1>2, <1>3, <1>4, <1>5, <1>6 DEF new, IsRetry

(* A run names its retry.                                                   *)
LEMMA ChildIsNamed ==
  ASSUME NEW rows \in [Runs -> Rows], RowsSound(rows), NEW p \in Runs, NEW c \in Runs,
         IsRetry(c, p, rows), NEW new \in [Runs -> Rows], new[p].child = c,
         \A x \in Runs : /\ new[x].state = rows[x].state /\ new[x].parent = rows[x].parent
                        /\ new[x].failed = rows[x].failed,
         \A x \in Runs : x # p => new[x].child = rows[x].child
  PROVE  RowsSound(new) /\ Grown(rows, new)
<1>1. \A x, y : IsRetry(y, x, new) <=> IsRetry(y, x, rows)
  BY DEF IsRetry, IsRow
<1>2. \A x : IsRow(x, new) <=> IsRow(x, rows)
  BY DEF IsRow
<1> QED
  BY <1>1, <1>2 DEF RowsSound, Grown, IsRow

----------------------------------------------------------------------------
(* One process moves while the rows grow.                                   *)

LEMMA SoundStays ==
  ASSUME NEW old \in [Runs -> Rows], NEW new \in [Runs -> Rows], Grown(old, new),
         RowsSound(old), NEW q \in Processes, Sound(q, old),
         q.pc \in Active => Busy(new[q.run])
  PROVE  Sound(q, new)
<1>1. \A x, y : IsRetry(y, x, old) => IsRetry(y, x, new)
  BY DEF Grown, IsRetry, IsRow
<1>2. \A x \in Runs : old[x].failed => new[x].failed
  BY DEF Grown, RowsSound, IsRow
<1>3. \A x \in Runs : IsRow(x, old) => IsRow(x, new)
  BY DEF Grown
<1> QED
  BY <1>1, <1>2, <1>3 DEF Sound, Processes

LEMMA MoveKeeps ==
  ASSUME RowInv, WorkerInv, run' \in [Runs -> Rows], Grown(run, run'),
         NEW w \in Workers, NEW q \in Processes, Sound(q, run'),
         worker' = [worker EXCEPT ![w] = q],
         \A v \in Workers : v # w /\ worker[v].pc \in Active
           => Busy(run'[worker[v].run]) /\ (q.pc \in Active => worker[v].run # q.run)
  PROVE  WorkerInv'
<1> USE DEF WorkerInv
<1>1. worker' \in [Workers -> Processes] /\ worker'[w] = q
      /\ \A v \in Workers : v # w => worker'[v] = worker[v]
  OBVIOUS
<1>2. \A v \in Workers : Sound(worker'[v], run')
  <2> TAKE v \in Workers
  <2>1. CASE v = w
    BY <1>1, <2>1
  <2>2. CASE v # w
    BY <1>1, <2>2, SoundStays DEF RowInv
  <2> QED
    BY <2>1, <2>2
<1> QED
  BY <1>1, <1>2

(* When the rows stay the process is at work on the run it had.             *)
LEMMA StepWithinRun ==
  ASSUME RowInv, WorkerInv, UNCHANGED run, NEW w \in Workers, NEW q \in Processes, Sound(q, run),
         worker' = [worker EXCEPT ![w] = q],
         q.pc \in Active => worker[w].pc \in Active /\ q.run = worker[w].run
  PROVE  RowInv' /\ WorkerInv'
<1>1. Grown(run, run') /\ run' = run
  BY DEF Grown
<1>2. ASSUME NEW v \in Workers, v # w, worker[v].pc \in Active
      PROVE  Busy(run[worker[v].run]) /\ (q.pc \in Active => worker[v].run # q.run)
    BY <1>2 DEF WorkerInv, Sound
<1>3. run' \in [Runs -> Rows] /\ Sound(q, run')
  BY <1>1 DEF RowInv
<1>4. \A v \in Workers : v # w /\ worker[v].pc \in Active
        => Busy(run'[worker[v].run]) /\ (q.pc \in Active => worker[v].run # q.run)
  BY <1>1, <1>2
<1>5. WorkerInv'
  BY <1>1, <1>3, <1>4, MoveKeeps
<1> QED
  BY <1>1, <1>5 DEF RowInv

(* Nothing is forgotten of a process by forgetting it.                      *)
LEMMA GoneIsSound == Gone \in Processes /\ (\A rows : Sound(Gone, rows)) /\ Gone.pc = "gone"
BY BoundsAreNatural DEF Gone, Processes, Sound, Active, Executing

LEMMA GoesKeeps ==
  ASSUME RowInv, WorkerInv, UNCHANGED run, NEW w \in Workers, Set(w, Gone)
  PROVE  RowInv' /\ WorkerInv'
BY GoneIsSound, StepWithinRun DEF Set, Active

----------------------------------------------------------------------------
(* The monitor windows and the requests.                                    *)

LEMMA MonitorOpensKeeps ==
  ASSUME Inv, NEW m \in Monitors, NEW x \in Runs, MonitorOpens(m, x) PROVE Inv'
<1> USE DEF Inv
<1>1. /\ ~\E n \in Monitors : owner[x] = n /\ monitor[n].run = x
      /\ owner' = [owner EXCEPT ![x] = m]
      /\ monitor' = [monitor EXCEPT ![m] = [window |-> "open", run |-> x, button |-> FALSE]]
      /\ UNCHANGED <<run, request, worker, crashes, taken>>
  BY DEF MonitorOpens
<1>2. x \in 0..MaxRuns
  BY BoundsAreNatural DEF Runs
<1>3. MonitorInv'
  BY <1>1, <1>2 DEF MonitorInv
<1> QED
  BY <1>1, <1>3 DEF RowInv, WorkerInv, RequestInv, CrashInv

LEMMA PollKeeps ==
  ASSUME Inv, NEW m \in Monitors, Poll(m) PROVE Inv'
<1> USE DEF Inv
<1>1. PICK button \in Offered(monitor[m].run) : monitor' = [monitor EXCEPT ![m].button = button]
  BY DEF Poll
<1>2. button \in BOOLEAN
  BY <1>1 DEF Offered
<1>3. UNCHANGED <<run, request, owner, worker, crashes, taken>>
  BY DEF Poll
<1>4. MonitorInv'
  BY <1>1, <1>2, <1>3 DEF MonitorInv
<1> QED
  BY <1>3, <1>4 DEF RowInv, WorkerInv, RequestInv, CrashInv

LEMMA MonitorClosesKeeps ==
  ASSUME Inv, NEW m \in Monitors, MonitorCloses(m) PROVE Inv'
<1> USE DEF Inv
<1> DEFINE x == monitor[m].run
<1>1. /\ x # 0 /\ monitor' = [monitor EXCEPT ![m] = Closed]
      /\ owner' = IF owner[x] = m THEN [owner EXCEPT ![x] = Nobody] ELSE owner
      /\ UNCHANGED <<run, request, worker, crashes, taken>>
  BY DEF MonitorCloses
<1>2. x \in Runs /\ owner[x] = m
  BY <1>1 DEF MonitorInv
<1> DEFINE Windows == [window : {"unopened", "open", "closed"}, run : 0..MaxRuns, button : BOOLEAN]
<1>0. 0 \in 0..MaxRuns
  BY BoundsAreNatural
<1>7. Unopened \in Windows /\ Unopened.run = 0
  BY <1>0 DEF Unopened
<1>3. Closed \in [window : {"unopened", "open", "closed"}, run : 0..MaxRuns, button : BOOLEAN]
      /\ Closed.run = 0
  BY <1>7 DEF Closed
<1>4. \A n \in Monitors : n # m => monitor'[n] = monitor[n]
  BY <1>1 DEF MonitorInv
<1>5. monitor'[m].run = 0 /\ \A y \in Runs : y # x => owner'[y] = owner[y]
  BY <1>1, <1>3 DEF MonitorInv
<1>6. MonitorInv'
  <2>1. owner' \in [Runs -> Monitors \cup {Nobody}]
    BY <1>1, <1>2 DEF MonitorInv
  <2>2. monitor' \in [Monitors -> [window : {"unopened", "open", "closed"},
                                  run : 0..MaxRuns, button : BOOLEAN]]
    BY <1>1, <1>3 DEF MonitorInv
  <2>3. ASSUME NEW n \in Monitors, monitor'[n].run # 0
        PROVE  monitor'[n].run \in Runs /\ owner'[monitor'[n].run] = n
    BY <1>2, <1>4, <1>5, <2>3 DEF MonitorInv
  <2> QED
    BY <2>1, <2>2, <2>3 DEF MonitorInv
<1> QED
  BY <1>1, <1>6 DEF RowInv, WorkerInv, RequestInv, CrashInv

LEMMA RetryKeeps ==
  ASSUME Inv, NEW m \in Monitors, Retry(m) PROVE Inv'
<1> USE DEF Inv
<1> DEFINE x == monitor[m].run
<1>1. x \in Runs /\ UNCHANGED <<run, owner, monitor, crashes>> /\ UNCHANGED taken
  BY DEF Retry, MonitorInv
<1>2. PICK r \in RequestFor(x) :
        /\ request' = [request EXCEPT ![r] = [run |-> x, open |-> TRUE]]
        /\ \/ \E w \in Workers : worker[w] = Gone /\ Set(w, [Gone EXCEPT !.pc = "claim", !.req = r])
           \/ UNCHANGED worker
  BY DEF Retry
<1>3. r \in Requests /\ taken[r] = 0
  BY <1>2 DEF RequestFor, RequestInv
<1>4. x \in 0..MaxRuns /\ r \in 0..MaxRequests
  BY <1>1, <1>3, BoundsAreNatural DEF Runs, Requests
<1>5. RequestInv'
  BY <1>1, <1>2, <1>3, <1>4 DEF RequestInv
<1>6. RowInv' /\ WorkerInv'
  <2>1. CASE UNCHANGED worker
    BY <1>1, <2>1 DEF RowInv, WorkerInv
  <2>2. ASSUME NEW w \in Workers, Set(w, [Gone EXCEPT !.pc = "claim", !.req = r])
        PROVE  RowInv' /\ WorkerInv'
    <3> DEFINE q == [Gone EXCEPT !.pc = "claim", !.req = r]
    <3>0. q.pc = "claim" /\ q.req = r /\ q.confirmed = FALSE
      BY DEF Gone
    <3>1. q \in Processes /\ q.pc = "claim" /\ Sound(q, run)
      <4>1. q \in Processes
        BY <1>4, GoneIsSound DEF Processes
      <4> QED
        BY <1>3, <3>0, <4>1 DEF Sound, Active, Executing
    <3> HIDE DEF q
    <3>2. worker' = [worker EXCEPT ![w] = q]
      BY <2>2 DEF Set, q
    <3> QED
      BY <1>1, <3>1, <3>2, StepWithinRun DEF Active
  <2> QED
    BY <1>2, <2>1, <2>2
<1> QED
  BY <1>1, <1>5, <1>6 DEF MonitorInv, CrashInv

LEMMA ClaimKeeps ==
  ASSUME Inv, NEW w \in Workers, Claim(w) PROVE Inv'
<1> USE DEF Inv
<1> DEFINE r == worker[w].req
           q == [worker[w] EXCEPT !.pc = "parent", !.req = 0, !.parent = request[r].run]
<1>1. worker[w].pc = "claim" /\ UNCHANGED run /\ UNCHANGED <<owner, monitor, crashes>>
  BY DEF Claim
<1>2. r \in Requests /\ worker[w] \in Processes /\ Sound(worker[w], run)
  BY <1>1 DEF WorkerInv, Sound
<1>3. CASE ~request[r].open
  <2>1. Set(w, Gone) /\ UNCHANGED <<request, taken>>
    BY <1>3 DEF Claim
  <2>2. RowInv' /\ WorkerInv'
    BY <1>1, <2>1, GoesKeeps
  <2> QED
    BY <1>1, <2>1, <2>2 DEF RequestInv, MonitorInv, CrashInv
<1>4. CASE request[r].open
  <2>1. /\ request' = [request EXCEPT ![r].open = FALSE]
        /\ taken' = [taken EXCEPT ![r] = taken[r] + 1] /\ Set(w, q)
    BY <1>4 DEF Claim
  <2>2. request[r].run \in Runs /\ taken[r] = 0
    BY <1>2, <1>4 DEF RequestInv
  <2>3. RequestInv'
    <3>0. taken' \in [Requests -> Nat] /\ taken'[r] = 1
      BY <1>2, <2>1, <2>2 DEF RequestInv
    <3>1. /\ request' \in [Requests -> [run : 0..MaxRuns, open : BOOLEAN]]
          /\ request'[r].run \in Runs /\ ~request'[r].open
      BY <1>2, <2>1, <2>2 DEF RequestInv
    <3>2. \A y \in Requests : y # r => request'[y] = request[y] /\ taken'[y] = taken[y]
      BY <1>2, <2>1 DEF RequestInv
    <3> QED
      BY <1>2, <3>0, <3>1, <3>2 DEF RequestInv, Runs
  <2>4. q \in Processes /\ Sound(q, run) /\ q.pc = "parent"
    <3>3. 0 \in 0..MaxRequests /\ request[r].run \in 0..MaxRuns
      BY <2>2, BoundsAreNatural DEF Runs
    <3>1. q \in Processes
      BY <1>2, <3>3 DEF Processes
    <3>2. /\ q.pc = "parent" /\ q.parent \in Runs /\ q.confirmed = worker[w].confirmed
          /\ q.pressed = worker[w].pressed /\ q.unstored = worker[w].unstored
      BY <1>2, <2>2 DEF Processes
    <3> HIDE DEF q
    <3> QED
      BY <1>1, <1>2, <3>1, <3>2 DEF Sound, Active, Executing
  <2> HIDE DEF q
  <2>5. RowInv' /\ WorkerInv'
    BY <1>1, <2>1, <2>4, StepWithinRun DEF Set, Active
  <2> QED
    BY <1>1, <2>3, <2>5 DEF MonitorInv, CrashInv
<1> QED
  BY <1>3, <1>4

----------------------------------------------------------------------------
(* The worker of a retry and its run.                                       *)

others == <<request, owner, monitor, crashes, taken>>

LEMMA OthersKeep ==
  ASSUME Inv, RowInv', WorkerInv', UNCHANGED others PROVE Inv'
BY DEF Inv, others, RequestInv, MonitorInv, CrashInv

LEMMA ReadParentKeeps ==
  ASSUME Inv, NEW w \in Workers, ReadParent(w) PROVE Inv'
<1> DEFINE q == [worker[w] EXCEPT !.pc = "child"]
<1>1. worker[w].pc = "parent" /\ UNCHANGED run /\ UNCHANGED others
  BY DEF ReadParent, others
<1>2. worker[w] \in Processes /\ Sound(worker[w], run)
  BY DEF Inv, WorkerInv
<1>3. CASE Set(w, Gone)
  BY <1>1, <1>3, GoesKeeps, OthersKeep DEF Inv
<1>4. CASE Set(w, q) /\ run[worker[w].parent].state \in Retryable
  <2>1. q \in Processes
    BY <1>2 DEF Processes
  <2>2. /\ q.pc = "child" /\ q.parent = worker[w].parent /\ q.confirmed = worker[w].confirmed
        /\ q.pressed = worker[w].pressed /\ q.unstored = worker[w].unstored
    BY <1>2 DEF Processes
  <2> HIDE DEF q
  <2>3. Sound(q, run)
    BY <1>1, <1>2, <1>4, <2>2 DEF Sound, Active, Executing, Retryable, RowInv, RowsSound,
       Inv
  <2> QED
    BY <1>1, <1>4, <2>1, <2>2, <2>3, StepWithinRun, OthersKeep DEF Inv, Set, Active
<1> QED
  BY <1>3, <1>4 DEF ReadParent

LEMMA ReadChildKeeps ==
  ASSUME Inv, NEW w \in Workers, ReadChild(w) PROVE Inv'
<1> DEFINE q == [worker[w] EXCEPT !.pc = "begin"]
<1>1. worker[w].pc = "child" /\ UNCHANGED run /\ UNCHANGED others
  BY DEF ReadChild, others
<1>2. worker[w] \in Processes /\ Sound(worker[w], run)
  BY DEF Inv, WorkerInv
<1>3. CASE Set(w, Gone)
  BY <1>1, <1>3, GoesKeeps, OthersKeep DEF Inv
<1>4. CASE Set(w, q)
  <2>1. q \in Processes
    BY <1>2 DEF Processes
  <2>2. /\ q.pc = "begin" /\ q.parent = worker[w].parent /\ q.confirmed = worker[w].confirmed
        /\ q.pressed = worker[w].pressed /\ q.unstored = worker[w].unstored
    BY <1>2 DEF Processes
  <2> HIDE DEF q
  <2>3. Sound(q, run)
    BY <1>1, <1>2, <2>2 DEF Sound, Active, Executing
  <2> QED
    BY <1>1, <1>4, <2>1, <2>2, <2>3, StepWithinRun, OthersKeep DEF Inv, Set, Active
<1> QED
  BY <1>3, <1>4 DEF ReadChild

(* What becomes of a window within its run.                                 *)
LEMMA WindowMoveKeeps ==
  ASSUME Inv, NEW w \in Workers, worker[w].pc = "window", UNCHANGED run, UNCHANGED others,
         NEW to \in {"window", "answer"}, NEW confirmed \in BOOLEAN, NEW unstored \in BOOLEAN,
         NEW pressed \in {"nothing", "cancel"},
         confirmed /\ (to = "window" \/ pressed = "cancel") => unstored,
         Set(w, [worker[w] EXCEPT !.pc = to, !.confirmed = confirmed, !.unstored = unstored,
                                  !.pressed = pressed])
  PROVE  Inv'
<1> DEFINE q == [worker[w] EXCEPT !.pc = to, !.confirmed = confirmed, !.unstored = unstored,
                                  !.pressed = pressed]
<1>1. worker[w] \in Processes /\ Sound(worker[w], run)
  BY DEF Inv, WorkerInv
<1>2. q \in Processes
  BY <1>1 DEF Processes
<1>3. /\ q.pc = to /\ q.parent = worker[w].parent /\ q.run = worker[w].run
      /\ q.confirmed = confirmed /\ q.pressed = pressed /\ q.unstored = unstored
  BY <1>1 DEF Processes
<1> HIDE DEF q
<1>4. Sound(q, run)
  BY <1>1, <1>3 DEF Sound, Active, Executing
<1>5. Set(w, q)
  BY DEF q
<1> QED
  BY <1>2, <1>3, <1>4, <1>5, StepWithinRun, OthersKeep DEF Inv, Set, Active

LEMMA WindowKeeps ==
  ASSUME Inv, NEW w \in Workers, Window(w) PROVE Inv'
<1> DEFINE p == worker[w]
<1>1. p \in Processes /\ Sound(p, run)
  BY DEF Inv, WorkerInv
<1>2. p.confirmed \in BOOLEAN /\ p.unstored \in BOOLEAN /\ p.pressed \in {"nothing", "cancel"}
  BY <1>1 DEF Processes
<1>3. CASE WindowConfirms(w)
  <2>1. PICK stored \in BOOLEAN :
          Set(w, [worker[w] EXCEPT !.confirmed = TRUE, !.unstored = ~stored,
                                   !.pc = IF stored THEN "answer" ELSE "window"])
    BY <1>3 DEF WindowConfirms
  <2> DEFINE to == IF stored THEN "answer" ELSE "window"
  <2>2. p.pc = "window" /\ p.pressed = "nothing" /\ UNCHANGED run /\ UNCHANGED others
    BY <1>3 DEF WindowConfirms, others
  <2>3. Set(w, [worker[w] EXCEPT !.pc = to, !.confirmed = TRUE, !.unstored = ~stored,
                                 !.pressed = "nothing"])
    BY <1>1, <2>1, <2>2 DEF Set, Processes
  <2>4. to \in {"window", "answer"} /\ (to = "window" => ~stored) /\ (~stored) \in BOOLEAN
    OBVIOUS
  <2> HIDE DEF to
  <2> QED
    BY <2>2, <2>3, <2>4, WindowMoveKeeps
<1>4. CASE WindowCancels(w)
  <2>1. PICK stored \in BOOLEAN :
          Set(w, [worker[w] EXCEPT !.pressed = "cancel", !.pc = IF stored THEN "answer" ELSE "window"])
    BY <1>4 DEF WindowCancels
  <2> DEFINE to == IF stored THEN "answer" ELSE "window"
  <2>2. p.pc = "window" /\ UNCHANGED run /\ UNCHANGED others
    BY <1>4 DEF WindowCancels, others
  <2>3. Set(w, [worker[w] EXCEPT !.pc = to, !.confirmed = p.confirmed, !.unstored = p.unstored,
                                 !.pressed = "cancel"])
    BY <1>1, <2>1 DEF Set, Processes
  <2>4. to \in {"window", "answer"} /\ (p.confirmed => p.unstored)
    BY <1>1, <2>2 DEF Sound
  <2> HIDE DEF to
  <2> QED
    BY <1>2, <2>2, <2>3, <2>4, WindowMoveKeeps
<1>5. CASE WindowCloses(w)
  <2>2. p.pc = "window" /\ UNCHANGED run /\ UNCHANGED others
    BY <1>5 DEF WindowCloses, others
  <2>3. Set(w, [worker[w] EXCEPT !.pc = "answer", !.confirmed = p.confirmed, !.unstored = p.unstored,
                                 !.pressed = p.pressed])
    BY <1>1, <1>5 DEF WindowCloses, Set, Processes
  <2>4. p.confirmed => p.unstored
    BY <1>1, <2>2 DEF Sound
  <2> QED
    BY <1>2, <2>2, <2>3, <2>4, WindowMoveKeeps
<1> QED
  BY <1>3, <1>4, <1>5 DEF Window

(* The others are at work on other runs.                                    *)
LEMMA OthersAtWork ==
  ASSUME WorkerInv, NEW w \in Workers, worker[w].pc \in Active, NEW v \in Workers, v # w,
         worker[v].pc \in Active
  PROVE  /\ worker[v].run \in Runs /\ worker[v].run # worker[w].run
         /\ Busy(run[worker[v].run])
BY DEF WorkerInv, Sound, IsRetry, IsRow

LEMMA EndKeeps ==
  ASSUME Inv, NEW w \in Workers, worker[w].pc \in Active, NEW state \in Terminal,
         End(w, state), UNCHANGED others
  PROVE  Inv'
<1> USE DEF Inv
<1> DEFINE x == worker[w].run
           q == IF worker[w].parent = 0 THEN Gone
                ELSE [Gone EXCEPT !.pc = "record", !.parent = worker[w].parent, !.run = worker[w].run]
<1>1. /\ run' = [run EXCEPT ![x].state = state, ![x].failed = state = "failed"]
      /\ worker' = [worker EXCEPT ![w] = q]
  BY DEF End, Set
<1>2. worker[w] \in Processes /\ Sound(worker[w], run)
  BY DEF WorkerInv
<1>3. x \in Runs /\ Busy(run[x]) /\ IsRetry(x, worker[w].parent, run)
  BY <1>2 DEF Sound, IsRetry, IsRow
<1>4. /\ run' \in [Runs -> Rows] /\ RowsSound(run') /\ Grown(run, run')
      /\ \A y \in Runs : y # x => run'[y] = run[y]
  <2>1. /\ run' \in [Runs -> Rows] /\ \A y \in Runs : y # x => run'[y] = run[y]
        /\ run'[x].parent = run[x].parent /\ run'[x].child = run[x].child
        /\ run'[x].state = state /\ run'[x].failed = (state = "failed")
    <3> HIDE DEF x
    <3> QED
      BY <1>1, <1>3 DEF RowInv, Rows
  <2>2. ~run[x].failed /\ IsRow(x, run) /\ IsRow(x, run')
    BY <1>3, <2>1 DEF Busy, IsRetry, IsRow, Terminal
  <2> QED
    BY <2>1, <2>2, StateIsSet DEF RowInv, IsRow
<1>5. q \in Processes /\ Sound(q, run') /\ q.pc \notin Active
  <2>1. CASE worker[w].parent = 0
    BY <2>1, GoneIsSound DEF Active
  <2>2. CASE worker[w].parent # 0
    <3>1. q = [Gone EXCEPT !.pc = "record", !.parent = worker[w].parent, !.run = worker[w].run]
      BY <2>2
    <3>2. worker[w].parent \in Runs
      BY <1>3, <2>2 DEF RowInv, RowsSound, IsRetry
    <3>3. worker[w].parent \in 0..MaxRuns /\ worker[w].run \in 0..MaxRuns
      BY <1>2 DEF Processes
    <3>4. q \in Processes
      BY <3>1, <3>3, GoneIsSound DEF Processes
    <3>5. q.pc = "record" /\ q.parent = worker[w].parent /\ q.run = x /\ q.confirmed = FALSE
      BY <3>1 DEF Gone
    <3>6. IsRetry(x, worker[w].parent, run')
      BY <1>3, <1>4 DEF Grown, IsRetry
    <3> HIDE DEF q, x
    <3> QED
      BY <3>2, <3>4, <3>5, <3>6 DEF Sound, Active, Executing
  <2> QED
    BY <2>1, <2>2
<1>6. \A v \in Workers : v # w /\ worker[v].pc \in Active => Busy(run'[worker[v].run])
  BY <1>4, OthersAtWork
<1> HIDE DEF q
<1>7. WorkerInv'
  BY <1>1, <1>4, <1>5, <1>6, MoveKeeps
<1> QED
  BY <1>4, <1>7, OthersKeep DEF RowInv

LEMMA PreflightKeeps ==
  ASSUME Inv, NEW w \in Workers, Preflight(w) PROVE Inv'
BY EndKeeps DEF Preflight, Active, Terminal, others

LEMMA WorkKeeps ==
  ASSUME Inv, NEW w \in Workers, Work(w) PROVE Inv'
<1>1. PICK state \in {"failed", "ended"} : End(w, state)
  BY DEF Work
<1> QED
  BY <1>1, EndKeeps DEF Work, Active, Terminal, others

LEMMA AnswerKeeps ==
  ASSUME Inv, NEW w \in Workers, Answer(w) PROVE Inv'
<1> USE DEF Inv
<1>1. worker[w].pc = "answer" /\ UNCHANGED others
  BY DEF Answer, others
<1>2. CASE End(w, "cancelled")
  BY <1>1, <1>2, EndKeeps DEF Active, Terminal
<1>3. CASE /\ run' = [run EXCEPT ![worker[w].run].state = "working"]
           /\ Set(w, [worker[w] EXCEPT !.pc = "work"])
  <2> DEFINE x == worker[w].run
             q == [worker[w] EXCEPT !.pc = "work"]
  <2>1. worker[w] \in Processes /\ Sound(worker[w], run)
    BY DEF WorkerInv
  <2>2. x \in Runs /\ Busy(run[x]) /\ IsRetry(x, worker[w].parent, run)
    BY <1>1, <2>1 DEF Sound, IsRetry, IsRow, Active, Executing
  <2>3. /\ run' \in [Runs -> Rows] /\ RowsSound(run') /\ Grown(run, run')
        /\ Busy(run'[x]) /\ \A y \in Runs : y # x => run'[y] = run[y]
    <3>1. /\ run' \in [Runs -> Rows] /\ \A y \in Runs : y # x => run'[y] = run[y]
          /\ run'[x].parent = run[x].parent /\ run'[x].child = run[x].child
          /\ run'[x].state = "working" /\ run'[x].failed = run[x].failed
      <4> HIDE DEF x
      <4>1. run' = [run EXCEPT ![x].state = "working"]
        BY <1>3 DEF x
      <4> QED
        BY <2>2, <4>1 DEF RowInv, Rows, Open
    <3>2. ~run[x].failed /\ IsRow(x, run) /\ IsRow(x, run')
      BY <2>2, <3>1 DEF Busy, IsRetry, IsRow
    <3>3. Busy(run'[x])
      BY <3>1, <3>2 DEF Busy, AtWork, Open
    <3> QED
      BY <2>2, <3>1, <3>2, <3>3, StateIsSet DEF RowInv, IsRow
  <2>4. q \in Processes
    BY <2>1 DEF Processes
  <2>5. /\ q.pc = "work" /\ q.parent = worker[w].parent /\ q.run = x
        /\ q.confirmed = worker[w].confirmed /\ q.pressed = worker[w].pressed
        /\ q.unstored = worker[w].unstored
    BY <2>1 DEF Processes
  <2>6. worker' = [worker EXCEPT ![w] = q]
    BY <1>3 DEF Set
  <2>7. IsRetry(x, worker[w].parent, run')
    BY <2>2, <2>3 DEF Grown, IsRetry
  <2> HIDE DEF q
  <2>8. Sound(q, run')
    BY <1>1, <2>1, <2>3, <2>5, <2>7 DEF Sound, Active, Executing
  <2>9. \A v \in Workers : v # w /\ worker[v].pc \in Active
          => Busy(run'[worker[v].run]) /\ (q.pc \in Active => worker[v].run # q.run)
    BY <1>1, <2>3, <2>5, OthersAtWork DEF Active
  <2>10. WorkerInv'
    BY <2>3, <2>4, <2>6, <2>8, <2>9, MoveKeeps
  <2> QED
    BY <1>1, <2>3, <2>10, OthersKeep DEF RowInv
<1> QED
  BY <1>2, <1>3 DEF Answer

LEMMA RecordKeeps ==
  ASSUME Inv, NEW w \in Workers, Record(w) PROVE Inv'
<1> USE DEF Inv
<1> DEFINE p == worker[w].parent
<1>1. worker[w].pc = "record" /\ UNCHANGED others /\ worker' = [worker EXCEPT ![w] = Gone]
  BY DEF Record, others, Set
<1>2. p \in Runs /\ IsRetry(worker[w].run, p, run)
  BY <1>1 DEF WorkerInv, Sound
<1>3. CASE run' = run
  BY <1>1, <1>3, GoesKeeps, OthersKeep DEF Set
<1>4. CASE run' = [run EXCEPT ![p].child = worker[w].run]
  <2>1. /\ run' \in [Runs -> Rows] /\ RowsSound(run') /\ Grown(run, run')
        /\ \A x \in Runs : run'[x].state = run[x].state /\ run'[x].failed = run[x].failed
    <3>1. run \in [Runs -> Rows] /\ RowsSound(run)
      BY DEF RowInv
    <3> DEFINE c == worker[w].run
    <3> HIDE DEF p, c
    <3>2. run' = [run EXCEPT ![p].child = c]
      BY <1>4 DEF p, c
    <3>3. p \in Runs /\ c \in Runs /\ IsRetry(c, p, run)
      BY <1>2 DEF c, IsRetry, IsRow
    <3>4. c \in 0..MaxRuns
      BY <3>3, BoundsAreNatural DEF Runs
    <3>5. /\ run' \in [Runs -> Rows] /\ run'[p].child = c
          /\ \A x \in Runs : /\ run'[x].state = run[x].state /\ run'[x].parent = run[x].parent
                             /\ run'[x].failed = run[x].failed
          /\ \A x \in Runs : x # p => run'[x].child = run[x].child
      BY <3>1, <3>2, <3>3, <3>4 DEF Rows
    <3> QED
      BY <3>1, <3>3, <3>5, ChildIsNamed
  <2>2. \A v \in Workers : worker[v].pc \in Active => Busy(run'[worker[v].run])
    BY <2>1 DEF WorkerInv, Sound, IsRetry, IsRow, Busy
  <2>3. WorkerInv'
    BY <1>1, <2>1, <2>2, GoneIsSound, MoveKeeps DEF Active
  <2> QED
    BY <1>1, <2>1, <2>3, OthersKeep DEF RowInv
<1> QED
  BY <1>3, <1>4 DEF Record

LEMMA BeginExecuteKeeps ==
  ASSUME Inv, NEW w \in Workers, BeginExecute(w) PROVE Inv'
<1> USE DEF Inv
<1>1. UNCHANGED run /\ UNCHANGED others /\ (worker[w].pc = "begin" \/ worker[w] = Gone)
  BY DEF BeginExecute, others
<1>2. worker[w] \in Processes /\ Sound(worker[w], run)
  BY DEF WorkerInv
<1>3. CASE Set(w, Gone)
  BY <1>1, <1>3, GoesKeeps, OthersKeep
<1>4. ASSUME NEW old \in SUBSET {x \in Runs : run[x].state \in Open},
             Set(w, [worker[w] EXCEPT !.pc = "reconcile", !.listed = old])
      PROVE  Inv'
  <2> DEFINE q == [worker[w] EXCEPT !.pc = "reconcile", !.listed = old]
  <2>1. q \in Processes
    BY <1>2 DEF Processes
  <2>2. /\ q.pc = "reconcile" /\ q.parent = worker[w].parent /\ q.listed = old
        /\ q.confirmed = worker[w].confirmed /\ q.pressed = worker[w].pressed
        /\ q.unstored = worker[w].unstored
    BY <1>2 DEF Processes
  <2>3. \A x \in old : IsRow(x, run)
    BY DEF IsRow, Open
  <2>4. ~worker[w].confirmed
    BY <1>1, <1>2 DEF Sound, Executing, Gone
  <2>5. worker[w].parent # 0 => worker[w].parent \in Runs /\ run[worker[w].parent].failed
    BY <1>1, <1>2 DEF Sound, Executing, Gone
  <2> HIDE DEF q
  <2>6. Sound(q, run)
    BY <2>2, <2>3, <2>4, <2>5 DEF Sound, Active, Executing
  <2>7. Set(w, q)
    BY <1>4 DEF q
  <2> QED
    BY <1>1, <2>1, <2>2, <2>6, <2>7, StepWithinRun, OthersKeep DEF Set, Active
<1> QED
  BY <1>3, <1>4 DEF BeginExecute

(* A row that is read as open may say anything when it is overwritten; that *)
(* its run failed is not undone.                                            *)
LEMMA ReconcileRowKeeps ==
  ASSUME Inv, NEW w \in Workers, ReconcileRow(w) PROVE Inv'
<1> USE DEF Inv
<1>1. worker[w].pc = "reconcile" /\ UNCHANGED others
  BY DEF ReconcileRow, others
<1>2. worker[w] \in Processes /\ Sound(worker[w], run)
  BY DEF WorkerInv
<1>3. PICK x \in worker[w].listed :
        /\ run' = [run EXCEPT ![x].state = "interrupted"]
        /\ \E left \in {worker[w].listed, worker[w].listed \ {x}} :
             Set(w, [worker[w] EXCEPT !.listed = left])
  BY DEF ReconcileRow
<1>14. PICK left \in SUBSET worker[w].listed : Set(w, [worker[w] EXCEPT !.listed = left])
  BY <1>3
<1>4. IsRow(x, run) /\ x \in Runs
  BY <1>1, <1>2, <1>3 DEF Sound, IsRow
<1>5. /\ run' \in [Runs -> Rows] /\ \A y \in Runs : y # x => run'[y] = run[y]
      /\ run'[x].parent = run[x].parent /\ run'[x].child = run[x].child
      /\ run'[x].state = "interrupted" /\ run'[x].failed = run[x].failed
  BY <1>3, <1>4 DEF RowInv, Rows, Terminal
<1>6. RowsSound(run') /\ Grown(run, run')
  BY <1>4, <1>5, StateIsSet DEF RowInv, IsRow
<1>7. \A v \in Workers : worker[v].pc \in Active => Busy(run'[worker[v].run])
  <2> TAKE v \in Workers
  <2> HAVE worker[v].pc \in Active
  <2>1. Busy(run[worker[v].run]) /\ worker[v].run \in Runs
    BY DEF WorkerInv, Sound, IsRetry, IsRow
  <2> QED
    BY <1>5, <2>1 DEF Busy, AtWork
<1> DEFINE q == [worker[w] EXCEPT !.listed = left]
<1>8. q \in Processes
  BY <1>2, <1>14 DEF Processes
<1>9. /\ q.pc = "reconcile" /\ q.parent = worker[w].parent /\ q.listed \subseteq worker[w].listed
      /\ q.confirmed = worker[w].confirmed /\ q.pressed = worker[w].pressed
      /\ q.unstored = worker[w].unstored
  BY <1>1, <1>2, <1>14 DEF Processes
<1> HIDE DEF q
<1>10. Sound(q, run)
  BY <1>1, <1>2, <1>9 DEF Sound, Active, Executing
<1>11. Sound(q, run')
  BY <1>5, <1>6, <1>8, <1>9, <1>10, SoundStays DEF RowInv, Active
<1>12. worker' = [worker EXCEPT ![w] = q]
  BY <1>14 DEF Set, q
<1>13. WorkerInv'
  BY <1>5, <1>6, <1>7, <1>8, <1>9, <1>11, <1>12, MoveKeeps DEF Active
<1> QED
  BY <1>1, <1>5, <1>6, <1>13, OthersKeep DEF RowInv

LEMMA InsertKeeps ==
  ASSUME Inv, NEW w \in Workers, Insert(w) PROVE Inv'
<1> USE DEF Inv
<1> DEFINE p == worker[w].parent
<1>1. UNCHANGED others /\ worker[w].pc = "reconcile"
  BY DEF Insert, others
<1>2. worker[w] \in Processes /\ Sound(worker[w], run)
  BY DEF WorkerInv
<1>3. CASE p # 0 /\ RetriesOf(p) # {}
  BY <1>1, <1>3, GoesKeeps, OthersKeep DEF Insert
<1>4. CASE ~(p # 0 /\ RetriesOf(p) # {})
  <2>1. PICK x \in Fresh :
          /\ run' = [run EXCEPT ![x] = [NoRow EXCEPT !.state = "countdown", !.parent = p]]
          /\ Set(w, [worker[w] EXCEPT !.pc = "window", !.run = x])
    BY <1>4 DEF Insert
  <2> DEFINE q == [worker[w] EXCEPT !.pc = "window", !.run = x]
  <2>2. x \in Runs /\ run[x].state = "none" /\ p \in 0..MaxRuns
    BY <1>2 DEF Fresh, Processes
  <2>3. p # 0 => p \in Runs /\ run[p].failed /\ \A y \in Runs : ~IsRetry(y, p, run)
    BY <1>1, <1>2, <1>4 DEF Sound, Executing, RetriesOf, IsRetry, IsRow
  <2>4. /\ run' \in [Runs -> Rows] /\ RowsSound(run') /\ Grown(run, run')
        /\ IsRetry(x, p, run') /\ Busy(run'[x])
        /\ \A y \in Runs : y # x => run'[y] = run[y]
    <3> HIDE DEF p
    <3>1. run' = [run EXCEPT ![x] = [NoRow EXCEPT !.state = "countdown", !.parent = p]]
      BY <2>1
    <3> QED
      BY <2>2, <2>3, <3>1, RowIsInserted DEF RowInv
  <2>5. q \in Processes
    <3>1. x \in 0..MaxRuns
      BY <2>2, BoundsAreNatural DEF Runs
    <3> QED
      BY <1>2, <3>1 DEF Processes
  <2>6. /\ q.pc = "window" /\ q.parent = p /\ q.run = x /\ q.confirmed = worker[w].confirmed
        /\ q.pressed = worker[w].pressed /\ q.unstored = worker[w].unstored
    BY <1>2 DEF Processes
  <2>7. ~worker[w].confirmed
    BY <1>1, <1>2 DEF Sound, Executing
  <2>8. worker' = [worker EXCEPT ![w] = q]
    BY <2>1 DEF Set
  <2> HIDE DEF q
  <2>9. Sound(q, run')
    BY <2>4, <2>6, <2>7 DEF Sound, Active, Executing
  <2>10. \A v \in Workers : v # w /\ worker[v].pc \in Active
           => Busy(run'[worker[v].run]) /\ (q.pc \in Active => worker[v].run # q.run)
    <3> TAKE v \in Workers
    <3> HAVE v # w /\ worker[v].pc \in Active
    <3>1. Busy(run[worker[v].run]) /\ IsRow(worker[v].run, run)
      BY DEF WorkerInv, Sound, IsRetry
    <3> QED
      BY <2>2, <2>4, <2>6, <3>1 DEF IsRow
  <2>11. WorkerInv'
    BY <2>4, <2>5, <2>8, <2>9, <2>10, MoveKeeps
  <2> QED
    BY <1>1, <2>4, <2>11, OthersKeep DEF RowInv
<1> QED
  BY <1>3, <1>4

LEMMA CrashKeeps ==
  ASSUME Inv, Crash PROVE Inv'
<1> USE DEF Inv
<1>1. crashes' = crashes + 1 /\ crashes < MaxCrashes /\ UNCHANGED <<run, request, owner, taken>>
  BY DEF Crash
<1>2. CrashInv'
  BY <1>1, BoundsAreNatural DEF CrashInv
<1>3. RequestInv'
  BY <1>1 DEF RequestInv
<1>4. CASE \E w \in Workers : Set(w, Gone) /\ UNCHANGED monitor
  <2>1. RowInv' /\ WorkerInv'
    BY <1>1, <1>4, GoesKeeps
  <2>2. MonitorInv'
    BY <1>1, <1>4 DEF MonitorInv
  <2> QED
    BY <1>2, <1>3, <2>1, <2>2
<1>5. ASSUME NEW m \in Monitors, monitor' = [monitor EXCEPT ![m] = Closed], UNCHANGED worker
      PROVE  Inv'
  <2>1. 0 \in 0..MaxRuns
    BY BoundsAreNatural
  <2>2. Unopened \in [window : {"unopened", "open", "closed"}, run : 0..MaxRuns, button : BOOLEAN]
        /\ Unopened.run = 0
    BY <2>1 DEF Unopened
  <2>3. Closed \in [window : {"unopened", "open", "closed"}, run : 0..MaxRuns, button : BOOLEAN]
        /\ Closed.run = 0
    BY <2>2 DEF Closed
  <2>4. MonitorInv'
    BY <1>1, <1>5, <2>3 DEF MonitorInv
  <2> QED
    BY <1>1, <1>2, <1>3, <1>5, <2>4 DEF RowInv, WorkerInv
<1> QED
  BY <1>4, <1>5 DEF Crash

----------------------------------------------------------------------------
LEMMA WorkerKeeps ==
  ASSUME Inv, NEW w \in Workers, Worker(w) PROVE Inv'
BY ClaimKeeps, ReadParentKeeps, ReadChildKeeps, BeginExecuteKeeps, ReconcileRowKeeps,
   InsertKeeps, PreflightKeeps, WindowKeeps, AnswerKeeps,
  WorkKeeps, RecordKeeps DEF Worker

LEMMA StepKeeps == Inv /\ [Next]_vars => Inv'
<1> SUFFICES ASSUME Inv, [Next]_vars PROVE Inv'
  OBVIOUS
<1>1. CASE UNCHANGED vars
  BY <1>1 DEF vars, Inv, RowInv, WorkerInv, RequestInv, MonitorInv, CrashInv
<1>2. ASSUME NEW w \in Workers, Worker(w) PROVE Inv'
  BY <1>2, WorkerKeeps
<1>3. ASSUME NEW m \in Monitors, Monitor(m) PROVE Inv'
  BY <1>3, MonitorOpensKeeps, PollKeeps, RetryKeeps, MonitorClosesKeeps DEF Monitor
<1>4. CASE Crash
  BY <1>4, CrashKeeps
<1> QED
  BY <1>1, <1>2, <1>3, <1>4 DEF Next

LEMMA AlwaysInv == Spec => []Inv
BY InitInv, StepKeeps, PTL DEF Spec

(* The rows, the requests and what the processes hold of them keep their    *)
(* types, and who is at work has a row (db.py:120-175).                     *)
THEOREM ControlTypeCorrect == Spec => []TypeOK
<1>1. Inv => TypeOK
  <2> SUFFICES ASSUME Inv PROVE TypeOK
    OBVIOUS
  <2>1. \A w \in Workers : worker[w].pc \in {"window", "answer", "work"} => worker[w].run # 0
    BY DEF Inv, WorkerInv, Sound, Active, Executing, IsRetry, IsRow, Runs
  <2> QED
    BY <2>1 DEF Inv, TypeOK, RowInv, WorkerInv, RequestInv, MonitorInv, CrashInv, Rows,
       Processes
<1> QED
  BY <1>1, AlwaysInv, PTL

(* However many buttons, workers and processes race for it, a failed run    *)
(* has one retry: the parent is checked without the insert, but the index   *)
(* refuses the second row.                                                  *)
THEOREM OneRetry == Spec => []OneRetryPerParent
<1>1. Inv => OneRetryPerParent
  <2> SUFFICES ASSUME Inv, NEW x \in Runs PROVE Cardinality(RetriesOf(x)) <= 1
    BY DEF OneRetryPerParent
  <2>1. \A y, z \in RetriesOf(x) : y = z
    BY DEF Inv, RowInv, RowsSound, RetriesOf, IsRetry, IsRow, Runs
  <2>2. CASE RetriesOf(x) = {}
    BY <2>2, FS_EmptySet
  <2>3. CASE RetriesOf(x) # {}
    <3>1. PICK y : y \in RetriesOf(x)
      BY <2>3
    <3>2. RetriesOf(x) = {y}
      BY <2>1, <3>1
    <3>3. Cardinality({y}) = 1
      BY FS_Singleton
    <3> QED
      BY <3>2, <3>3
  <2> QED
    BY <2>2, <2>3
<1> QED
  BY <1>1, AlwaysInv, PTL

(* What is retried has failed: its row said so, and afterwards nothing but   *)
(* a reconciliation that had read it before writes to it.                   *)
THEOREM RetriedHasFailed == Spec => []RetryOfFailed
<1>1. Inv => RetryOfFailed
  BY DEF Inv, RowInv, RowsSound, RetryOfFailed, Known, IsRow
<1> QED
  BY <1>1, AlwaysInv, PTL

(* The retry a run names is its own, though it is named only after it has   *)
(* ended.                                                                   *)
THEOREM NamedIsRetry == Spec => []ChildIsRetry
<1>1. Inv => ChildIsRetry
  BY DEF Inv, RowInv, RowsSound, ChildIsRetry, Known, IsRow, IsRetry, RetriesOf
<1> QED
  BY <1>1, AlwaysInv, PTL

(* Duplicate clicks are inert: an open request has never been claimed.      *)
THEOREM RequestsOnce == Spec => []ClaimedOnce
<1>1. Inv => ClaimedOnce
  BY DEF Inv, RequestInv, ClaimedOnce
<1> QED
  BY <1>1, AlwaysInv, PTL

(* Two windows of one run would both be its owner.                          *)
THEOREM OneMonitor == Spec => []OneMonitorPerRun
<1>1. Inv => OneMonitorPerRun
  BY DEF Inv, MonitorInv, OneMonitorPerRun
<1> QED
  BY <1>1, AlwaysInv, PTL

(* A step of one process is none of another.                                *)
LEMMA OwnStep ==
  ASSUME Inv, NEW v \in Workers, Worker(v), NEW w \in Workers, v # w
  PROVE  worker'[w] = worker[w]
<1>0. worker \in [Workers -> Processes]
  BY DEF Inv, WorkerInv
<1> USE <1>0 DEF Set, End
<1>1. CASE Claim(v) \/ ReadParent(v) \/ ReadChild(v)
  BY <1>1 DEF Claim, ReadParent, ReadChild
<1>2. CASE BeginExecute(v) \/ ReconcileRow(v) \/ Insert(v)
  BY <1>2 DEF BeginExecute, ReconcileRow, Insert
<1>3. CASE Preflight(v) \/ Work(v) \/ Record(v)
  BY <1>3 DEF Preflight, Work, Record
<1>4. CASE Window(v)
  BY <1>4 DEF Window, WindowConfirms, WindowCancels, WindowCloses
<1>5. CASE Answer(v)
  BY <1>5 DEF Answer
<1> QED
  BY <1>1, <1>2, <1>3, <1>4, <1>5 DEF Worker

LEMMA CancelSteps ==
  ASSUME Inv, [Next]_vars, NEW w \in Workers, worker[w].pc = "answer", worker'[w].pc # "answer",
         crashes' = crashes, worker[w].pressed = "cancel", ~worker[w].unstored
  PROVE  run'[worker[w].run].state = "cancelled"
<1> USE DEF Inv
<1>1. Next
  BY DEF vars
<1>2. ~Crash
  BY DEF Crash, CrashInv
<1>3. ASSUME NEW m \in Monitors, Monitor(m) PROVE FALSE
  <2>1. CASE Retry(m)
    <3>1. \E r \in RequestFor(monitor[m].run) :
            \/ \E v \in Workers : worker[v] = Gone /\ Set(v, [Gone EXCEPT !.pc = "claim", !.req = r])
            \/ UNCHANGED worker
      BY <2>1 DEF Retry
    <3>2. worker[w] # Gone
      BY DEF Gone
    <3> QED
      BY <3>1, <3>2 DEF Set, WorkerInv
  <2> QED
    BY <1>3, <2>1 DEF Monitor, MonitorOpens, Poll, MonitorCloses
<1>4. Worker(w)
  BY <1>1, <1>2, <1>3, OwnStep DEF Next
<1>5. Answer(w)
  <2>1. worker[w] # Gone
    BY DEF Gone
  <2>2. ~BeginExecute(w) /\ ~ReconcileRow(w) /\ ~Insert(w)
    BY <2>1 DEF BeginExecute, ReconcileRow, Insert
  <2>3. ~Claim(w) /\ ~ReadParent(w) /\ ~ReadChild(w)
    BY DEF Claim, ReadParent, ReadChild
  <2>4. ~Preflight(w) /\ ~Work(w) /\ ~Record(w)
    BY DEF Preflight, Work, Record
  <2>5. ~Window(w)
    BY DEF Window, WindowConfirms, WindowCancels, WindowCloses
  <2> QED
    BY <1>4, <2>2, <2>3, <2>4, <2>5 DEF Worker
<1>6. ~worker[w].confirmed
  BY DEF WorkerInv, Sound
<1>7. run' = [run EXCEPT ![worker[w].run].state = "cancelled"]
  BY <1>5, <1>6 DEF Answer, End
<1>8. worker[w].run \in Runs /\ run \in [Runs -> Rows]
  BY DEF WorkerInv, Sound, Active, Executing, IsRetry, IsRow, RowInv
<1> QED
  BY <1>7, <1>8 DEF Rows

(* Cancel is obeyed unless an earlier confirmation could not be stored:     *)
(* only such a window is still there when Cancel can be pressed.            *)
THEOREM CancelObeyed == Spec => CancelIsHonoured
<1>1. Inv /\ [Next]_vars =>
        [\A w \in Workers :
           (worker[w].pc = "answer" /\ worker'[w].pc # "answer" /\ crashes' = crashes
              /\ worker[w].pressed = "cancel" /\ ~worker[w].unstored)
             => run'[worker[w].run].state = "cancelled"]_vars
  BY CancelSteps
<1> QED
  BY <1>1, AlwaysInv, PTL DEF Spec, CancelIsHonoured

(* One retry, of a failure, named by the run it retries.                    *)
THEOREM RetriesSound == Spec => []RetriesAreSound
BY OneRetry, RetriedHasFailed, NamedIsRetry, PTL DEF RetriesAreSound

(* One claim for a request and one window for a run.                        *)
THEOREM OneClaimOneWindow == Spec => []OneOfEach
BY RequestsOnce, OneMonitor, PTL DEF OneOfEach
=============================================================================
