----------------------------- MODULE CloneControl ---------------------------
(***************************************************************************)
(* How a clone run is started, confirmed and retried by processes that      *)
(* share only the rows of the database: the workers (callers of             *)
(* CloneService.execute and the retry workers), each with its countdown     *)
(* window, and the monitor windows, from which a failed run is retried.     *)
(* What a run does between the window's answer and its end is the module    *)
(* CloneService.                                                            *)
(***************************************************************************)
EXTENDS Integers, FiniteSets

CONSTANTS
  Workers, Monitors,  \* processes
  MaxRuns,            \* rows of disk_clone_runs (bound of the model)
  MaxScheduled,       \* those that are no retry (bound of the model)
  MaxRequests,        \* rows of disk_clone_controls (bound of the model)
  MaxCrashes          \* processes that end anywhere (bound of the model)

ASSUME BoundsAreNatural ==
  MaxRuns \in Nat /\ MaxScheduled \in Nat /\ MaxRequests \in Nat /\ MaxCrashes \in Nat

Runs == 1..MaxRuns
Requests == 1..MaxRequests

VARIABLES
  run,     \* disk_clone_runs: its state, its parent and its retry_run_id;
           \* history: failed, whether it ever said so
  request, \* disk_clone_controls of action retry: the run, and whether unhandled
  owner,   \* disk_clone_monitor_owners
  worker,  \* the processes that execute a run
  monitor, \* the monitor windows, each opened once: the run, the Retry button
  crashes, \* processes ended so far
  taken    \* history: how often a request was claimed

vars == <<run, request, owner, worker, monitor, crashes, taken>>

NoRow == [state |-> "none", parent |-> 0, child |-> 0, failed |-> FALSE]
Gone == [pc |-> "gone", req |-> 0, parent |-> 0, listed |-> {}, run |-> 0, confirmed |-> FALSE,
         pressed |-> "nothing", unstored |-> FALSE]
Unopened == [window |-> "unopened", run |-> 0, button |-> FALSE]
Closed == [Unopened EXCEPT !.window = "closed"]
Nobody == "nobody"

Open == {"countdown", "working"}
Retryable == {"failed"}
Terminal == {"failed", "ended", "cancelled", "interrupted"}

TypeOK ==
  /\ run \in [Runs -> [state : {"none"} \cup Open \cup Terminal,
                       parent : 0..MaxRuns, child : 0..MaxRuns, failed : BOOLEAN]]
  /\ request \in [Requests -> [run : 0..MaxRuns, open : BOOLEAN]]
  /\ owner \in [Runs -> Monitors \cup {Nobody}]
  /\ worker \in [Workers -> [pc : {"gone", "claim", "parent", "child", "begin", "reconcile",
                                  "window", "answer", "work", "record"},
                            req : 0..MaxRequests, parent : 0..MaxRuns,
                            listed : SUBSET Runs, run : 0..MaxRuns,
                            confirmed : BOOLEAN, pressed : {"nothing", "cancel"},
                            unstored : BOOLEAN]]
  /\ \A w \in Workers : worker[w].pc \in {"window", "answer", "work"} => worker[w].run # 0
  /\ monitor \in [Monitors -> [window : {"unopened", "open", "closed"},
                               run : 0..MaxRuns, button : BOOLEAN]]
  /\ crashes \in 0..MaxCrashes /\ taken \in [Requests -> Nat]

Init ==
  /\ run = [x \in Runs |-> NoRow]
  /\ request = [r \in Requests |-> [run |-> 0, open |-> FALSE]]
  /\ owner = [x \in Runs |-> Nobody]
  /\ worker = [w \in Workers |-> Gone]
  /\ monitor = [m \in Monitors |-> Unopened]
  /\ crashes = 0 /\ taken = [r \in Requests |-> 0]

Set(w, r) == worker' = [worker EXCEPT ![w] = r]
RetriesOf(x) == {y \in Runs : run[y].state # "none" /\ run[y].parent = x}
Fresh == {x \in Runs : run[x].state = "none" /\ \A y \in 1..(x - 1) : run[y].state # "none"}
Known == {x \in Runs : run[x].state # "none"}

(* update_disk_clone_settings may switch the clone on and off at any time.  *)
Enabled == BOOLEAN

----------------------------------------------------------------------------
(* The monitor window.                                                      *)

(* claim_monitor_owner: the owner's row is taken over only from a process   *)
(* that is gone.                                                            *)
MonitorOpens(m, x) ==
  /\ monitor[m] = Unopened /\ x \in Known
  /\ ~\E n \in Monitors : owner[x] = n /\ monitor[n].run = x
  /\ owner' = [owner EXCEPT ![x] = m]
  /\ monitor' = [monitor EXCEPT ![m] = [window |-> "open", run |-> x, button |-> FALSE]]
  /\ UNCHANGED <<run, request, worker, crashes, taken>>

(* The poll of each second: the window takes every end but a success or a   *)
(* skipped run ("ended", as are the blocked ones) for an error, and an error *)
(* without a retry has the button.                                          *)
Offered(x) ==
  IF run[x].child # 0 \/ run[x].state \in Open THEN {FALSE}
  ELSE IF run[x].state = "ended" THEN BOOLEAN ELSE {TRUE}
Poll(m) ==
  /\ monitor[m].run # 0
  /\ \E button \in Offered(monitor[m].run) : monitor' = [monitor EXCEPT ![m].button = button]
  /\ monitor' # monitor
  /\ UNCHANGED <<run, request, owner, worker, crashes, taken>>

(* The request that is waiting for this run, or a new one.                  *)
RequestFor(x) ==
  LET waiting == {r \in Requests : request[r].run = x /\ request[r].open}
      unused == {r \in Requests : request[r].run = 0}
  IN IF waiting # {} THEN waiting ELSE {r \in unused : \A u \in unused : r <= u}

(* The button stores a request and starts a worker for it, which may fail.  *)
Retry(m) ==
  /\ monitor[m].run # 0 /\ monitor[m].button
  /\ \E r \in RequestFor(monitor[m].run) :
       /\ request' = [request EXCEPT ![r] = [run |-> monitor[m].run, open |-> TRUE]]
       /\ \/ \E w \in Workers : /\ worker[w] = Gone
                                /\ Set(w, [Gone EXCEPT !.pc = "claim", !.req = r])
          \/ UNCHANGED worker
  /\ UNCHANGED <<run, owner, monitor, crashes, taken>>

MonitorCloses(m) ==
  /\ monitor[m].run # 0
  /\ LET x == monitor[m].run
     IN owner' = IF owner[x] = m THEN [owner EXCEPT ![x] = Nobody] ELSE owner
  /\ monitor' = [monitor EXCEPT ![m] = Closed]
  /\ UNCHANGED <<run, request, worker, crashes, taken>>

----------------------------------------------------------------------------
(* The worker of a retry.                                                   *)

(* Mutant of Claim: the request is not read again in the transaction.       *)
ClaimStale(w) ==
  /\ worker[w].pc = "claim"
  /\ LET r == worker[w].req
     IN /\ request' = [request EXCEPT ![r].open = FALSE]
        /\ taken' = [taken EXCEPT ![r] = @ + 1]
        /\ Set(w, [worker[w] EXCEPT !.pc = "parent", !.req = 0, !.parent = request[r].run])
  /\ UNCHANGED <<run, owner, monitor, crashes>>

(* claim_control_request: reading and marking are one transaction.          *)
Claim(w) ==
  /\ worker[w].pc = "claim"
  /\ LET r == worker[w].req
     IN IF request[r].open
        THEN /\ request' = [request EXCEPT ![r].open = FALSE]
             /\ taken' = [taken EXCEPT ![r] = @ + 1]
             /\ Set(w, [worker[w] EXCEPT !.pc = "parent", !.req = 0, !.parent = request[r].run])
        ELSE /\ Set(w, Gone)
             /\ UNCHANGED <<request, taken>>
  /\ UNCHANGED <<run, owner, monitor, crashes>>

(* retry: the clone is enabled and the failed run has no retry ...          *)
ReadParent(w) ==
  /\ worker[w].pc = "parent"
  /\ \E on \in Enabled :
     LET parent == run[worker[w].parent]
     IN IF on /\ parent.state \in Retryable /\ parent.child = 0
        THEN Set(w, [worker[w] EXCEPT !.pc = "child"])
        ELSE Set(w, Gone)
  /\ UNCHANGED <<run, request, owner, monitor, crashes, taken>>

(* ... for which no retry has been started either.                          *)
ReadChild(w) ==
  /\ worker[w].pc = "child"
  /\ Set(w, IF RetriesOf(worker[w].parent) # {} THEN Gone
            ELSE [worker[w] EXCEPT !.pc = "begin"])
  /\ UNCHANGED <<run, request, owner, monitor, crashes, taken>>

----------------------------------------------------------------------------
(* execute.                                                                 *)

(* The scheduled runs: their rows and the workers that are to insert one.   *)
Scheduled ==
  Cardinality({x \in Known : run[x].parent = 0})
    + Cardinality({w \in Workers : worker[w].pc = "reconcile" /\ worker[w].parent = 0})

(* execute begins, for a scheduled run or for a retry, unless the clone has *)
(* been disabled; reconcile_interrupted reads the runs that are not over,   *)
(* started 12 hours ago and have no live provider, which any may be: hours  *)
(* and providers are CloneService's.                                        *)
BeginExecute(w) ==
  /\ worker[w].pc = "begin" \/ (worker[w] = Gone /\ Scheduled < MaxScheduled)
  /\ \/ worker[w] # Gone /\ Set(w, Gone)
     \/ \E old \in SUBSET {x \in Runs : run[x].state \in Open} :
          Set(w, [worker[w] EXCEPT !.pc = "reconcile", !.listed = old])
  /\ UNCHANGED <<run, request, owner, monitor, crashes, taken>>

(* One by one, and each twice (the transition, then the finish), they are   *)
(* said to be interrupted, whatever their rows say by now.                  *)
ReconcileRow(w) ==
  /\ worker[w].pc = "reconcile"
  /\ \E x \in worker[w].listed :
       /\ run' = [run EXCEPT ![x].state = "interrupted"]
       /\ \E left \in {worker[w].listed, worker[w].listed \ {x}} :
            Set(w, [worker[w] EXCEPT !.listed = left])
  /\ UNCHANGED <<request, owner, monitor, crashes, taken>>

(* Mutant of Insert: no unique index on the parent.                         *)
InsertUnindexed(w) ==
  /\ worker[w].pc = "reconcile" /\ worker[w].listed = {}
  /\ \E x \in Fresh :
       /\ run' = [run EXCEPT ![x] = [NoRow EXCEPT !.state = "countdown",
                                                 !.parent = worker[w].parent]]
       /\ Set(w, [worker[w] EXCEPT !.pc = "window", !.run = x])
  /\ UNCHANGED <<request, owner, monitor, crashes, taken>>

(* Then its own row is inserted: the index lets a parent have one retry, and *)
(* the second worker reports a rejected one.                                *)
Insert(w) ==
  /\ worker[w].pc = "reconcile" /\ worker[w].listed = {}
  /\ IF worker[w].parent # 0 /\ RetriesOf(worker[w].parent) # {}
     THEN Set(w, Gone) /\ UNCHANGED run
     ELSE \E x \in Fresh :
            /\ run' = [run EXCEPT ![x] = [NoRow EXCEPT !.state = "countdown",
                                                      !.parent = worker[w].parent]]
            /\ Set(w, [worker[w] EXCEPT !.pc = "window", !.run = x])
  /\ UNCHANGED <<request, owner, monitor, crashes, taken>>

(* The end of a run is written to its row; a retry goes on to note itself.  *)
End(w, state) ==
  /\ run' = [run EXCEPT ![worker[w].run].state = state, ![worker[w].run].failed = state = "failed"]
  /\ Set(w, IF worker[w].parent = 0 THEN Gone
            ELSE [Gone EXCEPT !.pc = "record", !.parent = worker[w].parent, !.run = worker[w].run])

(* The preflight refuses the run before its window has an answer.           *)
Preflight(w) ==
  /\ worker[w].pc = "window" /\ ~worker[w].confirmed /\ worker[w].pressed = "nothing"
  /\ End(w, "ended")
  /\ UNCHANGED <<request, owner, monitor, crashes, taken>>

(* Mutant of WindowConfirms: a pressed Cancel does not stop the countdown.  *)
WindowConfirmsAgain(w) ==
  /\ worker[w].pc = "window" /\ ~worker[w].confirmed
  /\ \E stored \in BOOLEAN :
       Set(w, [worker[w] EXCEPT !.confirmed = TRUE, !.unstored = ~stored,
                                !.pc = IF stored THEN "answer" ELSE "window"])
  /\ UNCHANGED <<run, request, owner, monitor, crashes, taken>>

(* CountdownController: the button or the end of the countdown confirms     *)
(* once; when the request cannot be stored the window stays.                *)
WindowConfirms(w) ==
  /\ worker[w].pc = "window" /\ ~worker[w].confirmed /\ worker[w].pressed = "nothing"
  /\ \E stored \in BOOLEAN :
       Set(w, [worker[w] EXCEPT !.confirmed = TRUE, !.unstored = ~stored,
                                !.pc = IF stored THEN "answer" ELSE "window"])
  /\ UNCHANGED <<run, request, owner, monitor, crashes, taken>>

(* Cancel, whose request may not be stored either, and the tick or the      *)
(* button that closes a window which has had its answer.                    *)
WindowCancels(w) ==
  /\ worker[w].pc = "window" /\ worker[w].pressed = "nothing"
  /\ \E stored \in BOOLEAN :
       Set(w, [worker[w] EXCEPT !.pressed = "cancel", !.pc = IF stored THEN "answer" ELSE "window"])
  /\ UNCHANGED <<run, request, owner, monitor, crashes, taken>>
WindowCloses(w) ==
  /\ worker[w].pc = "window" /\ (worker[w].confirmed \/ worker[w].pressed = "cancel")
  /\ Set(w, [worker[w] EXCEPT !.pc = "answer"])
  /\ UNCHANGED <<run, request, owner, monitor, crashes, taken>>

(* The answer of the window is whether it was confirmed.                    *)
Answer(w) ==
  /\ worker[w].pc = "answer"
  /\ IF worker[w].confirmed
     THEN /\ run' = [run EXCEPT ![worker[w].run].state = "working"]
          /\ Set(w, [worker[w] EXCEPT !.pc = "work"])
     ELSE End(w, "cancelled")
  /\ UNCHANGED <<request, owner, monitor, crashes, taken>>

(* What the row says of progress, verification and cleanup is not told      *)
(* apart.                                                                   *)
Work(w) ==
  /\ worker[w].pc = "work"
  /\ \E state \in {"failed", "ended"} : End(w, state)
  /\ UNCHANGED <<request, owner, monitor, crashes, taken>>

(* The row of the failed run names its retry.                               *)
Record(w) ==
  /\ worker[w].pc = "record"
  /\ run' = IF run[worker[w].parent].child = 0
            THEN [run EXCEPT ![worker[w].parent].child = worker[w].run] ELSE run
  /\ Set(w, Gone)
  /\ UNCHANGED <<request, owner, monitor, crashes, taken>>

(* A process ends anywhere; its rows stay.                                  *)
Crash ==
  /\ crashes < MaxCrashes
  /\ crashes' = crashes + 1
  /\ \/ \E w \in Workers : worker[w] # Gone /\ Set(w, Gone) /\ UNCHANGED monitor
     \/ \E m \in Monitors : /\ monitor[m].window = "open"
                            /\ monitor' = [monitor EXCEPT ![m] = Closed] /\ UNCHANGED worker
  /\ UNCHANGED <<run, request, owner, taken>>

----------------------------------------------------------------------------
Window(w) == WindowConfirms(w) \/ WindowCancels(w) \/ WindowCloses(w)

Worker(w) ==
  \/ Claim(w) \/ ReadParent(w) \/ ReadChild(w)
  \/ BeginExecute(w) \/ ReconcileRow(w) \/ Insert(w)
  \/ Preflight(w) \/ Window(w) \/ Answer(w) \/ Work(w) \/ Record(w)

Monitor(m) ==
  \/ \E x \in Runs : MonitorOpens(m, x)
  \/ Poll(m) \/ Retry(m) \/ MonitorCloses(m)

Next ==
  \/ \E w \in Workers : Worker(w)
  \/ \E m \in Monitors : Monitor(m)
  \/ Crash

Spec == Init /\ [][Next]_vars

----------------------------------------------------------------------------
(* Properties.                                                              *)

(* A failed run has at most one retry, however many buttons, workers and    *)
(* processes race for it (disk_clone.py:1795-1810, db.py:157).              *)
OneRetryPerParent == \A x \in Runs : Cardinality(RetriesOf(x)) <= 1

(* Only a run whose provider or verification failed is retried: not one     *)
(* that was cancelled or blocked, although the window offers the button for *)
(* them, nor one that was interrupted and never failed.  Its row says so    *)
(* ever after, unless a reconciliation which read it before it failed calls *)
(* it interrupted (disk_clone.py:1799, 1464-1473, disk_clone_ui.py:342).    *)
RetryOfFailed ==
  \A x \in Known : run[x].parent # 0
    => LET parent == run[run[x].parent]
       IN parent.failed /\ parent.state \in {"failed", "interrupted"}

(* The retry a row names is the retry of that run (disk_clone.py:1812).     *)
ChildIsRetry == \A x \in Known : run[x].child # 0 => run[x].child \in RetriesOf(x)

(* However many workers race, a run has one retry, of a failure, and names  *)
(* no other.                                                                *)
RetriesAreSound == OneRetryPerParent /\ RetryOfFailed /\ ChildIsRetry

(* A request is claimed by one worker, though every click may start one for *)
(* it (disk_clone.py:1980-1993: "duplicate clicks are inert", 1816).        *)
ClaimedOnce == \A r \in Requests : taken[r] <= 1

(* A run has one live monitor window (disk_clone.py:1996-2012).             *)
OneMonitorPerRun ==
  \A m, n \in Monitors : (monitor[m].run # 0 /\ monitor[m].run = monitor[n].run) => m = n

(* However often the owner clicks, one worker takes the request and one     *)
(* window shows the run (disk_clone.py:1980, 1996).                         *)
OneOfEach == ClaimedOnce /\ OneMonitorPerRun

(* A countdown window in which Cancel was pressed cancels its run, unless   *)
(* the window had been confirmed and could not store that                   *)
(* (disk_clone_ui.py:87-110, 236-271).                                      *)
CancelIsHonoured ==
  [][\A w \in Workers :
       (worker[w].pc = "answer" /\ worker'[w].pc # "answer" /\ crashes' = crashes
          /\ worker[w].pressed = "cancel" /\ ~worker[w].unstored)
         => run'[worker[w].run].state = "cancelled"]_vars
=============================================================================
