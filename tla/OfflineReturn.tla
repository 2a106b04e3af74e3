---------------------------- MODULE OfflineReturn ---------------------------
(***************************************************************************)
(* One offline clone: the job Windows prepares on the exchange medium       *)
(* (ProductionPreparationAdapter), the runner that carries it out in        *)
(* Clonezilla Live (ProductionOfflineRunner, ProductionOfflineCloneExecutor)*)
(* and the durable return channel that brings the signed result back        *)
(* (VirtualReturnChannel).  The owner may start the runner again while the  *)
(* first one runs, or after it or the machine stopped; both see the same    *)
(* channel and replay store.                                                *)
(*                                                                         *)
(* Every method of the channel holds its lock file from its first read to   *)
(* its last write, so it is one step here, except publish_result, whose     *)
(* files reach the medium one after the other.                              *)
(***************************************************************************)
EXTENDS Naturals, FiniteSets

CONSTANTS
  Runners,     \* starts of the runner
  MaxCrashes   \* how many of them may be cut off (bound of the model)

Nobody == "nobody"
NoResult == [phase |-> "none", exit |-> 0, verified |-> FALSE, offline |-> FALSE]

ASSUME NobodyIsNoRunner == Nobody \notin Runners
ASSUME CrashesAreCounted == MaxCrashes \in Nat

VARIABLES
  package,   \* what the preparation has put on the medium
  meta,      \* channel.json: its state, and the digest of the result
  final,     \* the result package under its final name
  partial,   \* a temporary result directory is left
  lock,      \* who the lock file of the channel is of
  nonce,     \* who claimed the nonce of the job
  expired,   \* the job is past its expiry
  pc,        \* where each runner is
  seen,      \* what each runner has observed
  engines,   \* history: runners that started the engine
  target,    \* what is on the target disk
  outcome    \* what the last consumption answered

vars == <<package, meta, final, partial, lock, nonce, expired, pc, seen, engines, target,
          outcome>>
channel == <<meta, final, partial, lock>>
world == <<package, expired, target, outcome>>

RETURN_STATES == {"none", "pending", "running", "result", "failed", "consumed"}
RETURN_TRANSITIONS ==
  {<<"pending", "running">>, <<"pending", "failed">>, <<"running", "result">>,
   <<"running", "failed">>, <<"result", "consumed">>, <<"result", "failed">>}

Phases == {"none", "fake", "success", "failure"}
Results == [phase : Phases, exit : {0, 1}, verified : BOOLEAN, offline : BOOLEAN]
Ended == {"published", "blocked", "raised", "untold", "dead"}
Active == {"initialized", "marked", "resolved", "claimed", "engine", "ran", "checked",
           "publishing", "renamed", "blocking", "handling", "failing"}

TypeOK ==
  /\ package \in {"none", "channel", "ready", "barred"}
  /\ meta \in [state : RETURN_STATES, digest : Results]
  /\ final \in Results /\ partial \in BOOLEAN
  /\ lock \in Runners \cup {Nobody} /\ nonce \in Runners \cup {Nobody}
  /\ expired \in BOOLEAN
  /\ pc \in [Runners -> {"off"} \cup Active \cup Ended]
  /\ seen \in [Runners -> Results]
  /\ engines \subseteq Runners
  /\ target \in {"old", "writing", "cloned", "broken"}
  /\ outcome \in {"none", "success", "failure", "simulated", "failed"}

Init ==
  /\ package = "none"
  /\ meta = [state |-> "none", digest |-> NoResult]
  /\ final = NoResult /\ partial = FALSE
  /\ lock = Nobody /\ nonce = Nobody
  /\ expired = FALSE
  /\ pc = [r \in Runners |-> "off"]
  /\ seen = [r \in Runners |-> NoResult]
  /\ engines = {}
  /\ target = "old"
  /\ outcome = "none"

Go(r, to) == pc' = [pc EXCEPT ![r] = to]
State(s) == meta' = [meta EXCEPT !.state = s]

----------------------------------------------------------------------------
(* Windows prepares.                                                        *)

(* prepare, as far as channel.initialize.  The channel of an earlier job    *)
(* refuses this one: that exchange medium is spent.                         *)
PrepareChannel ==
  /\ package = "none" /\ meta.state = "none"
  /\ State("pending")
  /\ package' = "channel"
  /\ UNCHANGED <<final, partial, lock, nonce, expired, pc, seen, engines, target, outcome>>

(* The signed job and the public key follow; if that fails the channel      *)
(* stays and bars the next preparation.                                     *)
PrepareJob ==
  /\ package = "channel"
  /\ package' \in {"ready", "barred"}
  /\ UNCHANGED <<channel, nonce, expired, pc, seen, engines, target, outcome>>

(* The time-to-live of the job passes.                                      *)
Expire ==
  /\ ~expired /\ package # "none"
  /\ expired' = TRUE
  /\ UNCHANGED <<package, channel, nonce, pc, seen, engines, target, outcome>>

----------------------------------------------------------------------------
(* The runner.                                                              *)

(* _check_binding: the expiry only matters before the run.                  *)
Stale == meta.state = "pending" /\ expired

(* run verifies the signature of the job and initializes the channel.       *)
Initialize(r) ==
  /\ pc[r] = "off" /\ package = "ready"
  /\ Go(r, IF lock # Nobody \/ Stale THEN "raised" ELSE "initialized")
  /\ UNCHANGED <<world, channel, nonce, seen, engines>>

(* transition(job, "running"): a channel that is running may be marked      *)
(* running again.  What it cannot read or write is an exception, here       *)
(* before the handler.                                                      *)
MarkRunning(r) ==
  /\ pc[r] = "initialized"
  /\ \/ /\ lock = Nobody /\ ~Stale /\ meta.state \in {"pending", "running"}
        /\ State("running") /\ Go(r, "marked")
     \/ Go(r, "raised") /\ UNCHANGED meta
  /\ UNCHANGED <<world, final, partial, lock, nonce, seen, engines>>

(* resolve_offline_devices on the first inventory: one source, one target   *)
(* and none of the reasons against them, or a refusal, or no inventory.     *)
Resolve(r) ==
  /\ pc[r] = "marked"
  /\ \E to \in {"resolved", "blocking", "handling"} : Go(r, to)
  /\ UNCHANGED <<world, channel, nonce, seen, engines>>

(* VirtualOfflineRunner renders the command and publishes a fake result.    *)
Simulate(r) ==
  /\ pc[r] = "resolved"
  /\ seen' = [seen EXCEPT ![r] = [NoResult EXCEPT !.phase = "fake"]]
  /\ Go(r, "checked")
  /\ UNCHANGED <<world, channel, nonce, engines>>

(* Mutant of Claim: the claim overwrites that of another runner.            *)
ClaimOwn(r) ==
  /\ pc[r] = "resolved"
  /\ \/ Go(r, "blocking") /\ UNCHANGED nonce
     \/ Go(r, "handling") /\ UNCHANGED nonce
     \/ ~expired /\ nonce' = r /\ Go(r, "claimed")
  /\ UNCHANGED <<world, channel, seen, engines>>

(* The start time, the guards of execute and ReplayStore.claim.             *)
Claim(r) ==
  /\ pc[r] = "resolved"
  /\ \/ Go(r, "blocking") /\ UNCHANGED nonce
     \/ Go(r, "handling") /\ UNCHANGED nonce
     \/ /\ ~expired /\ nonce = Nobody
        /\ nonce' = r
        /\ Go(r, "claimed")
  /\ UNCHANGED <<world, channel, seen, engines>>

(* The authorization is read once more, then the process is created.        *)
StartEngine(r) ==
  /\ pc[r] = "claimed"
  /\ IF expired
     THEN Go(r, "blocking") /\ UNCHANGED <<engines, target>>
     ELSE \/ Go(r, "handling") /\ UNCHANGED <<engines, target>>
          \/ /\ engines' = engines \cup {r}
             /\ target' = "writing"
             /\ Go(r, "engine")
  /\ UNCHANGED <<package, channel, nonce, expired, seen, outcome>>

(* It ends by itself, by a signal or by the timeout; normalize_process_     *)
(* return_code makes the last two non-zero.  An engine that ends with zero  *)
(* may still have left the disk incomplete.                                 *)
EngineEnds(r) ==
  /\ pc[r] = "engine"
  /\ \E code \in {0, 1} : seen' = [seen EXCEPT ![r].exit = code]
  /\ target' \in IF seen'[r].exit = 0 THEN {"cloned", "broken"} ELSE {"broken"}
  /\ \E to \in {"ran", "handling"} : Go(r, to)
  /\ UNCHANGED <<package, channel, nonce, expired, engines, outcome>>

(* Mutant of Result: the exit code stands for the verification.             *)
ResultOfExit(exit, verified, offline) ==
  [phase |-> IF exit = 0 THEN "success" ELSE "failure", exit |-> exit,
   verified |-> exit = 0, offline |-> exit = 0]

(* The second inventory, the structural verifier and the offline check, any *)
(* of which may fail; then the result.  The verifier does not take a broken *)
(* copy for a whole one.  A clock that went back or more than the longest   *)
(* runtime is an exception.                                                 *)
Result(exit, verified, offline) ==
  LET success == exit = 0 /\ verified /\ offline
  IN [phase |-> IF success THEN "success" ELSE "failure",
      exit |-> IF success THEN 0 ELSE 1,
      verified |-> verified, offline |-> offline]
Check(r) ==
  /\ pc[r] = "ran"
  /\ \/ \E sound, offline \in BOOLEAN :
          seen' = [seen EXCEPT ![r] =
            Result(seen[r].exit, seen[r].exit = 0 /\ sound /\ target = "cloned", offline)]
        /\ Go(r, "checked")
     \/ Go(r, "handling") /\ UNCHANGED seen
  /\ UNCHANGED <<world, channel, nonce, engines>>

(* Mutant of PublishBegin: the state of the channel is not asked.           *)
PublishAnyState(r) ==
  /\ pc[r] = "checked"
  /\ IF lock = Nobody /\ final = NoResult
     THEN lock' = r /\ partial' = TRUE /\ Go(r, "publishing")
     ELSE Go(r, "handling") /\ UNCHANGED <<lock, partial>>
  /\ UNCHANGED <<world, meta, final, nonce, seen, engines>>

(* publish_result, in the order its files reach the medium.                 *)
PublishBegin(r) ==
  /\ pc[r] = "checked"
  /\ IF lock = Nobody /\ meta.state = "running" /\ final = NoResult
     THEN lock' = r /\ partial' = TRUE /\ Go(r, "publishing")
     ELSE Go(r, "handling") /\ UNCHANGED <<lock, partial>>
  /\ UNCHANGED <<world, meta, final, nonce, seen, engines>>

PublishRename(r) ==
  /\ pc[r] = "publishing"
  /\ \/ final' = seen[r] /\ partial' = FALSE /\ Go(r, "renamed") /\ UNCHANGED lock
     \/ lock' = Nobody /\ Go(r, "handling") /\ UNCHANGED <<final, partial>>
  /\ UNCHANGED <<world, meta, nonce, seen, engines>>

PublishMeta(r) ==
  /\ pc[r] = "renamed"
  /\ \/ meta' = [state |-> "result", digest |-> seen[r]] /\ Go(r, "published")
     \/ Go(r, "handling") /\ UNCHANGED meta
  /\ lock' = Nobody
  /\ UNCHANGED <<world, final, partial, nonce, seen, engines>>

(* transition(job, "failed"); what it raises, also because channel.json is  *)
(* not read or written, goes to the handler below or, from there, out of    *)
(* run.                                                                     *)
MayFail == lock = Nobody /\ (meta.state = "failed" \/ <<meta.state, "failed">> \in RETURN_TRANSITIONS)

Block(r) ==
  /\ pc[r] = "blocking"
  /\ \/ MayFail /\ State("failed") /\ Go(r, "blocked")
     \/ Go(r, "handling") /\ UNCHANGED meta
  /\ UNCHANGED <<world, final, partial, lock, nonce, seen, engines>>

(* Mutant of Handle: the handler leaves the channel as it is.               *)
HandleNothing(r) ==
  /\ pc[r] = "handling"
  /\ Go(r, "raised")
  /\ UNCHANGED <<world, channel, nonce, seen, engines>>

(* The handler of every other exception looks at the channel without the    *)
(* lock; status answers "pending" for a channel.json that it cannot read,   *)
(* and the failure is not told ...                                          *)
Handle(r) ==
  /\ pc[r] = "handling"
  /\ \E told \in BOOLEAN :
       Go(r, IF ~told THEN "untold" ELSE IF meta.state = "running" THEN "failing" ELSE "raised")
  /\ UNCHANGED <<world, channel, nonce, seen, engines>>

(* ... and fails it with the lock, unless reading or writing fails now.     *)
FailRunning(r) ==
  /\ pc[r] = "failing"
  /\ \/ /\ IF MayFail THEN State("failed") ELSE UNCHANGED meta
        /\ Go(r, "raised")
     \/ Go(r, "untold") /\ UNCHANGED meta
  /\ UNCHANGED <<world, final, partial, lock, nonce, seen, engines>>

(* The runner or the machine stops; the lock file stays until it is twelve  *)
(* hours old.                                                               *)
Crash(r) ==
  /\ pc[r] \in Active
  /\ Cardinality({q \in Runners : pc[q] = "dead"}) < MaxCrashes
  /\ Go(r, "dead")
  /\ target' = IF pc[r] = "engine" THEN "broken" ELSE target
  /\ UNCHANGED <<package, channel, nonce, expired, seen, engines, outcome>>

LockAges ==
  /\ lock # Nobody /\ pc[lock] = "dead"
  /\ lock' = Nobody
  /\ UNCHANGED <<world, meta, final, partial, nonce, pc, seen, engines>>

----------------------------------------------------------------------------
(* Back in Windows.                                                         *)

(* validate_semantics, for the production and the simulation profile.       *)
Acceptable(result, profile) ==
  \/ profile = "simulation" /\ result.phase = "fake"
  \/ /\ profile = "production" /\ result.phase = "success"
     /\ result.exit = 0 /\ result.verified /\ result.offline
  \/ /\ profile = "production" /\ result.phase = "failure"
     /\ result.exit # 0 /\ ~result.verified

Answer(result) ==
  CASE result.phase = "fake" -> "simulated"
    [] result.phase = "success" -> "success"
    [] OTHER -> "failure"

(* consume, for the job of the channel.                                     *)
Consume ==
  /\ lock = Nobody /\ meta.state # "none"
  /\ IF Stale THEN State("failed") /\ outcome' = "failed"
     ELSE IF meta.state \notin {"result", "consumed"} THEN UNCHANGED <<meta, outcome>>
     ELSE \E profile \in {"production", "simulation"} :
            IF final # NoResult /\ Acceptable(final, profile) /\ final = meta.digest
            THEN State("consumed") /\ outcome' = Answer(final)
            ELSE State("failed") /\ outcome' = "failed"
  /\ UNCHANGED <<package, final, partial, lock, nonce, expired, pc, seen, engines, target>>

(* consume, for another job: the binding does not match.                    *)
ConsumeOther ==
  /\ lock = Nobody /\ meta.state \notin {"none", "consumed"}
  /\ State("failed") /\ outcome' = "failed"
  /\ UNCHANGED <<package, final, partial, lock, nonce, expired, pc, seen, engines, target>>

Recover ==
  /\ lock = Nobody
  /\ \/ meta.state \in {"pending", "running"} /\ ~Stale /\ (final # NoResult \/ partial)
     \/ meta.state = "result" /\ final = NoResult
  /\ State("failed")
  /\ UNCHANGED <<world, final, partial, lock, nonce, pc, seen, engines>>

----------------------------------------------------------------------------
RunnerStep(r) ==
  \/ Initialize(r) \/ MarkRunning(r) \/ Resolve(r) \/ Simulate(r) \/ Claim(r)
  \/ StartEngine(r) \/ EngineEnds(r) \/ Check(r)
  \/ PublishBegin(r) \/ PublishRename(r) \/ PublishMeta(r)
  \/ Block(r) \/ Handle(r) \/ FailRunning(r)

Next ==
  \/ PrepareChannel \/ PrepareJob \/ Expire
  \/ \E r \in Runners : RunnerStep(r) \/ Crash(r)
  \/ LockAges \/ Consume \/ ConsumeOther \/ Recover

Spec == Init /\ [][Next]_vars

(* A runner that is not cut off goes on.                                    *)
FairSpec == Spec /\ \A r \in Runners : WF_vars(pc[r] # "off" /\ RunnerStep(r))

----------------------------------------------------------------------------
(* Properties.                                                              *)

(* However often and however closely together the runner is started, the    *)
(* engine is started at most once for the job, also when the first runner   *)
(* was cut off (ProductionOfflineCloneExecutor.execute,                     *)
(* offline_clone_exec.py:394-410).                                          *)
EngineOnce == \A p, q \in engines : p = q

(* The owner is told that the clone is good only if an engine ran, the      *)
(* target holds a complete copy, and this was published; a simulation never *)
(* counts (offline_runtime.py:1696-1732, offline_clone.py:925-938).         *)
SuccessIsTrue == outcome = "success" => target = "cloned" /\ engines # {}

(* A channel that announces a result has the whole package under its final  *)
(* name, with the digest announced (publish_result, offline_runtime.py:1455)*)
(* whatever happened to the runners.                                        *)
AnnouncedIsWhole ==
  meta.state \in {"result", "consumed"} => final # NoResult /\ final = meta.digest

(* A runner that answers command_executed = FALSE has not started the       *)
(* engine (offline_runtime.py:1645, 1656).                                  *)
BlockedRanNothing == \A r \in Runners : pc[r] = "blocked" => r \notin engines

(* What the owner is told of the offline run is what happened.              *)
ReturnIsTrue == SuccessIsTrue /\ AnnouncedIsWhole /\ BlockedRanNothing

(* A failed channel stays failed: no late runner revives it                 *)
(* (RETURN_TRANSITIONS, offline_runtime.py:67).                             *)
FailedIsFinal == [][meta.state = "failed" => meta'.state = "failed"]_vars

(* A result that has been announced is not replaced by another one          *)
(* (offline_runtime.py:1443).                                               *)
ResultIsFixed == [][final # NoResult => final' = final]_vars

(* The two ends of a channel, failure and result, are final.                *)
ChannelIsFinal == FailedIsFinal /\ ResultIsFixed

(* A channel does not stay running once its runners are through: every way  *)
(* out of run leaves a result or a failure, even when another runner held   *)
(* the lock, unless a runner was cut off or could neither read nor write    *)
(* channel.json when it was to tell its failure                             *)
(* (offline_runtime.py:1733-1736, 1402-1406).                               *)
RunningEnds ==
  meta.state = "running" ~>
    (meta.state # "running" \/ \E r \in Runners : pc[r] \in {"dead", "untold"})
=============================================================================
