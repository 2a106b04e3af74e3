------------------------- MODULE OfflineReturnProofs ------------------------
(***************************************************************************)
(* The safety properties of OfflineReturn, for any number of starts of the  *)
(* runner and of crashes.                                                   *)
(***************************************************************************)
EXTENDS OfflineReturn, TLAPS

Before == {"off", "initialized", "marked", "resolved", "claimed", "blocking", "blocked"}
Publishing == {"publishing", "renamed"}

(* The engine belongs to the runner that claimed the nonce, which is never  *)
(* free again.                                                              *)
NonceInv ==
  /\ engines \subseteq {nonce} \ {Nobody}
  /\ \A r \in Runners : pc[r] \in {"claimed", "engine", "ran"} => nonce = r
  /\ \A r \in Runners : pc[r] \in {"engine", "ran"} => r \in engines

(* A blocked answer is only given by a runner that never came to the engine. *)
BlockInv == \A r \in Runners : pc[r] \in Before => r \notin engines

(* A success that was observed is one for good: the target holds a whole    *)
(* copy, and the nonce keeps every other runner from the engine.            *)
Good ==
  /\ target = "cloned" /\ engines # {}
  /\ \A r \in Runners : pc[r] \notin {"claimed", "engine"}
TruthInv ==
  /\ \A r \in Runners : seen[r].phase = "success" => Good
  /\ final.phase = "success" => Good
  /\ outcome = "success" => Good

(* The channel is locked by who publishes, and what it announces is there.  *)
ChannelInv ==
  /\ \A r \in Runners : pc[r] \in Publishing => lock = r
  /\ lock # Nobody => pc[lock] \in Publishing \cup {"dead"}
  /\ \A r \in Runners : pc[r] = "publishing" => final = NoResult /\ meta.state = "running"
  /\ \A r \in Runners : pc[r] = "renamed" => final = seen[r] /\ meta.state = "running"
  /\ \A r \in Runners : pc[r] \in {"checked"} \cup Publishing => seen[r] # NoResult
  /\ meta.state \in {"result", "consumed"} => final # NoResult /\ final = meta.digest

Inv == TypeOK /\ NonceInv /\ BlockInv /\ TruthInv /\ ChannelInv

LEMMA ResultsAreResults ==
  /\ NoResult \in Results /\ NoResult.phase = "none"
  /\ \A result \in Results : /\ result.phase \in Phases /\ result.exit \in {0, 1}
                             /\ \A code \in {0, 1} : [result EXCEPT !.exit = code] \in Results
BY DEF NoResult, Results, Phases

LEMMA ResultIsResult ==
  ASSUME NEW exit \in {0, 1}, NEW verified \in BOOLEAN, NEW offline \in BOOLEAN
  PROVE  Result(exit, verified, offline) \in Results /\ Result(exit, verified, offline) # NoResult
BY DEF Result, Results, Phases, NoResult

(* Init establishes the invariant.                                          *)
LEMMA InitInv == Init => Inv
<1> SUFFICES ASSUME Init PROVE Inv
  OBVIOUS
<1>1. NoResult \in Results
  BY DEF NoResult, Results, Phases
<1>2. TypeOK
  <2>1. meta \in [state : RETURN_STATES, digest : Results]
    BY <1>1 DEF Init, RETURN_STATES
  <2> QED
    BY <1>1, <2>1 DEF Init, TypeOK
<1> QED
  BY <1>2 DEF Init, Inv, NonceInv, BlockInv, TruthInv, NoResult, ChannelInv, Before, Publishing

----------------------------------------------------------------------------
(* Every action keeps it.                                                   *)

LEMMA PrepareChannelKeeps ==
  ASSUME Inv, PrepareChannel PROVE Inv'
<1> USE DEF Inv, TypeOK, NonceInv, BlockInv, TruthInv, Good, ChannelInv, Before, Publishing, Active,
  Ended, RETURN_STATES, Go, State, channel, world
<1> QED
  BY NobodyIsNoRunner, ResultsAreResults DEF PrepareChannel, Stale, MayFail

LEMMA PrepareJobKeeps ==
  ASSUME Inv, PrepareJob PROVE Inv'
<1> USE DEF Inv, TypeOK, NonceInv, BlockInv, TruthInv, Good, ChannelInv, Before, Publishing, Active,
  Ended, RETURN_STATES, Go, State, channel, world
<1> QED
  BY NobodyIsNoRunner, ResultsAreResults DEF PrepareJob, Stale, MayFail

LEMMA ExpireKeeps ==
  ASSUME Inv, Expire PROVE Inv'
<1> USE DEF Inv, TypeOK, NonceInv, BlockInv, TruthInv, Good, ChannelInv, Before, Publishing, Active,
  Ended, RETURN_STATES, Go, State, channel, world
<1> QED
  BY NobodyIsNoRunner, ResultsAreResults DEF Expire, Stale, MayFail

LEMMA LockAgesKeeps ==
  ASSUME Inv, LockAges PROVE Inv'
<1> USE DEF Inv, TypeOK, NonceInv, BlockInv, TruthInv, Good, ChannelInv, Before, Publishing, Active,
  Ended, RETURN_STATES, Go, State, channel, world
<1> QED
  BY NobodyIsNoRunner, ResultsAreResults DEF LockAges, Stale, MayFail

LEMMA ConsumeKeeps ==
  ASSUME Inv, Consume PROVE Inv'
<1> USE DEF Inv, TypeOK
<1>1. UNCHANGED <<package, final, partial, lock, nonce, expired, pc, seen, engines, target>>
      /\ lock = Nobody
  BY DEF Consume
<1>0. \A r \in Runners : pc[r] \notin Publishing
  BY <1>1, NobodyIsNoRunner DEF ChannelInv
<1>2. CASE UNCHANGED <<meta, outcome>>
  BY <1>1, <1>2 DEF NonceInv, BlockInv, TruthInv, Good, ChannelInv
<1>3. CASE State("failed") /\ outcome' = "failed"
  <2>1. meta' \in [state : RETURN_STATES, digest : Results] /\ meta'.state = "failed"
    BY <1>3 DEF State, RETURN_STATES
  <2>2. TypeOK'
    BY <1>1, <1>3, <2>1
  <2>3. ChannelInv'
    BY <1>0, <1>1, <2>1 DEF ChannelInv, Publishing
  <2> QED
    BY <1>1, <1>3, <2>2, <2>3 DEF NonceInv, BlockInv, TruthInv, Good
<1>4. CASE /\ State("consumed") /\ outcome' = Answer(final)
           /\ final # NoResult /\ final = meta.digest
  <2>1. /\ meta' \in [state : RETURN_STATES, digest : Results]
        /\ meta'.state = "consumed" /\ meta'.digest = meta.digest
    BY <1>4 DEF State, RETURN_STATES
  <2>2. /\ outcome' \in {"none", "success", "failure", "simulated", "failed"}
        /\ outcome' = "success" => final.phase = "success"
    BY <1>4 DEF Answer
  <2>3. TypeOK'
    BY <1>1, <2>1, <2>2
  <2>4. ChannelInv'
    BY <1>0, <1>1, <1>4, <2>1 DEF ChannelInv, Publishing
  <2> QED
    BY <1>1, <2>2, <2>3, <2>4 DEF NonceInv, BlockInv, TruthInv, Good
<1> QED
  BY <1>2, <1>3, <1>4 DEF Consume

LEMMA ConsumeOtherKeeps ==
  ASSUME Inv, ConsumeOther PROVE Inv'
<1> USE DEF Inv, TypeOK, NonceInv, BlockInv, TruthInv, Good, ChannelInv, Before, Publishing, Active,
  Ended, RETURN_STATES, Go, State, channel, world
<1> QED
  BY NobodyIsNoRunner, ResultsAreResults DEF ConsumeOther, Stale, MayFail

LEMMA RecoverKeeps ==
  ASSUME Inv, Recover PROVE Inv'
<1> USE DEF Inv, TypeOK, NonceInv, BlockInv, TruthInv, Good, ChannelInv, Before, Publishing, Active,
  Ended, RETURN_STATES, Go, State, channel, world
<1> QED
  BY NobodyIsNoRunner, ResultsAreResults DEF Recover, Stale, MayFail

LEMMA InitializeKeeps ==
  ASSUME Inv, NEW r \in Runners, Initialize(r) PROVE Inv'
<1> USE DEF Inv, TypeOK, NonceInv, BlockInv, TruthInv, Good, ChannelInv, Before, Publishing, Active,
  Ended, RETURN_STATES, Go, State, channel, world
<1> QED
  BY NobodyIsNoRunner, ResultsAreResults DEF Initialize, Stale, MayFail

LEMMA MarkRunningKeeps ==
  ASSUME Inv, NEW r \in Runners, MarkRunning(r) PROVE Inv'
<1> USE DEF Inv, TypeOK, NonceInv, BlockInv, TruthInv, Good, ChannelInv, Before, Publishing, Active,
  Ended, RETURN_STATES, Go, State, channel, world
<1> QED
  BY NobodyIsNoRunner, ResultsAreResults DEF MarkRunning, Stale, MayFail

LEMMA ResolveKeeps ==
  ASSUME Inv, NEW r \in Runners, Resolve(r) PROVE Inv'
<1> USE DEF Inv, TypeOK, NonceInv, BlockInv, TruthInv, Good, ChannelInv, Before, Publishing, Active,
  Ended, RETURN_STATES, Go, State, channel, world
<1> QED
  BY NobodyIsNoRunner, ResultsAreResults DEF Resolve, Stale, MayFail

LEMMA SimulateKeeps ==
  ASSUME Inv, NEW r \in Runners, Simulate(r) PROVE Inv'
<1> USE DEF Inv, TypeOK
<1> DEFINE fake == [NoResult EXCEPT !.phase = "fake"]
<1>1. /\ pc[r] = "resolved" /\ seen' = [seen EXCEPT ![r] = fake]
      /\ pc' = [pc EXCEPT ![r] = "checked"]
      /\ UNCHANGED <<package, expired, target, outcome, meta, final, partial, lock, nonce, engines>>
  BY DEF Simulate, Go, world, channel
<1>2. fake \in Results /\ fake # NoResult /\ fake.phase = "fake"
  BY DEF NoResult, Results, Phases
<1> HIDE DEF fake
<1>3. TypeOK'
  BY <1>1, <1>2 DEF Active
<1>4. NonceInv' /\ BlockInv'
  BY <1>1 DEF NonceInv, BlockInv, Before
<1>5. TruthInv'
  BY <1>1, <1>2 DEF TruthInv, Good
<1>6. ChannelInv'
  BY <1>1, <1>2 DEF ChannelInv, Publishing
<1> QED
  BY <1>3, <1>4, <1>5, <1>6

LEMMA ClaimKeeps ==
  ASSUME Inv, NEW r \in Runners, Claim(r) PROVE Inv'
<1> USE DEF Inv, TypeOK, NonceInv, BlockInv, TruthInv, Good, ChannelInv, Before, Publishing, Active,
  Ended, RETURN_STATES, Go, State, channel, world
<1> QED
  BY NobodyIsNoRunner, ResultsAreResults DEF Claim, Stale, MayFail

LEMMA StartEngineKeeps ==
  ASSUME Inv, NEW r \in Runners, StartEngine(r) PROVE Inv'
<1> USE DEF Inv, TypeOK, NonceInv, BlockInv, TruthInv, Good, ChannelInv, Before, Publishing, Active,
  Ended, RETURN_STATES, Go, State, channel, world
<1> QED
  BY NobodyIsNoRunner, ResultsAreResults DEF StartEngine, Stale, MayFail

LEMMA EngineEndsKeeps ==
  ASSUME Inv, NEW r \in Runners, EngineEnds(r) PROVE Inv'
<1> USE DEF Inv, TypeOK
<1>1. PICK code \in {0, 1} : seen' = [seen EXCEPT ![r].exit = code]
  BY DEF EngineEnds
<1>2. PICK to \in {"ran", "handling"} : pc' = [pc EXCEPT ![r] = to]
  BY DEF EngineEnds, Go
<1>3. /\ pc[r] = "engine" /\ target' \in {"cloned", "broken"}
      /\ UNCHANGED <<package, expired, outcome, meta, final, partial, lock, nonce, engines>>
  BY DEF EngineEnds, channel
<1>4. seen' \in [Runners -> Results] /\ \A q \in Runners : seen'[q].phase = seen[q].phase
  BY <1>1 DEF Results
<1>5. \A q \in Runners : q # r => seen'[q] = seen[q] /\ pc'[q] = pc[q]
  BY <1>1, <1>2
<1>6. pc'[r] \in {"ran", "handling"}
  BY <1>2
<1>7. TypeOK'
  BY <1>2, <1>3, <1>4 DEF Active
<1>8. NonceInv' /\ BlockInv'
  BY <1>3, <1>5, <1>6 DEF NonceInv, BlockInv, Before
<1>9. TruthInv'
  <2>1. ~Good
    BY <1>3 DEF Good
  <2> QED
    BY <1>3, <1>4, <2>1 DEF TruthInv
<1>10. ChannelInv'
  BY <1>3, <1>5, <1>6 DEF ChannelInv, Publishing
<1> QED
  BY <1>7, <1>8, <1>9, <1>10

LEMMA CheckKeeps ==
  ASSUME Inv, NEW r \in Runners, Check(r) PROVE Inv'
<1> USE DEF Inv, TypeOK
<1>1. pc[r] = "ran"
      /\ UNCHANGED <<package, expired, target, outcome, meta, final, partial, lock, nonce, engines>>
  BY DEF Check, world, channel
<1>2. CASE pc' = [pc EXCEPT ![r] = "handling"] /\ UNCHANGED seen
  BY <1>1, <1>2 DEF NonceInv, BlockInv, TruthInv, Good, ChannelInv, Before, Publishing, Active
<1>3. ASSUME NEW sound \in BOOLEAN, NEW offline \in BOOLEAN,
             seen' = [seen EXCEPT ![r] =
               Result(seen[r].exit, seen[r].exit = 0 /\ sound /\ target = "cloned", offline)],
             pc' = [pc EXCEPT ![r] = "checked"]
      PROVE  Inv'
  <2> DEFINE verified == seen[r].exit = 0 /\ sound /\ target = "cloned"
             result == Result(seen[r].exit, verified, offline)
  <2>1. seen[r].exit \in {0, 1} /\ verified \in BOOLEAN
    BY DEF Results
  <2>2. result \in Results /\ result # NoResult
    BY <2>1, ResultIsResult
  <2>3. result.phase = "success" => target = "cloned"
    BY DEF Result
  <2>4. seen' = [seen EXCEPT ![r] = result]
    BY <1>3
  <2> HIDE DEF result, verified
  <2>5. /\ seen'[r] = result /\ pc'[r] = "checked" /\ seen' \in [Runners -> Results]
        /\ \A q \in Runners : q # r => seen'[q] = seen[q] /\ pc'[q] = pc[q]
    BY <1>3, <2>2, <2>4
  <2>6. TypeOK'
    BY <1>1, <1>3, <2>5 DEF Active
  <2>7. NonceInv' /\ BlockInv'
    BY <1>1, <2>5 DEF NonceInv, BlockInv, Before
  <2>8. Good => Good'
    BY <1>1, <2>5 DEF Good
  <2>9. target = "cloned" => Good'
    <3>1. r \in engines /\ nonce = r
      BY <1>1 DEF NonceInv
    <3>2. \A q \in Runners : pc'[q] \notin {"claimed", "engine"}
      BY <1>1, <2>5, <3>1 DEF NonceInv
    <3> QED
      BY <1>1, <3>1, <3>2 DEF Good
  <2>10. TruthInv'
    BY <1>1, <2>3, <2>5, <2>8, <2>9 DEF TruthInv
  <2>11. ChannelInv'
    BY <1>1, <2>2, <2>5 DEF ChannelInv, Publishing
  <2> QED
    BY <2>6, <2>7, <2>10, <2>11
<1> QED
  BY <1>2, <1>3 DEF Check, Go

LEMMA PublishBeginKeeps ==
  ASSUME Inv, NEW r \in Runners, PublishBegin(r) PROVE Inv'
<1> USE DEF Inv, TypeOK
<1>1. CASE pc' = [pc EXCEPT ![r] = "handling"] /\ UNCHANGED <<lock, partial>>
  BY <1>1 DEF PublishBegin, world, NonceInv, BlockInv, TruthInv, Good, ChannelInv, Before,
    Publishing, Active
<1>2. CASE lock' = r /\ partial' = TRUE /\ pc' = [pc EXCEPT ![r] = "publishing"]
           /\ lock = Nobody /\ meta.state = "running" /\ final = NoResult
  <2>1. /\ pc[r] = "checked"
        /\ UNCHANGED <<package, expired, target, outcome, meta, final, nonce, seen, engines>>
    BY DEF PublishBegin, world
  <2>2. pc'[r] = "publishing" /\ \A q \in Runners : q # r => pc'[q] = pc[q]
    BY <1>2
  <2>3. TypeOK'
    BY <1>2, <2>1 DEF Active
  <2>4. NonceInv' /\ BlockInv' /\ TruthInv'
    BY <2>1, <2>2 DEF NonceInv, BlockInv, TruthInv, Good, Before
  <2>5. \A q \in Runners : pc[q] \notin Publishing
    BY <1>2, NobodyIsNoRunner DEF ChannelInv
  <2>6. ChannelInv'
    BY <1>2, <2>1, <2>2, <2>5 DEF ChannelInv, Publishing
  <2> QED
    BY <2>3, <2>4, <2>6
<1> QED
  BY <1>1, <1>2 DEF PublishBegin, Go

LEMMA PublishRenameKeeps ==
  ASSUME Inv, NEW r \in Runners, PublishRename(r) PROVE Inv'
<1> USE DEF Inv, TypeOK
<1>1. CASE lock' = Nobody /\ pc' = [pc EXCEPT ![r] = "handling"] /\ UNCHANGED <<final, partial>>
  BY <1>1, NobodyIsNoRunner DEF PublishRename, world, NonceInv, BlockInv, TruthInv, Good,
    ChannelInv, Before, Publishing, Active
<1>2. CASE final' = seen[r] /\ partial' = FALSE /\ pc' = [pc EXCEPT ![r] = "renamed"]
           /\ UNCHANGED lock
  <2>1. /\ pc[r] = "publishing"
        /\ UNCHANGED <<package, expired, target, outcome, meta, nonce, seen, engines>>
    BY DEF PublishRename, world
  <2>2. pc'[r] = "renamed" /\ \A q \in Runners : q # r => pc'[q] = pc[q]
    BY <1>2
  <2>3. TypeOK'
    BY <1>2, <2>1 DEF Active
  <2>4. NonceInv' /\ BlockInv'
    BY <2>1, <2>2 DEF NonceInv, BlockInv, Before
  <2>5. TruthInv'
    BY <1>2, <2>1, <2>2 DEF TruthInv, Good
  <2>6. lock = r /\ meta.state = "running" /\ \A q \in Runners : q # r => pc[q] \notin Publishing
    BY <2>1 DEF ChannelInv, Publishing
  <2>7. ChannelInv'
    BY <1>2, <2>1, <2>2, <2>6, NobodyIsNoRunner DEF ChannelInv, Publishing
  <2> QED
    BY <2>3, <2>4, <2>5, <2>7
<1> QED
  BY <1>1, <1>2 DEF PublishRename, Go

LEMMA PublishMetaKeeps ==
  ASSUME Inv, NEW r \in Runners, PublishMeta(r) PROVE Inv'
<1> USE DEF Inv, TypeOK, NonceInv, BlockInv, TruthInv, Good, ChannelInv, Before, Publishing, Active,
  Ended, RETURN_STATES, Go, State, channel, world
<1> QED
  BY NobodyIsNoRunner, ResultsAreResults DEF PublishMeta, Stale, MayFail

LEMMA BlockKeeps ==
  ASSUME Inv, NEW r \in Runners, Block(r) PROVE Inv'
<1> USE DEF Inv, TypeOK, NonceInv, BlockInv, TruthInv, Good, ChannelInv, Before, Publishing, Active,
  Ended, RETURN_STATES, Go, State, channel, world
<1> QED
  BY NobodyIsNoRunner, ResultsAreResults DEF Block, Stale, MayFail

LEMMA HandleKeeps ==
  ASSUME Inv, NEW r \in Runners, Handle(r) PROVE Inv'
<1> USE DEF Inv, TypeOK, NonceInv, BlockInv, TruthInv, Good, ChannelInv, Before, Publishing, Active,
  Ended, RETURN_STATES, Go, State, channel, world
<1> QED
  BY NobodyIsNoRunner, ResultsAreResults DEF Handle, Stale, MayFail

LEMMA FailRunningKeeps ==
  ASSUME Inv, NEW r \in Runners, FailRunning(r) PROVE Inv'
<1> USE DEF Inv, TypeOK, NonceInv, BlockInv, TruthInv, Good, ChannelInv, Before, Publishing, Active,
  Ended, RETURN_STATES, Go, State, channel, world
<1> QED
  BY NobodyIsNoRunner, ResultsAreResults DEF FailRunning, Stale, MayFail

LEMMA CrashKeeps ==
  ASSUME Inv, NEW r \in Runners, Crash(r) PROVE Inv'
<1> USE DEF Inv, TypeOK, NonceInv, BlockInv, TruthInv, Good, ChannelInv, Before, Publishing, Active,
  Ended, RETURN_STATES, Go, State, channel, world
<1> QED
  BY NobodyIsNoRunner, ResultsAreResults DEF Crash, Stale, MayFail

----------------------------------------------------------------------------
LEMMA RunnerKeeps ==
  ASSUME Inv, NEW r \in Runners, RunnerStep(r) \/ Crash(r) PROVE Inv'
BY InitializeKeeps, MarkRunningKeeps, ResolveKeeps, SimulateKeeps, ClaimKeeps,
  StartEngineKeeps, EngineEndsKeeps, CheckKeeps, PublishBeginKeeps, PublishRenameKeeps,
  PublishMetaKeeps, BlockKeeps, HandleKeeps, FailRunningKeeps, CrashKeeps
DEF RunnerStep

LEMMA StepKeeps == Inv /\ [Next]_vars => Inv'
<1> SUFFICES ASSUME Inv, [Next]_vars PROVE Inv'
  OBVIOUS
<1>1. CASE UNCHANGED vars
  BY <1>1 DEF vars, Inv, TypeOK, NonceInv, BlockInv, TruthInv, Good, ChannelInv
<1>2. CASE PrepareChannel \/ PrepareJob \/ Expire
  BY <1>2, PrepareChannelKeeps, PrepareJobKeeps, ExpireKeeps
<1>3. ASSUME NEW r \in Runners, RunnerStep(r) \/ Crash(r) PROVE Inv'
  BY <1>3, RunnerKeeps
<1>4. CASE LockAges \/ Consume \/ ConsumeOther \/ Recover
  BY <1>4, LockAgesKeeps, ConsumeKeeps, ConsumeOtherKeeps, RecoverKeeps
<1> QED
  BY <1>1, <1>2, <1>3, <1>4 DEF Next

LEMMA AlwaysInv == Spec => []Inv
BY InitInv, StepKeeps, PTL DEF Spec

(* The channel, the result and the nonce stay readable whoever writes them  *)
(* (offline_runtime.py:67, 1348-1392).                                      *)
THEOREM ReturnTypeCorrect == Spec => []TypeOK
<1>1. Inv => TypeOK
  BY DEF Inv
<1> QED
  BY <1>1, AlwaysInv, PTL

(* One engine for a job: the nonce is claimed once and never freed, and     *)
(* only who claimed it starts the engine.                                   *)
THEOREM OneEngine == Spec => []EngineOnce
<1>1. Inv => EngineOnce
  BY DEF Inv, NonceInv, EngineOnce
<1> QED
  BY <1>1, AlwaysInv, PTL

(* A success that is consumed is true, however many runners were started:   *)
(* a whole copy was seen after the engine, and no engine starts after it.   *)
THEOREM ConsumedSuccess == Spec => []SuccessIsTrue
<1>1. Inv => SuccessIsTrue
  BY DEF Inv, TruthInv, Good, SuccessIsTrue
<1> QED
  BY <1>1, AlwaysInv, PTL

(* A result that is announced is there, whole and as announced.             *)
THEOREM AnnouncedIsThere == Spec => []AnnouncedIsWhole
<1>1. Inv => AnnouncedIsWhole
  BY DEF Inv, ChannelInv, AnnouncedIsWhole
<1> QED
  BY <1>1, AlwaysInv, PTL

(* "Not executed" is never said of a runner that started the engine.        *)
THEOREM BlockedIsHonest == Spec => []BlockedRanNothing
<1>1. Inv => BlockedRanNothing
  BY DEF Inv, BlockInv, Before, BlockedRanNothing
<1> QED
  BY <1>1, AlwaysInv, PTL

(* Neither a late runner nor the owner revives a failed channel: what has   *)
(* the lock while it publishes keeps it running until it is done.           *)
THEOREM FailureIsFinal == Spec => FailedIsFinal
<1>1. ASSUME Inv, [Next]_vars, meta.state = "failed" PROVE meta'.state = "failed"
  <2>1. CASE UNCHANGED vars
    BY <1>1, <2>1 DEF vars
  <2>2. CASE PrepareChannel \/ PrepareJob \/ Expire \/ LockAges
    BY <1>1, <2>2 DEF PrepareChannel, PrepareJob, Expire, LockAges, channel
  <2>3. CASE Consume \/ ConsumeOther \/ Recover
    BY <1>1, <2>3 DEF Consume, ConsumeOther, Recover, State, Inv, TypeOK
  <2>4. ASSUME NEW r \in Runners, RunnerStep(r) \/ Crash(r) PROVE meta'.state = "failed"
    <3>1. pc[r] # "renamed"
      BY <1>1 DEF Inv, ChannelInv
    <3>2. CASE Block(r) \/ FailRunning(r)
      BY <1>1, <3>2 DEF Block, FailRunning, State, Inv, TypeOK
    <3>3. CASE MarkRunning(r)
      BY <1>1, <3>3 DEF MarkRunning
    <3> QED
      BY <1>1, <2>4, <3>1, <3>2, <3>3 DEF RunnerStep, Initialize, Resolve, Simulate, Claim, StartEngine,
        EngineEnds, Check, PublishBegin, PublishRename, PublishMeta, Handle, Crash, channel
  <2> QED
    BY <1>1, <2>1, <2>2, <2>3, <2>4 DEF Next
<1>2. Inv /\ [Next]_vars => [meta.state = "failed" => meta'.state = "failed"]_vars
  BY <1>1
<1> QED
  BY <1>2, AlwaysInv, PTL DEF Spec, FailedIsFinal

(* The package under the final name is written once.                        *)
THEOREM ResultStays == Spec => ResultIsFixed
<1>1. ASSUME Inv, [Next]_vars, final # NoResult PROVE final' = final
  <2>1. CASE UNCHANGED vars
    BY <2>1 DEF vars
  <2>2. CASE PrepareChannel \/ PrepareJob \/ Expire \/ LockAges \/ Consume \/ ConsumeOther \/ Recover
    BY <2>2 DEF PrepareChannel, PrepareJob, Expire, LockAges, Consume, ConsumeOther, Recover, channel
  <2>3. ASSUME NEW r \in Runners, RunnerStep(r) \/ Crash(r) PROVE final' = final
    <3>1. pc[r] # "publishing"
      BY <1>1 DEF Inv, ChannelInv
    <3> QED
      BY <2>3, <3>1 DEF RunnerStep, Initialize, MarkRunning, Resolve, Simulate, Claim, StartEngine,
        EngineEnds, Check, PublishBegin, PublishRename, PublishMeta, Block, Handle, FailRunning,
        Crash, channel
  <2> QED
    BY <1>1, <2>1, <2>2, <2>3 DEF Next
<1>2. Inv /\ [Next]_vars => [final # NoResult => final' = final]_vars
  BY <1>1
<1> QED
  BY <1>2, AlwaysInv, PTL DEF Spec, ResultIsFixed

(* A success, an announcement and a refusal are what happened.              *)
THEOREM ReturnTrue == Spec => []ReturnIsTrue
BY ConsumedSuccess, AnnouncedIsThere, BlockedIsHonest, PTL DEF ReturnIsTrue

(* Failure and result are final.                                            *)
THEOREM EndsAreFinal == Spec => ChannelIsFinal
BY FailureIsFinal, ResultStays, PTL DEF ChannelIsFinal
=============================================================================
