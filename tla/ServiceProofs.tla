--------------------------- MODULE ServiceProofs ---------------------------
(***************************************************************************)
(* Proofs about Service for every configuration, every destination and any *)
(* number of restarts.                                                     *)
(*                                                                         *)
(* Where a benchmark begins depends on what earlier runs and processes     *)
(* left behind. IInv adds to the properties what they left can be: a call  *)
(* only of a run that is over, a head that is not below what Start has     *)
(* read, and no run that reaches past the configured end.                  *)
(***************************************************************************)
EXTENDS Service, TLAPS

\* Start counts its attempts only while it looks for a synced destination.
SyncInv ==
  /\ service = "load" => syncFailures = 0
  /\ service = "sync" => syncFailures < SyncAttempts

\* A call is left behind only by a run that has returned.
AbandonedInv ==
  abandoned # "none" =>
    service \in {"reload", "verify", "failed", "benchmark", "close", "returned"}

\* The destination's head never falls behind what Start has seen of it.
HeadInv ==
  /\ currentBlock <= head
  /\ cfg.startBlock # 0 /\ service \in {"benchmark", "close", "returned"} =>
       head >= cfg.startBlock

BoundedConfig == cfg.startBlock # 0 /\ cfg.startBlock + cfg.blockCount >= 0

EndInv == BoundedConfig => runEnd <= ConfiguredEnd

IInv == /\ TypeOK /\ SyncInv /\ AbandonedInv /\ HeadInv /\ EndInv
        /\ StartsOnStartBlock /\ WalkUpFaithful

\* What ClosesWhenReplayed rests on: while nobody has stopped the benchmark no
\* call is left behind, so only its own run moves the head, from where Start has
\* seen it, and never beyond what the source has.
ReplayedInv ==
  /\ head <= MaxInt64
  /\ abandoned # "none" => BenchmarkDone
  /\ service = "verify" /\ ~BenchmarkDone => currentBlock = head
  /\ service \in {"benchmark", "close"} /\ ~BenchmarkDone =>
       /\ runEnd = Uint64(runStart + Uint64(cfg.blockCount))
       /\ runStart <= head
       /\ head # runStart => head <= runEnd /\ head <= SourceHead
  /\ service = "close" /\ ~BenchmarkDone => head >= runEnd

-----------------------------------------------------------------------------
(* The conversions.                                                         *)

\* The largest int is half of the largest uint64.
LEMMA IntType ==
  /\ MaxInt64 \in Nat /\ MaxUint64 = 2 * MaxInt64 + 1
  /\ SourceHead \in Nat /\ SourceHead <= MaxInt64
  /\ InitialHeads \subseteq 0 .. MaxInt64
  <1>1. MaxInt64 \in Nat
    BY ServiceAssumption DEF MaxInt64
  <1> QED BY <1>1, ServiceAssumption

\* The configuration that is in use has a start block and a number of blocks
\* that an option can hold.
LEMMA ConfigType ==
  ASSUME cfg \in Configs
  PROVE  /\ cfg.startBlock \in Nat /\ cfg.blockCount \in Int
         /\ cfg.blockCount >= -MaxUint64 /\ cfg.blockCount <= MaxUint64
         /\ MaxUint64 \in Nat /\ ConfiguredEnd \in Nat
         /\ cfg.startBlock <= ConfiguredEnd
         /\ cfg.blockCount >= -(MaxInt64 + 1) /\ cfg.blockCount <= MaxInt64
BY ServiceAssumption, IntType DEF ConfiguredEnd

\* The unsigned end of a benchmark is a number, and not above the signed one
\* unless that is negative.
LEMMA EndOfBenchmark ==
  ASSUME NEW first \in Nat, NEW count \in Int, MaxUint64 \in Nat,
         count >= -MaxUint64, count <= MaxUint64
  PROVE  /\ Uint64(first + Uint64(count)) \in Nat
         /\ first + count >= 0 => Uint64(first + Uint64(count)) <= first + count
  <1>1. CASE count >= 0
    <2>1. Uint64(count) = count
      BY <1>1 DEF Uint64
    <2>2. first + count \in Nat
      BY <1>1
    <2> QED BY <2>1, <2>2 DEF Uint64
  <1>2. CASE count < 0
    <2>1. Uint64(count) = count + MaxUint64 + 1 /\ Uint64(count) \in Nat
      BY <1>2 DEF Uint64
    <2> DEFINE end == first + Uint64(count)
    <2>2. end \in Nat /\ end = first + count + MaxUint64 + 1
      BY <2>1
    <2>3. Uint64(end) = IF end > MaxUint64 THEN end - (MaxUint64 + 1) ELSE end
      BY <2>2 DEF Uint64
    <2> QED BY <2>2, <2>3
  <1> QED BY <1>1, <1>2

-----------------------------------------------------------------------------
(* The invariant.                                                           *)

\* Before the first process there is nothing left behind.
LEMMA InvInit == Init => IInv
  <1> SUFFICES ASSUME Init PROVE IInv
    OBVIOUS
  <1>1. TypeOK
    <2>1. head \in Nat /\ SyncAttempts \in Nat /\ MaxRestarts \in Nat
      BY ServiceAssumption, IntType DEF Init
    <2>2. syncFailures \in 0 .. SyncAttempts /\ restarts \in 0 .. MaxRestarts
      BY <2>1 DEF Init
    <2>3. cfg \in Configs /\ up \subseteq Ports /\ faithfulTo <= head
      BY <2>1 DEF Init
    <2> QED BY <2>1, <2>2, <2>3 DEF Init, TypeOK
  <1>2. SyncInv /\ AbandonedInv /\ StartsOnStartBlock /\ WalkUpFaithful
    BY <1>1, ServiceAssumption DEF Init, TypeOK, SyncInv, AbandonedInv,
       StartsOnStartBlock, WalkUpFaithful
  <1>3. HeadInv /\ EndInv
    BY <1>1, ConfigType DEF Init, TypeOK, HeadInv, EndInv
  <1> QED BY <1>1, <1>2, <1>3 DEF IInv

\* A block more on the destination keeps to the source's chain below the start
\* block and to the configured end.
LEMMA ExtendKeeps ==
  ASSUME IInv, Extend,
         abandoned = "call" \/ service \in {"walkUp", "benchmark"}
  PROVE  /\ head' \in Nat /\ head' = head + 1
         /\ faithfulTo' \in Nat /\ faithfulTo' <= head'
         /\ BoundedConfig => head' <= ConfiguredEnd
         /\ cfg.startBlock # 0 =>
              faithfulTo' >= head' \/ faithfulTo' >= cfg.startBlock
  <1> USE DEF IInv, TypeOK
  <1>1. /\ head' \in Nat /\ head' = head + 1 /\ head < runEnd
        /\ faithfulTo' \in Nat /\ faithfulTo' <= head'
    BY DEF Extend, ExtendBy
  <1>2. BoundedConfig => head' <= ConfiguredEnd
    BY <1>1, ConfigType DEF EndInv
  <1>3. CASE RunStrategy = "replay"
    BY <1>1, <1>2, <1>3 DEF Extend, ExtendBy
  <1>4. CASE RunStrategy # "replay"
    <2>1. service \in {"benchmark", "close", "returned"} /\ faithfulTo' = faithfulTo
      BY <1>4 DEF Extend, ExtendBy, RunStrategy, AbandonedInv
    <2>2. cfg.startBlock # 0 => head >= cfg.startBlock
      BY <2>1 DEF HeadInv
    <2>3. cfg.startBlock # 0 => faithfulTo >= cfg.startBlock
      BY <2>2, ConfigType DEF WalkUpFaithful
    <2> QED BY <1>1, <1>2, <2>1, <2>3
  <1> QED BY <1>3, <1>4

\* Steps that leave the configuration, the service's place and its runs alone
\* and at most add a block.
LEMMA BlockKeepsInv ==
  ASSUME IInv,
         \/ Extend /\ (abandoned = "call" \/ service \in {"walkUp", "benchmark"})
         \/ UNCHANGED destVars,
         UNCHANGED <<outerVars, service, currentBlock, syncFailures, runStart, runEnd,
                     contextVars>>,
         crashed' \in BOOLEAN,
         abandoned' \in {"none", "landed"} \/ abandoned' = abandoned,
         abandoned = "none" => abandoned' = "none"
  PROVE  IInv'
  <1> USE DEF IInv, outerVars, nodeVars, contextVars, destVars
  <1>1. /\ head' \in Nat /\ head' >= head
        /\ faithfulTo' \in Nat /\ faithfulTo' <= head'
        /\ cfg.startBlock # 0 =>
             faithfulTo' >= head' \/ faithfulTo' >= cfg.startBlock
    <2>1. CASE UNCHANGED destVars
      BY <2>1 DEF TypeOK, WalkUpFaithful
    <2>2. CASE Extend /\ (abandoned = "call" \/ service \in {"walkUp", "benchmark"})
      BY <2>2, ExtendKeeps DEF TypeOK
    <2> QED BY <2>1, <2>2
  <1>2. TypeOK'
    BY <1>1 DEF TypeOK
  <1>3. SyncInv' /\ AbandonedInv'
    BY DEF SyncInv, AbandonedInv, TypeOK
  <1>4. HeadInv' /\ StartsOnStartBlock'
    BY <1>1, ConfigType DEF HeadInv, StartsOnStartBlock, TypeOK
  <1>5. EndInv' /\ WalkUpFaithful'
    BY <1>1 DEF EndInv, BoundedConfig, ConfiguredEnd, WalkUpFaithful
  <1> QED BY <1>2, <1>3, <1>4, <1>5

\* A crash takes its call with it, in effect or not.
LEMMA CrashKeepsInv == IInv /\ Crash => IInv'
  <1> SUFFICES ASSUME IInv, Crash PROVE IInv'
    OBVIOUS
  <1> QED BY BlockKeepsInv DEF Crash

\* Steps of Start that leave the destination alone and begin no run.
LEMMA MoveKeepsInv ==
  ASSUME IInv,
         UNCHANGED <<destVars, cfg, restarts, runStart, runEnd, stopped, crashed>>,
         up' \subseteq Ports, syncing' \in BOOLEAN,
         appDone' \in BOOLEAN,
         service' \in {"load", "sync", "check", "reload", "verify", "close", "returned",
                       "failed", service},
         currentBlock' \in {currentBlock, head},
         syncFailures' \in 0 .. SyncAttempts,
         SyncInv', AbandonedInv', abandoned' \in {abandoned, "call"},
         service' \in {"close", "returned"} =>
           service \in {"benchmark", "close", "returned"}
  PROVE  IInv'
  <1> USE DEF IInv, destVars
  <1>1. TypeOK'
    BY DEF TypeOK
  <1>2. HeadInv'
    BY <1>1, ConfigType DEF HeadInv, TypeOK
  <1>3. EndInv' /\ StartsOnStartBlock' /\ WalkUpFaithful'
    BY DEF EndInv, BoundedConfig, ConfiguredEnd, StartsOnStartBlock, WalkUpFaithful
  <1> QED BY <1>1, <1>2, <1>3

\* The walk-up ends on the start block.
LEMMA WalkUpKeepsInv == IInv /\ WalkUp => IInv'
  <1> SUFFICES ASSUME IInv, WalkUp PROVE IInv'
    OBVIOUS
  <1> USE DEF IInv, WalkUp, At, destVars, outerVars, nodeVars, contextVars
  <1>1. runEnd' = cfg.startBlock /\ runEnd' \in Nat
    BY ConfigType DEF TypeOK
  <1>2. TypeOK'
    BY <1>1 DEF TypeOK
  <1>3. SyncInv' /\ AbandonedInv' /\ HeadInv' /\ StartsOnStartBlock' /\ WalkUpFaithful'
    BY DEF SyncInv, AbandonedInv, HeadInv, StartsOnStartBlock, WalkUpFaithful
  <1>4. EndInv'
    BY <1>1, ConfigType DEF EndInv, BoundedConfig, ConfiguredEnd, TypeOK
  <1> QED BY <1>2, <1>3, <1>4

\* The benchmark begins on what has just been verified.
LEMMA StartBenchmarkKeepsInv == IInv /\ StartBenchmark => IInv'
  <1> SUFFICES ASSUME IInv, StartBenchmark PROVE IInv'
    OBVIOUS
  <1> USE DEF IInv, StartBenchmark, At, destVars, outerVars, nodeVars, contextVars
  <1> USE ConfigType
  <1>1. /\ runEnd' \in Nat
        /\ currentBlock + cfg.blockCount >= 0 =>
             runEnd' <= currentBlock + cfg.blockCount
    BY EndOfBenchmark DEF TypeOK
  <1>2. TypeOK'
    BY <1>1 DEF TypeOK
  <1>3. SyncInv' /\ AbandonedInv' /\ WalkUpFaithful'
    BY DEF SyncInv, AbandonedInv, WalkUpFaithful
  <1>4. HeadInv' /\ StartsOnStartBlock'
    BY DEF HeadInv, StartsOnStartBlock, Verified, TypeOK
  <1>5. EndInv'
    <2> SUFFICES ASSUME BoundedConfig PROVE runEnd' <= ConfiguredEnd
      BY DEF EndInv, BoundedConfig, ConfiguredEnd
    <2>1. currentBlock = cfg.startBlock
      BY DEF Verified, BoundedConfig
    <2>2. runEnd' <= cfg.startBlock + cfg.blockCount
      BY <1>1, <2>1 DEF BoundedConfig
    <2> QED BY <1>1, <2>2, ConfigType DEF ConfiguredEnd, TypeOK
  <1> QED BY <1>2, <1>3, <1>4, <1>5

\* A new process starts from the destination alone.
LEMMA RestartKeepsInv == IInv /\ Restart => IInv'
  <1> SUFFICES ASSUME IInv, Restart PROVE IInv'
    OBVIOUS
  <1> USE DEF IInv, Restart, destVars
  <1>1. TypeOK'
    <2>1. SyncAttempts \in Nat /\ MaxRestarts \in Nat
      BY ServiceAssumption
    <2>2. syncFailures' \in 0 .. SyncAttempts /\ restarts' \in 0 .. MaxRestarts
      BY <2>1 DEF TypeOK
    <2> QED BY <2>2 DEF TypeOK
  <1>2. SyncInv' /\ AbandonedInv' /\ StartsOnStartBlock' /\ WalkUpFaithful'
    BY ServiceAssumption DEF SyncInv, AbandonedInv, StartsOnStartBlock, WalkUpFaithful
  <1>3. HeadInv' /\ EndInv'
    BY <1>1, ConfigType DEF HeadInv, EndInv, BoundedConfig, ConfiguredEnd, TypeOK
  <1> QED BY <1>1, <1>2, <1>3

\* Start's steps keep the invariant.
LEMMA StartKeepsInv == IInv /\ StartStep => IInv'
  <1> SUFFICES ASSUME IInv, StartStep PROVE IInv'
    OBVIOUS
  <1> USE DEF IInv, At, destVars, outerVars, nodeVars, runVars, contextVars
  <1>1. CASE Load
    <2>1. SyncInv' /\ AbandonedInv'
      BY <1>1, ServiceAssumption DEF Load, SyncInv, AbandonedInv
    <2> QED BY <1>1, <2>1, MoveKeepsInv DEF Load, TypeOK
  <1>2. CASE SyncValid \/ SyncCancelled \/ NoWalkUp \/ Reload \/ VerifyFails
    BY <1>2, MoveKeepsInv DEF SyncValid, SyncCancelled, NoWalkUp, Reload,
       VerifyFails, TypeOK, SyncInv, AbandonedInv
  <1>3. CASE SyncFails
    <2>1. syncFailures' \in 0 .. SyncAttempts
      BY <1>3, ServiceAssumption DEF SyncFails, TypeOK, SyncInv
    <2>2. SyncInv' /\ AbandonedInv'
      BY <1>3, <2>1, ServiceAssumption DEF SyncFails, SyncInv, AbandonedInv, TypeOK
    <2> QED BY <1>3, <2>1, <2>2, MoveKeepsInv DEF SyncFails, TypeOK
  <1>4. CASE RunReturns \/ Close
    BY <1>4, MoveKeepsInv DEF RunReturns, Running, Close, TypeOK, SyncInv, AbandonedInv
  <1>5. CASE RunAddsBlock
    BY <1>5, BlockKeepsInv DEF RunAddsBlock, Running, TypeOK
  <1>6. CASE LoadPanics \/ AlreadyPast \/ RunCrashes \/ NoStrategy
    BY <1>6, CrashKeepsInv DEF LoadPanics, AlreadyPast, RunCrashes, NoStrategy
  <1>7. CASE WalkUp
    BY <1>7, WalkUpKeepsInv
  <1>8. CASE StartBenchmark
    BY <1>8, StartBenchmarkKeepsInv
  <1> QED BY <1>1, <1>2, <1>3, <1>4, <1>5, <1>6, <1>7, <1>8 DEF StartStep

\* No step of Start or of the world around it breaks the invariant.
LEMMA InvStep == IInv /\ [Next]_vars => IInv'
  <1> SUFFICES ASSUME IInv, [Next]_vars PROVE IInv'
    OBVIOUS
  <1> USE DEF IInv, destVars, outerVars, nodeVars, runVars, contextVars
  <1>1. CASE StartStep
    BY <1>1, StartKeepsInv
  <1>2. CASE AbandonedLands
    BY <1>2, BlockKeepsInv DEF AbandonedLands, TypeOK
  <1>3. CASE LeftoverCrashes \/ SetUpFails
    BY <1>3, CrashKeepsInv DEF LeftoverCrashes, SetUpFails
  <1>4. CASE Stop
    BY <1>4 DEF Stop, TypeOK, SyncInv, AbandonedInv, HeadInv, EndInv, BoundedConfig,
       ConfiguredEnd, StartsOnStartBlock, WalkUpFaithful
  <1>5. CASE Interrupt \/ PortOpens \/ NodeSynced
    BY <1>5, MoveKeepsInv DEF Interrupt, PortOpens, NodeSynced, TypeOK, SyncInv,
       AbandonedInv
  <1>6. CASE Restart
    BY <1>6, RestartKeepsInv
  <1>7. CASE UNCHANGED vars
    BY <1>7 DEF vars, TypeOK, SyncInv, AbandonedInv, HeadInv, EndInv, BoundedConfig,
       ConfiguredEnd, StartsOnStartBlock, WalkUpFaithful
  <1> QED BY <1>1, <1>2, <1>3, <1>4, <1>5, <1>6, <1>7 DEF Next, Terminated

\* The head moves only in a run, or for a call that one left behind.
LEMMA StepExtends ==
  [Next]_vars /\ head' # head =>
    Extend /\ (abandoned = "call" \/ service \in {"walkUp", "benchmark"})
BY DEF Next, StartStep, vars, destVars, Crash, At, Running,
   Load, LoadPanics, SyncValid, SyncFails, SyncCancelled, WalkUp, AlreadyPast, NoWalkUp,
   RunAddsBlock, RunReturns, RunCrashes, Reload, VerifyFails, NoStrategy,
   StartBenchmark, Close, AbandonedLands, LeftoverCrashes, SetUpFails, Stop, Interrupt,
   PortOpens, NodeSynced, Restart, Terminated

\* Under the invariant the head moves only as NeverPastTheEnd says.
LEMMA StepWithinEnd ==
  IInv /\ [Next]_vars =>
    (cfg.startBlock # 0 /\ cfg.startBlock + cfg.blockCount >= 0 /\ head' # head =>
       head' <= ConfiguredEnd)
BY StepExtends, ExtendKeeps DEF BoundedConfig

-----------------------------------------------------------------------------
(* Every block of the benchmark.                                            *)

\* A run gets no block beyond the last one of the source.
LEMMA FetchableHere ==
  ASSUME runStart \in Nat
  PROVE  FetchableTo \in Int /\ FetchableTo <= SourceHead
BY ServiceAssumption, IntType DEF FetchableTo

\* An end that wraps is out of reach; one that does not is the signed one.
LEMMA EndReached ==
  ASSUME NEW first \in 0 .. MaxInt64, NEW last \in 0 .. MaxInt64,
         NEW count \in -(MaxInt64 + 1) .. MaxInt64,
         NEW end \in Nat, end = Uint64(first + Uint64(count)),
         first <= last, last >= end,
         last # first => last <= end
  PROVE  last = first + IF count > 0 THEN count ELSE 0
  <1> USE IntType
  <1>1. CASE count >= 0
    <2>1. Uint64(count) = count
      BY <1>1 DEF Uint64
    <2>2. end = first + count
      BY <1>1, <2>1 DEF Uint64
    <2> QED BY <1>1, <2>2
  <1>2. CASE count < 0
    <2>1. Uint64(count) = count + MaxUint64 + 1
      BY <1>2 DEF Uint64
    <2> DEFINE sum == first + Uint64(count)
    <2>2. sum \in Nat /\ sum = first + count + MaxUint64 + 1
      BY <2>1
    <2>3. end = IF sum > MaxUint64 THEN sum - (MaxUint64 + 1) ELSE sum
      BY <2>2 DEF Uint64
    <2>4. CASE first + count >= 0
      <3>1. end = first + count
        BY <2>2, <2>3, <2>4
      <3> QED BY <1>2, <3>1
    <2>5. CASE first + count < 0
      <3>1. end = first + count + MaxUint64 + 1
        BY <2>2, <2>3, <2>5
      <3>2. end > last
        BY <3>1
      <3> QED BY <3>2
    <2> QED BY <2>4, <2>5
  <1> QED BY <1>1, <1>2

\* The first process finds a chain that is not too long.
LEMMA ReplayedInit == Init => ReplayedInv
  <1> SUFFICES ASSUME Init PROVE ReplayedInv
    OBVIOUS
  <1>1. head <= MaxInt64
    BY IntType DEF Init
  <1> QED BY <1>1 DEF Init, ReplayedInv

\* The steps that may add a block and do not move Start.
LEMMA BlockKeepsReplayed ==
  ASSUME IInv, ReplayedInv,
         \/ Extend /\ (abandoned = "call" \/ service \in {"walkUp", "benchmark"})
         \/ UNCHANGED head,
         UNCHANGED <<cfg, service, currentBlock, runStart, runEnd>>,
         BenchmarkDone => BenchmarkDone',
         abandoned = "none" => abandoned' = "none"
  PROVE  ReplayedInv'
  <1> USE DEF IInv, TypeOK, ReplayedInv
  <1>1. CASE UNCHANGED head
    BY <1>1, Zenon
  <1>2. CASE Extend /\ (abandoned = "call" \/ service \in {"walkUp", "benchmark"})
    <2>1. /\ head' = head + 1 /\ head' <= runEnd /\ head' <= SourceHead
          /\ head' <= MaxInt64
      BY <1>2, FetchableHere, IntType DEF Extend, ExtendBy
    <2>2. ~BenchmarkDone => service \in {"walkUp", "benchmark"}
      BY <1>2
    <2> QED BY <2>1, <2>2
  <1> QED BY <1>1, <1>2

\* Every other step leaves the head alone.
LEMMA ReplayedStep == IInv /\ ReplayedInv /\ [Next]_vars => ReplayedInv'
  <1> SUFFICES ASSUME IInv, ReplayedInv, [Next]_vars PROVE ReplayedInv'
    OBVIOUS
  <1> USE DEF destVars, outerVars, nodeVars, runVars, contextVars, At
  <1>1. ASSUME Crash PROVE ReplayedInv'
    <2>1. BenchmarkDone => BenchmarkDone'
      BY <1>1 DEF Crash, BenchmarkDone
    <2> QED BY <1>1, <2>1, BlockKeepsReplayed DEF Crash
  <1>2. CASE LoadPanics \/ AlreadyPast \/ RunCrashes \/ NoStrategy \/ LeftoverCrashes
             \/ SetUpFails
    BY <1>1, <1>2 DEF LoadPanics, AlreadyPast, RunCrashes, NoStrategy, LeftoverCrashes,
       SetUpFails
  <1>3. CASE RunAddsBlock \/ AbandonedLands
    <2>1. BenchmarkDone => BenchmarkDone'
      BY <1>3 DEF RunAddsBlock, AbandonedLands, BenchmarkDone
    <2> QED BY <1>3, <2>1, BlockKeepsReplayed DEF RunAddsBlock, Running, AbandonedLands
  <1>4. CASE Stop \/ Interrupt \/ PortOpens \/ NodeSynced \/ UNCHANGED vars
    <2>1. BenchmarkDone => BenchmarkDone'
      BY <1>4 DEF Stop, Interrupt, PortOpens, NodeSynced, vars, BenchmarkDone
    <2> QED BY <1>4, <2>1, BlockKeepsReplayed DEF Stop, Interrupt, PortOpens, NodeSynced,
               vars
  <1>5. CASE Restart
    BY <1>5 DEF Restart, ReplayedInv
  <1>6. CASE Load \/ SyncValid \/ SyncFails \/ SyncCancelled \/ WalkUp \/ NoWalkUp
             \/ Reload \/ VerifyFails
    BY <1>6 DEF Load, SyncValid, SyncFails, SyncCancelled, WalkUp, NoWalkUp, Reload,
       VerifyFails, ReplayedInv, BenchmarkDone
  <1>7. CASE StartBenchmark
    BY <1>7 DEF StartBenchmark, ReplayedInv, BenchmarkDone, IInv, TypeOK
  <1>8. CASE RunReturns \/ Close
    BY <1>8 DEF RunReturns, Running, Close, ReplayedInv, BenchmarkDone, IInv, TypeOK
  <1> QED BY <1>2, <1>3, <1>4, <1>5, <1>6, <1>7, <1>8
             DEF Next, StartStep, Terminated

\* A closed benchmark that nobody stopped has come to its end.
LEMMA ReplayedCloses == IInv /\ ReplayedInv => ClosesWhenReplayed
  <1> SUFFICES ASSUME IInv, ReplayedInv, service = "close", ~BenchmarkDone
               PROVE  head = runStart + IF cfg.blockCount > 0 THEN cfg.blockCount ELSE 0
    BY DEF ClosesWhenReplayed
  <1>1. cfg.blockCount \in -(MaxInt64 + 1) .. MaxInt64
    BY ConfigType, IntType DEF IInv, TypeOK
  <1>2. /\ runStart \in 0 .. MaxInt64 /\ head \in 0 .. MaxInt64 /\ runEnd \in Nat
        /\ runStart <= head /\ head >= runEnd
        /\ head # runStart => head <= runEnd
    BY IntType DEF IInv, TypeOK, ReplayedInv
  <1>3. runEnd = Uint64(runStart + Uint64(cfg.blockCount))
    BY DEF ReplayedInv
  <1> QED BY <1>1, <1>2, <1>3, EndReached

-----------------------------------------------------------------------------
(* Theorems                                                                 *)

\* The invariant holds throughout.
LEMMA Invariant == Safety => []IInv
BY InvInit, InvStep, PTL DEF Safety

\* The state keeps its shape: the attempts stay within their bound, and the end
\* of a benchmark is a number however its configured length wraps.
THEOREM ServiceTypeCorrect == Safety => []TypeOK
  <1>1. IInv => TypeOK
    BY DEF IInv
  <1> QED BY Invariant, <1>1, PTL

\* With a start block configured a benchmark begins on it or not at all
\* (service.go: the check after the walk-up), after any history of processes.
THEOREM BenchmarkStartsOnStartBlock == Safety => []StartsOnStartBlock
  <1>1. IInv => StartsOnStartBlock
    BY DEF IInv
  <1> QED BY Invariant, <1>1, PTL

\* Up to the start block the destination only ever gets the source's own blocks.
THEOREM WalkUpIsFaithful == Safety => []WalkUpFaithful
  <1>1. IInv => WalkUpFaithful
    BY DEF IInv
  <1> QED BY Invariant, <1>1, PTL

\* No process, and no call that one leaves behind, adds a block beyond the one
\* configured benchmark, the wrapping of the unsigned end included.
THEOREM NeverPastConfiguredEnd == Safety => NeverPastTheEnd
BY Invariant, StepWithinEnd, PTL DEF Safety, NeverPastTheEnd

\* The application is closed by a benchmark that nobody stopped only when all
\* its blocks have been added (service.go: the close after Run): an unsigned
\* end that has wrapped is beyond what any source has.
THEOREM ClosesOnceReplayed == Safety => []ClosesWhenReplayed
  <1>1. IInv /\ ReplayedInv /\ [Next]_vars => (IInv /\ ReplayedInv)'
    BY InvStep, ReplayedStep
  <1> QED BY InvInit, ReplayedInit, <1>1, ReplayedCloses, PTL DEF Safety
=============================================================================
