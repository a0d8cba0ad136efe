--------------------------- MODULE ReplayorProofs ---------------------------
(***************************************************************************)
(* Proofs about the whole process, for all sets of options. Every step of  *)
(* main is a step of Service or leaves it alone, so what ServiceProofs     *)
(* proves carries over; MainInv adds what the set-up has made sure of by   *)
(* the time it hands over.                                                 *)
(***************************************************************************)
EXTENDS Replayor, ServiceProofs

\* Only a process that is about to end has used up its attempts.
DialsInv == dials < DialAttempts \/ crashed

\* What the steps before main's present one have established.
SetUpInv ==
  /\ main \in {"engine", "storage", "started"} /\ flags.executionUrl = "ws" =>
       "execution" \in up
  /\ main \in {"storage", "started"} => "engine" \in up
  /\ main # "started" => service = "load"

\* An unknown strategy is walked up with, never run.
UnknownStrategyInv ==
  flags.strategy = "other" =>
    /\ service \notin {"benchmark", "close", "returned"}
    /\ runEnd <= flags.benchmarkStartBlock

MainInv == /\ flags \in FlagSets /\ cfg = ReplayorConfig(flags)
           /\ main \in {"config", "source", "execution", "engine", "storage", "started"}
           /\ dials \in 0 .. DialAttempts
           /\ DialsInv /\ SetUpInv /\ UnknownStrategyInv

-----------------------------------------------------------------------------
(* The process implements the service.                                      *)

\* Every step of main is one of Service, or leaves it alone.
LEMMA MainStep == [MainNext]_allVars => [Next]_vars
BY DEF MainNext, SetUp, LoadConfig, ConfigInvalid, DialSource, SourceFails, Dial,
   DialFails, DialCancelled, OpenStorage, StorageFails, Proceed, ServiceStep, Leftover,
   World, RestartProcess, MainTerminated, Next, allVars

\* main hands over to a service that behaves as Service says: what is proved of
\* Service holds of the process.
THEOREM MainImplementsService == MainSpec => Safety
  <1>1. MainInit => Init
    BY DEF MainInit
  <1> QED BY <1>1, MainStep, PTL DEF MainSpec, Safety

\* The same for each of Service's properties that are proved.
THEOREM MainStartsOnStartBlock == MainSpec => []StartsOnStartBlock
BY MainImplementsService, BenchmarkStartsOnStartBlock, PTL

\* The walk-up's faithfulness in the whole process.
THEOREM MainWalksUpFaithfully == MainSpec => []WalkUpFaithful
BY MainImplementsService, WalkUpIsFaithful, PTL

\* The configured end in the whole process.
THEOREM MainNeverPastTheEnd == MainSpec => NeverPastTheEnd
BY MainImplementsService, NeverPastConfiguredEnd, PTL

\* What the closing of the application means in the whole process.
THEOREM MainClosesOnceReplayed == MainSpec => []ClosesWhenReplayed
BY MainImplementsService, ClosesOnceReplayed, PTL

-----------------------------------------------------------------------------
(* What the set-up makes sure of.                                           *)

\* Before its first step main has established nothing.
LEMMA MainInvInit == MainInit => MainInv
  <1> SUFFICES ASSUME MainInit PROVE MainInv
    OBVIOUS
  <1>1. dials \in 0 .. DialAttempts /\ DialsInv
    BY ReplayorAssumption DEF MainInit, DialsInv
  <1>2. runEnd <= flags.benchmarkStartBlock
    BY ConfigType DEF MainInit, Init, ReplayorConfig
  <1> QED BY <1>1, <1>2 DEF MainInit, Init, MainInv, SetUpInv, UnknownStrategyInv

\* A step before Start leaves the service before its first step.
LEMMA SetUpKeepsInv == IInv /\ MainInv /\ SetUp => MainInv'
  <1> SUFFICES ASSUME IInv, MainInv, SetUp PROVE MainInv'
    OBVIOUS
  <1> USE DEF MainInv, vars, destVars, nodeVars, runVars, contextVars, mainVars, allVars,
      Preparing
  <1>1. ASSUME SetUpFails, UNCHANGED <<flags, main>>, dials' \in 0 .. DialAttempts
        PROVE  MainInv'
    BY <1>1 DEF SetUpFails, Crash, outerVars, nodeVars, DialsInv, SetUpInv,
       UnknownStrategyInv
  <1>2. ASSUME NEW step \in {"source", "execution", "engine", "storage", "started"},
               Proceed(step), SetUpInv'
        PROVE  MainInv'
    BY <1>2, ReplayorAssumption DEF Proceed, DialsInv, UnknownStrategyInv
  <1>3. CASE LoadConfig \/ DialSource
    BY <1>3, <1>2 DEF LoadConfig, DialSource, Proceed, SetUpInv
  <1>4. CASE OpenStorage
    BY <1>4, <1>2 DEF OpenStorage, Proceed, SetUpInv
  <1>5. CASE Dial("execution", "engine")
    BY <1>5, <1>2 DEF Dial, Dialled, Proceed, SetUpInv
  <1>6. CASE Dial("engine", "storage")
    BY <1>6, <1>2 DEF Dial, Dialled, Proceed, SetUpInv
  <1>7. CASE ConfigInvalid \/ SourceFails \/ StorageFails
    BY <1>7, <1>1 DEF ConfigInvalid, SourceFails, StorageFails
  <1>8. ASSUME NEW port \in Ports, DialCancelled(port)
        PROVE  MainInv'
    BY <1>8, <1>1 DEF DialCancelled
  <1>9. ASSUME NEW port \in Ports, DialFails(port)
        PROVE  MainInv'
    <2>1. dials' \in 0 .. DialAttempts
      BY <1>9, ReplayorAssumption DEF DialFails, DialsInv
    <2>2. CASE dials' = DialAttempts
      BY <1>9, <1>1, <2>1, <2>2 DEF DialFails
    <2>3. CASE dials' # DialAttempts
      BY <1>9, <2>1, <2>3, ReplayorAssumption DEF DialFails, DialsInv, SetUpInv,
         UnknownStrategyInv
    <2> QED BY <2>2, <2>3
  <1> QED BY <1>3, <1>4, <1>5, <1>6, <1>7, <1>8, <1>9 DEF SetUp

\* Once Start runs, no step reaches the benchmark with an unknown strategy.
LEMMA ServiceKeepsInv == IInv /\ MainInv /\ (ServiceStep \/ Leftover) => MainInv'
  <1> SUFFICES ASSUME IInv, MainInv, ServiceStep \/ Leftover PROVE MainInv'
    OBVIOUS
  <1> USE DEF MainInv, mainVars, ServiceStep, Leftover, Started
  <1> USE DEF StartStep, Load, LoadPanics, SyncValid, SyncFails, SyncCancelled, WalkUp,
      AlreadyPast, NoWalkUp, RunAddsBlock, RunReturns, RunCrashes, Reload, VerifyFails,
      NoStrategy, StartBenchmark, Close, AbandonedLands, LeftoverCrashes, Crash, At,
      Running, outerVars, nodeVars, runVars, contextVars
  <1>1. UNCHANGED <<cfg, up, mainVars>> /\ (crashed => crashed')
    OBVIOUS
  <1>2. DialsInv' /\ SetUpInv'
    BY <1>1 DEF DialsInv, SetUpInv
  <1>3. ASSUME flags.strategy = "other"
        PROVE  service' \notin {"benchmark", "close", "returned"}
    BY <1>3 DEF UnknownStrategyInv, ReplayorConfig
  <1>4. ASSUME flags.strategy = "other"
        PROVE  runEnd' <= flags.benchmarkStartBlock
    <2>1. CASE WalkUp
      <3>1. runEnd' = cfg.startBlock
        BY <2>1, ConfigType DEF IInv, TypeOK
      <3> QED BY <3>1, ConfigType DEF ReplayorConfig, IInv, TypeOK
    <2>2. CASE ~WalkUp
      <3>1. runEnd' = runEnd
        BY <1>3, <1>4, <2>2 DEF ReplayorConfig
      <3> QED BY <3>1, <1>4 DEF UnknownStrategyInv
    <2> QED BY <2>1, <2>2
  <1> QED BY <1>1, <1>2, <1>3, <1>4 DEF UnknownStrategyInv

\* No step of the process breaks either invariant.
LEMMA MainInvStep == IInv /\ MainInv /\ [MainNext]_allVars => MainInv'
  <1> SUFFICES ASSUME IInv, MainInv, [MainNext]_allVars PROVE MainInv'
    OBVIOUS
  <1> USE DEF MainInv, mainVars, allVars, vars, nodeVars, runVars
  <1>1. CASE SetUp
    BY <1>1, SetUpKeepsInv
  <1>2. CASE ServiceStep \/ Leftover
    BY <1>2, ServiceKeepsInv
  <1>3. CASE World
    BY <1>3 DEF World, Stop, Interrupt, PortOpens, NodeSynced, outerVars, nodeVars,
       runVars, contextVars, destVars, DialsInv, SetUpInv, UnknownStrategyInv
  <1>4. CASE RestartProcess
    <2>1. cfg' = ReplayorConfig(flags') /\ cfg'.startBlock \in Nat
      BY <1>4, ConfigType DEF RestartProcess, Restart, IInv, TypeOK
    <2> QED BY <1>4, <2>1, ReplayorAssumption DEF RestartProcess, Restart, DialsInv,
               SetUpInv, UnknownStrategyInv, ReplayorConfig
  <1>5. CASE UNCHANGED allVars
    BY <1>5 DEF DialsInv, SetUpInv, UnknownStrategyInv
  <1> QED BY <1>1, <1>2, <1>3, <1>4, <1>5 DEF MainNext, MainTerminated, Terminated

\* Both invariants hold throughout.
LEMMA MainInvariant == MainSpec => [](IInv /\ MainInv)
  <1>1. MainInit => IInv /\ MainInv
    BY InvInit, MainInvInit DEF MainInit
  <1>2. IInv /\ MainInv /\ [MainNext]_allVars => (IInv /\ MainInv)'
    BY MainStep, InvStep, MainInvStep
  <1> QED BY <1>1, <1>2, PTL DEF MainSpec

-----------------------------------------------------------------------------
(* Theorems                                                                 *)

\* The state keeps its shape: no dial is attempted more often than it may be.
THEOREM MainTypeCorrect == MainSpec => []MainTypeOK
  <1>1. IInv /\ MainInv => MainTypeOK
    BY DEF IInv, MainInv, MainTypeOK
  <1> QED BY MainInvariant, <1>1, PTL

\* Whenever the ports open, Start is called only when the engine's is open, and
\* for a ws URL the execution port as well (clients.go: the two dials).
THEOREM StartsReachable == MainSpec => []StartsOnReachableNode
  <1>1. MainInv => StartsOnReachableNode
    BY DEF MainInv, SetUpInv, StartsOnReachableNode
  <1> QED BY MainInvariant, <1>1, PTL

\* Under an unknown strategy no block is added beyond the start block, and none
\* but the source's own (service.go: the strategy is loaded after the walk-up).
THEOREM UnknownStrategyWalksUpOnly == MainSpec => UnknownStrategyOnlyWalksUp
  <1>1. ASSUME IInv, MainInv, [MainNext]_allVars, head' # head, flags.strategy = "other"
        PROVE  head' <= flags.benchmarkStartBlock /\ faithfulTo' = head'
    <2>1. /\ service \in {"walkUp", "reload", "verify", "failed"}
          /\ Extend
      BY <1>1, StepExtends, MainStep DEF IInv, AbandonedInv, MainInv, UnknownStrategyInv
    <2>2. RunStrategy = "replay"
      BY <2>1 DEF RunStrategy
    <2>3. faithfulTo' = head'
      BY <2>1, <2>2 DEF Extend, ExtendBy
    <2>4. head' \in Nat /\ runEnd \in Nat /\ head' <= runEnd
      BY <1>1, <2>1 DEF Extend, ExtendBy, IInv, TypeOK
    <2>5. flags.benchmarkStartBlock \in Nat /\ runEnd <= flags.benchmarkStartBlock
      BY <1>1, ConfigType DEF MainInv, UnknownStrategyInv, ReplayorConfig, IInv, TypeOK
    <2> QED BY <2>3, <2>4, <2>5
  <1> QED BY MainInvariant, <1>1, PTL DEF MainSpec, UnknownStrategyOnlyWalksUp
=============================================================================
