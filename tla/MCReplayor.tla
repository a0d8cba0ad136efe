----------------------------- MODULE MCReplayor -----------------------------
(* Instances of Replayor for TLC. *)
EXTENDS Replayor

GasTargets == {-1, 1, 2}
GasLimits == {-1, 1}
BlockCounts == {-2, -4, 0, 2}
StartBlocks == {0, 3}

\* Two configurations that work.
Replay == [engineApiSecret |-> "secret", rollup |-> "known", executionUrl |-> "http",
           strategy |-> "replay", blockCount |-> 2, gasTarget |-> 1, gasLimit |-> 1,
           benchmarkStartBlock |-> 3, testName |-> "name", storageType |-> "disk",
           stressTestType |-> "", stressTestFunction |-> ""]
Stress == [Replay EXCEPT !.strategy = "stress", !.stressTestType = "storage",
                         !.stressTestFunction = "known", !.storageType = "s3"]

Values == OptionValues(GasTargets, GasLimits, BlockCounts, StartBlocks)

\* Every set of options that differs from a given one in a single option, or in
\* where the benchmark is to begin and end.
Near(flagSet) ==
  UNION { { [flagSet EXCEPT ![option] = value] : value \in Values[option] } :
            option \in DOMAIN Values }
  \union { [flagSet EXCEPT !.blockCount = count, !.benchmarkStartBlock = start] :
             count \in BlockCounts, start \in StartBlocks }
NearReplayOrStress == Near(Replay) \union Near(Stress)

MCConfigs == {ReplayorConfig(flagSet) : flagSet \in NearReplayOrStress}
BelowAtAndAbove == {1, 3, 4}
AllFaults == {"engine", "strategy", "interrupt", "stop"}
AllSetUpFaults == {"source", "mkdir", "hostname"}

\* The shipped configuration, and nothing going wrong.
OnlyReplay == {Replay}
OnlyReplayConfig == {ReplayorConfig(Replay)}
NoFaults == {}
JustStarted == {0}
=============================================================================
