------------------------------- MODULE Config -------------------------------
(***************************************************************************)
(* What LoadReplayorConfig makes of the command line and environment       *)
(* (packages/config). A name is abstracted to whether the table it is      *)
(* looked up in has it; a URL to its scheme.                               *)
(***************************************************************************)
EXTENDS Integers

\* The values of each option, the numbers out of given sets. A function is
\* "known" when the table of the configured stress test type has it.
OptionValues(gasTargets, gasLimits, blockCounts, startBlocks) ==
  [engineApiSecret |-> {"", "secret"},
   rollup |-> {"", "unknown", "known"},    \* chain id or path of the rollup config
   executionUrl |-> {"http", "ws"},
   strategy |-> {"replay", "stress", "other"},
   blockCount |-> blockCounts,
   gasTarget |-> gasTargets,
   gasLimit |-> gasLimits,
   benchmarkStartBlock |-> startBlocks,
   testName |-> {"", "name"},
   storageType |-> {"s3", "disk", "other"},
   stressTestType |-> {"", "precompile", "storage", "erc20", "other"},
   stressTestFunction |-> {"", "known", "other"}]

\* An integer option read as unsigned is zero when it is negative.
CliUint64(option) == IF option < 0 THEN 0 ELSE option

GasOptionsValid(flags) ==
  CliUint64(flags.gasTarget) <= CliUint64(flags.gasLimit)

\* Stress options go with the stress strategy; the function may be left out.
StressOptionsValid(flags) ==
  IF flags.strategy = "stress"
  THEN /\ flags.stressTestType \in {"precompile", "storage", "erc20"}
       /\ flags.stressTestType # "erc20" => flags.stressTestFunction # "other"
  ELSE flags.stressTestType = "" /\ flags.stressTestFunction = ""

\* Without a test name LoadReplayorConfig takes the host's, if it can be read.
NeedsHostname(flags) == flags.testName = ""

\* LoadReplayorConfig finds no fault with the options. It lets a stress test of
\* precompiles or storage without a function pass, which panics later.
Valid(flags) ==
  /\ flags.engineApiSecret # ""
  /\ flags.rollup = "known"
  /\ GasOptionsValid(flags)
  /\ StressOptionsValid(flags)

\* What Service makes use of.
ReplayorConfig(flags) ==
  [startBlock |-> flags.benchmarkStartBlock,
   blockCount |-> flags.blockCount,
   strategy |-> flags.strategy]
=============================================================================
