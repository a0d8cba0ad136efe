------------------------------ MODULE Service ------------------------------
(***************************************************************************)
(* The service (packages/replayor/service.go): Start waits for the         *)
(* destination, walks its chain up to the configured start block with the  *)
(* replay strategy and without statistics, and runs the benchmark there.   *)
(* The process may be interrupted, stopped, go down and be started again   *)
(* with the same configuration on the same destination.                    *)
(*                                                                         *)
(* A run of either is abstracted to the blocks it adds one by one, how it  *)
(* returns and how it goes down: Benchmark is shown to keep to that. The   *)
(* lifecycle library around the service, and the destination, are          *)
(* external.                                                               *)
(***************************************************************************)
EXTENDS Integers

CONSTANTS
  Configs,        \* configurations: startBlock, 0 when not set; blockCount; strategy
  SyncAttempts,   \* attempts to find the destination synced (720 in the code)
  InitialHeads,   \* what the destination's latest block may be at first
  SourceHead,     \* last block the source node can serve
  Concurrency,    \* blocks fetched at once by loadBlocks (25 in the code)
  MaxUint64,      \* largest uint64
  MaxRestarts,    \* bound on the times the process is started again
  Faults          \* "engine": a call to a node fails, or answers otherwise than
                  \* the source did; "strategy": the strategy cannot use a block;
                  \* "interrupt"; "stop": Stop is called while Start runs

\* Largest int.
MaxInt64 == MaxUint64 \div 2

\* The number of blocks is an int. A chain is taken to have fewer blocks than
\* an int can count.
ASSUME ServiceAssumption ==
  /\ \A c \in Configs : /\ c.startBlock \in Nat
                        /\ c.blockCount \in -(MaxInt64 + 1) .. MaxInt64
  /\ SyncAttempts \in Nat \ {0}
  /\ InitialHeads \subseteq 0 .. MaxInt64
  /\ SourceHead \in 0 .. MaxInt64
  /\ Concurrency \in Nat \ {0}
  /\ MaxUint64 \in Nat /\ MaxUint64 = 2 * MaxInt64 + 1
  /\ MaxRestarts \in Nat
  /\ Faults \subseteq {"engine", "strategy", "interrupt", "stop"}

VARIABLES
  cfg,          \* the configuration, the same for every process
  head,         \* number of the destination's latest block
  faithfulTo,   \* up to this block the destination has the source's chain
  up,           \* the destination's ports that are open
  syncing,      \* the destination answers that it is syncing
  service,      \* Start: where it is
  currentBlock, \* Start: the number of currentBlock
  syncFailures, \* Start: failed attempts to find the destination synced
  runStart, runEnd,   \* the current Benchmark: the block it began on, its last
  abandoned,    \* a call that a run left behind when it returned: "none", "call"
                \* while it may still take effect, "landed" once it has
  appDone,      \* Start's context is done
  stopped,      \* Stop has been called: the benchmarks' context is done
  crashed,      \* the process is gone
  restarts      \* how often the process has been started again

destVars == <<head, faithfulTo>>
nodeVars == <<up, syncing>>
runVars == <<runStart, runEnd, abandoned>>
contextVars == <<appDone, stopped>>
outerVars == <<cfg, nodeVars, restarts>>
vars == <<cfg, destVars, nodeVars, service, currentBlock, syncFailures, runVars,
          contextVars, crashed, restarts>>

Ports == {"execution", "engine"}

\* The conversion to uint64 and the addition on it, for -2^64 <= n < 2^65.
Uint64(n) == CASE n < 0 -> n + MaxUint64 + 1
               [] n > MaxUint64 -> n - (MaxUint64 + 1)
               [] OTHER -> n

\* Before Start is called.
Init ==
  /\ cfg \in Configs
  /\ head \in InitialHeads
  /\ faithfulTo = head
  /\ up \in SUBSET Ports
  /\ syncing \in BOOLEAN
  /\ restarts = 0
  /\ service = "load"
  /\ currentBlock = 0 /\ syncFailures = 0
  /\ runStart = 0 /\ runEnd = 0 /\ abandoned = "none"
  /\ appDone = FALSE /\ stopped = FALSE
  /\ crashed = FALSE

At(place) == ~crashed /\ service = place
BenchmarkDone == appDone \/ stopped
Ended == service \in {"returned", "failed"}

\* The destination answers engine calls with a valid status.
Answering == "engine" \in up /\ ~syncing

-----------------------------------------------------------------------------
(* A block more on the destination.                                         *)

\* Of the run's blocks the loader gets what whole batches the source has.
FetchableTo == runStart + Concurrency * ((SourceHead - runStart) \div Concurrency)

\* OneForOne accepts only the source's own block.
ExtendBy(strategy) ==
  /\ head < runEnd /\ head < FetchableTo
  /\ strategy = "replay" => faithfulTo = head
  /\ head' = head + 1
  /\ faithfulTo' = IF strategy = "replay" THEN head + 1 ELSE faithfulTo

\* A bug: walking up with the configured strategy.
RunStrategyAsConfigured == cfg.strategy

\* The walk-up, whose call may be left behind, replays whatever the
\* configuration says.
RunStrategy ==
  IF service \in {"walkUp", "reload", "verify", "failed"} THEN "replay" ELSE cfg.strategy

Extend == ExtendBy(RunStrategy)

\* The process goes down. An engine call under way may have taken effect.
Crash ==
  /\ crashed' = TRUE
  /\ abandoned' = "none"
  /\ \/ UNCHANGED destVars
     \/ (abandoned = "call" \/ service \in {"walkUp", "benchmark"}) /\ Extend
  /\ UNCHANGED <<outerVars, service, currentBlock, syncFailures, runStart, runEnd,
                 contextVars>>

-----------------------------------------------------------------------------
(* Start, up to the first run.                                              *)

Load ==
  /\ At("load")
  /\ ~appDone /\ "execution" \in up
  /\ currentBlock' = head
  /\ service' = "sync"
  /\ UNCHANGED <<destVars, outerVars, syncFailures, runVars, contextVars, crashed>>

\* The destination's latest block cannot be read: panic.
LoadPanics ==
  /\ At("load") \/ At("reload")
  /\ appDone \/ "execution" \notin up \/ "engine" \in Faults
  /\ Crash

SyncValid ==
  /\ At("sync")
  /\ ~appDone
  /\ Answering
  /\ service' = "check"
  /\ UNCHANGED <<destVars, outerVars, currentBlock, syncFailures, runVars, contextVars,
                 crashed>>

\* A bug: one attempt too many.
SyncFailsOnceMore ==
  /\ At("sync")
  /\ ~appDone
  /\ ~Answering \/ "engine" \in Faults
  /\ syncFailures' = syncFailures + 1
  /\ service' = IF syncFailures' = SyncAttempts + 1 THEN "check" ELSE "sync"
  /\ UNCHANGED <<destVars, outerVars, currentBlock, runVars, contextVars, crashed>>

\* After the last attempt Start goes on as if the destination were synced.
SyncFails ==
  /\ At("sync")
  /\ ~appDone
  /\ ~Answering \/ "engine" \in Faults
  /\ syncFailures' = syncFailures + 1
  /\ service' = IF syncFailures' = SyncAttempts THEN "check" ELSE "sync"
  /\ UNCHANGED <<destVars, outerVars, currentBlock, runVars, contextVars, crashed>>

\* No attempt is made on a done context, and the error is ignored.
SyncCancelled ==
  /\ At("sync")
  /\ appDone
  /\ service' = "check"
  /\ UNCHANGED <<destVars, outerVars, currentBlock, syncFailures, runVars, contextVars,
                 crashed>>

WalkUp ==
  /\ At("check")
  /\ currentBlock < cfg.startBlock
  /\ service' = "walkUp"
  /\ runStart' = currentBlock
  /\ runEnd' = currentBlock + (cfg.startBlock - currentBlock)
  /\ UNCHANGED <<destVars, outerVars, currentBlock, syncFailures, abandoned, contextVars,
                 crashed>>

\* The panic on a destination beyond the start block.
AlreadyPast ==
  /\ At("check")
  /\ cfg.startBlock # 0 /\ currentBlock > cfg.startBlock
  /\ Crash

NoWalkUp ==
  /\ At("check")
  /\ cfg.startBlock = 0 \/ currentBlock = cfg.startBlock
  /\ service' = "reload"
  /\ UNCHANGED <<destVars, outerVars, currentBlock, syncFailures, runVars, contextVars,
                 crashed>>

-----------------------------------------------------------------------------
(* A run, of the walk-up or of the benchmark.                               *)

Running == At("walkUp") \/ At("benchmark")

RunAddsBlock ==
  /\ Running
  /\ Answering /\ ~BenchmarkDone
  /\ Extend
  /\ UNCHANGED <<outerVars, service, currentBlock, syncFailures, runVars, contextVars,
                 crashed>>

\* A bug: Run returns without waiting for the submitter.
RunReturnsEarly ==
  /\ Running
  /\ service' = IF service = "walkUp" THEN "reload" ELSE "close"
  /\ abandoned' = IF head < runEnd /\ abandoned = "none" THEN "call" ELSE abandoned
  /\ UNCHANGED <<destVars, outerVars, currentBlock, syncFailures, runStart, runEnd,
                 contextVars, crashed>>

\* On a done context Run returns although its submitter may be in addBlock.
RunReturns ==
  /\ Running
  /\ head >= runEnd \/ BenchmarkDone
  /\ service' = IF service = "walkUp" THEN "reload" ELSE "close"
  /\ abandoned' = IF head < runEnd /\ abandoned = "none" THEN "call" ELSE abandoned
  /\ UNCHANGED <<destVars, outerVars, currentBlock, syncFailures, runStart, runEnd,
                 contextVars, crashed>>

\* A panic or log.Crit inside the run: over a call to a node, a batch that the
\* source cannot serve, or a block that is of no use to the strategy.
RunCrashes ==
  /\ Running
  /\ \/ BenchmarkDone \/ ~Answering
     \/ Faults \cap {"engine", "strategy"} # {}
     \/ FetchableTo < runEnd
  /\ Crash

\* The call that was cancelled may take effect, once.
AbandonedLands ==
  /\ ~crashed /\ abandoned = "call"
  /\ Extend
  /\ abandoned' = "landed"
  /\ UNCHANGED <<outerVars, service, currentBlock, syncFailures, runStart, runEnd,
                 contextVars, crashed>>

\* The submitter of a run that has returned finds its calls cancelled, or the
\* mapper gets to the blocks loaded past the end.
LeftoverCrashes ==
  /\ ~crashed
  /\ \/ abandoned # "none"
     \/ "strategy" \in Faults /\ service \in {"close", "returned"}
  /\ Crash

-----------------------------------------------------------------------------
(* Start, from the walk-up on.                                              *)

Reload ==
  /\ At("reload")
  /\ ~appDone /\ "execution" \in up
  /\ currentBlock' = head
  /\ service' = "verify"
  /\ UNCHANGED <<destVars, outerVars, syncFailures, runVars, contextVars, crashed>>

Verified == cfg.startBlock = 0 \/ cfg.startBlock = currentBlock

VerifyFails ==
  /\ At("verify")
  /\ ~Verified
  /\ service' = "failed"
  /\ UNCHANGED <<destVars, outerVars, currentBlock, syncFailures, runVars, contextVars,
                 crashed>>

\* No strategy has the configured name.
NoStrategy ==
  /\ At("verify")
  /\ Verified
  /\ cfg.strategy \notin {"replay", "stress"}
  /\ Crash

\* A bug: the check is left to the walk-up.
StartBenchmarkUnverified ==
  /\ At("verify")
  /\ cfg.strategy \in {"replay", "stress"}
  /\ service' = "benchmark"
  /\ runStart' = currentBlock
  /\ runEnd' = Uint64(currentBlock + Uint64(cfg.blockCount))
  /\ UNCHANGED <<destVars, outerVars, currentBlock, syncFailures, abandoned, contextVars,
                 crashed>>

\* A bug: the number of blocks is counted from the start block's successor.
StartBenchmarkOneMore ==
  /\ At("verify")
  /\ Verified
  /\ cfg.strategy \in {"replay", "stress"}
  /\ service' = "benchmark"
  /\ runStart' = currentBlock
  /\ runEnd' = Uint64(currentBlock + 1 + Uint64(cfg.blockCount))
  /\ UNCHANGED <<destVars, outerVars, currentBlock, syncFailures, abandoned, contextVars,
                 crashed>>

\* A bug: any strategy that is not "stress" is taken to be a replay.
StartBenchmarkAnyStrategy ==
  /\ At("verify")
  /\ Verified
  /\ service' = "benchmark"
  /\ runStart' = currentBlock
  /\ runEnd' = Uint64(currentBlock + Uint64(cfg.blockCount))
  /\ UNCHANGED <<destVars, outerVars, currentBlock, syncFailures, abandoned, contextVars,
                 crashed>>

StartBenchmark ==
  /\ At("verify")
  /\ Verified
  /\ cfg.strategy \in {"replay", "stress"}
  /\ service' = "benchmark"
  /\ runStart' = currentBlock
  /\ runEnd' = Uint64(currentBlock + Uint64(cfg.blockCount))
  /\ UNCHANGED <<destVars, outerVars, currentBlock, syncFailures, abandoned, contextVars,
                 crashed>>

\* close ends the application's context.
Close ==
  /\ At("close")
  /\ appDone' = TRUE
  /\ service' = "returned"
  /\ UNCHANGED <<destVars, outerVars, currentBlock, syncFailures, runVars, stopped,
                 crashed>>

StartStep ==
  \/ Load \/ LoadPanics \/ SyncValid \/ SyncFails \/ SyncCancelled
  \/ WalkUp \/ AlreadyPast \/ NoWalkUp
  \/ RunAddsBlock \/ RunReturns \/ RunCrashes
  \/ Reload \/ VerifyFails \/ NoStrategy \/ StartBenchmark \/ Close

-----------------------------------------------------------------------------
(* The world around Start.                                                  *)

\* What comes before Start in the process fails.
SetUpFails == At("load") /\ Crash

\* The first call of Stop; a later one changes nothing. The lifecycle library
\* makes it once Start has returned.
Stop ==
  /\ ~crashed /\ ~stopped
  /\ service = "returned" \/ ("stop" \in Faults /\ service # "load")
  /\ stopped' = TRUE
  /\ UNCHANGED <<destVars, outerVars, service, currentBlock, syncFailures, runVars,
                 appDone, crashed>>

Interrupt ==
  /\ "interrupt" \in Faults
  /\ ~crashed /\ ~Ended /\ ~appDone
  /\ appDone' = TRUE
  /\ UNCHANGED <<destVars, outerVars, service, currentBlock, syncFailures, runVars,
                 stopped, crashed>>

PortOpens ==
  /\ \E port \in Ports \ up : up' = up \union {port}
  /\ UNCHANGED <<cfg, destVars, syncing, service, currentBlock, syncFailures, runVars,
                 contextVars, crashed, restarts>>

NodeSynced ==
  /\ syncing
  /\ syncing' = FALSE
  /\ UNCHANGED <<cfg, destVars, up, service, currentBlock, syncFailures, runVars,
                 contextVars, crashed, restarts>>

\* A new process, with nothing remembered, on the destination as the last one
\* left it. What that one's calls did they have done by now.
Restart ==
  /\ crashed \/ Ended
  /\ restarts < MaxRestarts
  /\ restarts' = restarts + 1
  /\ up' \in SUBSET Ports
  /\ syncing' \in BOOLEAN
  /\ service' = "load"
  /\ currentBlock' = 0 /\ syncFailures' = 0
  /\ runStart' = 0 /\ runEnd' = 0 /\ abandoned' = "none"
  /\ appDone' = FALSE /\ stopped' = FALSE
  /\ crashed' = FALSE
  /\ UNCHANGED <<cfg, destVars>>

Terminated == (crashed \/ Ended) /\ UNCHANGED vars

Next == \/ StartStep \/ AbandonedLands \/ LeftoverCrashes \/ SetUpFails
        \/ Stop \/ Interrupt \/ PortOpens \/ NodeSynced \/ Restart \/ Terminated

Safety == Init /\ [][Next]_vars

-----------------------------------------------------------------------------
(* Properties                                                               *)

\* The state's shape.
TypeOK ==
  /\ cfg \in Configs
  /\ head \in Nat /\ faithfulTo \in Nat /\ faithfulTo <= head
  /\ up \subseteq Ports /\ syncing \in BOOLEAN
  /\ service \in {"load", "sync", "check", "walkUp", "reload", "verify", "benchmark",
                  "close", "returned", "failed"}
  /\ currentBlock \in Nat
  /\ syncFailures \in 0 .. SyncAttempts
  /\ runStart \in Nat /\ runEnd \in Nat /\ abandoned \in {"none", "call", "landed"}
  /\ appDone \in BOOLEAN /\ stopped \in BOOLEAN /\ crashed \in BOOLEAN
  /\ restarts \in 0 .. MaxRestarts

\* With a start block configured, a benchmark begins on that block, the block
\* the recorder was made for, or not at all: not when the walk-up was stopped
\* short, nor on a destination that an earlier process left beyond it. So the
\* monitor's unsigned head - lastBlockWritten starts from zero, not below.
StartsOnStartBlock ==
  service = "benchmark" /\ cfg.startBlock # 0 =>
    runStart = cfg.startBlock /\ head >= cfg.startBlock

\* The destination has the source's own blocks up to the start block, whatever
\* the strategy, the crashes and the restarts.
WalkUpFaithful ==
  cfg.startBlock # 0 => faithfulTo >= head \/ faithfulTo >= cfg.startBlock

\* The last block of the configured benchmark, or its first without any.
ConfiguredEnd ==
  cfg.startBlock + IF cfg.blockCount > 0 THEN cfg.blockCount ELSE 0

\* However often the process is started again, and even if the number of blocks
\* is negative, no block is added beyond those of the one configured benchmark.
\* (Only a negative number of more blocks than the start block has below it
\* makes the unsigned end of the benchmark a huge one.)
NeverPastTheEnd ==
  [][cfg.startBlock # 0 /\ cfg.startBlock + cfg.blockCount >= 0 /\ head' # head =>
       head' <= ConfiguredEnd]_vars

\* The application is closed by a benchmark that nobody stopped only when all
\* its blocks have been added.
ClosesWhenReplayed ==
  service = "close" /\ ~BenchmarkDone =>
    head = runStart + IF cfg.blockCount > 0 THEN cfg.blockCount ELSE 0
=============================================================================
