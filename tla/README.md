# Replayor in TLA+

Replayor replays the blocks of a source chain on a destination node through the
engine API and records how long each call took. This directory models its
concurrent core in TLA+, checks it with TLC on small instances, and proves its
safety properties with TLAPS for all values of the constants.

## The system

| Component | State | Operations | Interacts with |
| --- | --- | --- | --- |
| Pipeline (`benchmark.go`: `loadBlocks`, `mapBlocks`, `submitBlocks`) | the batch being loaded, two buffered channels, `remainingBlockCount` | fetch a batch concurrently, send it in order, turn a block into parameters, submit it, close, stop | source node (RPC), strategy, `addBlock`, the context |
| `addBlock` (`benchmark.go`) | `previousReplayedBlockHash` | four engine calls with validations, `enrich`, record | destination node, strategy, recorder |
| Monitor (`Run` in `benchmark.go`) | its select loop | tick and save, final write, return on a done context | destination node, recorder, submitter's `doneChan` |
| Recorder (`stats/storage.go`) | slice of statistics, `lastBlockWritten` | `RecordBlockStats` (submitter's goroutine), `Write` and `GetLastBlockWritten` (monitor's) | disk or S3 |
| Storage (`stats/disk.go`, `stats/s3.go`) | one file or object | `Write`, `Read` | file system, S3 |
| Replay strategy (`strategies/replay.go`) | none | hash validation | `addBlock` |
| Stress strategy (`strategies/stress.go`) | nonces, contract address | build deposits, a deployment and filler transactions | `mapBlocks`, destination |
| Service (`replayor/service.go`) | `stopped`, the cancel function | `Start` (wait for sync, walk up, benchmark), `Stop` | everything above, the lifecycle library |
| Traces (`replayor/trace.go`) | none | opcode gas, storage diff | destination node |
| Configuration (`config/config.go`, `config/flags.go`) | none once built | read and validate the options | everything that is built from it |
| Clients (`clients/clients.go`) | none once built | dial source, destination and engine, with retries | the three nodes' ports |
| Entry point (`cmd/replayor/main.go`) | none | configuration, clients, storage, service, in this order | the lifecycle library |

What makes it hard: four goroutines with two bounded channels and a channel
closed at the end; a context that only some of the blocking operations watch; a
slice shared by two goroutines without synchronisation; a file rewritten in place
while any other goroutine may panic or `log.Crit` the process away; the
destination's head, which has to move one block at a time although any of the
four calls that move it can fail, possibly after having taken effect.

What makes each part correct:

- **Pipeline**: `addBlock` gets every block, once, in order, and none past the
  end; everybody ends, and a cancelled submitter ends, unless a node leaves a call
  unanswered.
- **addBlock and monitor**: a replay never leaves the source's chain; head and
  statistics advance in step; an uninterrupted run returns with complete results
  stored; an interrupted one does not linger.
- **Recorder**: what is stored is a history from its first block; a block once
  stored stays; a write returns; what is reported as written is stored.
- **Service**: the benchmark starts exactly on the configured block, or not at
  all, whatever happened before, and adds no block past its end.
- **Set-up**: a process whose destination is still starting waits for it; a
  strategy that nothing knows costs the walk-up and no more; every process ends,
  unless a node leaves a call unanswered.
- **Stress strategy**: the nonces and the contract address it works out ahead of
  the destination are the destination's, and blocks reach the gas target, as far
  as gas limit, fee caps and funding allow.
- **Traces**: each opcode is charged with its own gas, each changed slot counted
  once.

## Modules

| Module | Models | Checked by |
| --- | --- | --- |
| `Pipeline` | the three goroutines and two channels | `MCPipeline` |
| `PipelineProofs`, `StoredStatsProofs`, `BenchmarkProofs`, `ServiceProofs`, `ReplayorProofs`, `StressTestProofs`, `TracesProofs` | inductive invariants and theorems about the module of that name | TLAPS |
| `StoredStats` | recorder and storage | `MCStoredStats` |
| `ChainReplay` | abstract: what a benchmark promises | refined by `Benchmark` |
| `Config` | the options, their validation, what the service gets | used by `Replayor`, `StressTest` |
| `Service` | `Start`, `Stop`, restarts, against a run it abstracts | `MCReplayor`; `Benchmark` is shown to be such a run |
| `Replayor` | `main`: `Service` behind the configuration, the dials and the storage | `MCReplayor` |
| `StressTest` | the stress strategy and the options it depends on | `MCStressTest` |
| `Traces` | opcode gas and storage changes | `MCTraces` |
| `Benchmark` | `Pipeline` and `StoredStats` composed, with `addBlock` opened up and the monitor | `MCBenchmark` |

### Pipeline

A source block is its number: the source chain does not change while it is read,
and only the order and completeness of blocks matter here. `blockStartRange`,
`results`, `incomingBlocks`, `processBlocks` and `remainingBlockCount` are the
code's; `sent` is the position of the loop that sends a batch; `mapper` and
`submitter` are program counters, `mapped` and `adding` the block each holds.
Each of the concurrent fetches of a batch is an action of its own (`FetchBlock`,
`FetchFails`). `addBlock` is one visit of the submitter to `"add"`, which either
returns or takes the process down. A panic and `log.Crit` are the same here:
`crashed`, after which nothing happens; `MonitorPanics` is the one panic of
`Run`'s own loop that can end all three. `LastFetched` is the last block that
whole batches ask the source for. `Faults` says what the environment may
do, so that an instance can leave out a kind of failure.

The retry library is external and modelled by its outcome: an answer, or an
error after bounded attempts. A call on a done context fails. A call may also
never be answered: the clients of the source and of the destination's execution
port are dialled without a call timeout and the context has no deadline, only the
engine's client gives up (after ten minutes). `FetchPending` and `AddPending` say
that such a call is outstanding.

### StoredStats

A block's statistics are its number. `append` to the shared slice takes two
steps, `GrowStats` and `FillStats`: Go's in-place append stores the new length
before the element, so `Write` can read an element that is not there yet
(`Unwritten`). A torn slice header (new length with the old array) is not
modelled apart from that. `Write` is a small program: a context check and an
encoding per attempt, `os.WriteFile` in two steps (empty the file, then fill
it), S3's put in one, which may store the object and yet answer an error; then
`lastBlockWritten`. The storage is chosen in the initial state, as the
configuration does.

`StoredStats` also has a next-state relation of its own, with a submitter that
records at any time and a monitor that writes at any time; `Benchmark` uses the
actions and brings its own schedule.

### Benchmark

Every action is an action of `Pipeline` or `StoredStats`, or a step of `addBlock`
or of the monitor that leaves theirs alone; `EndAddBlock` is one of both. A
destination block is its number and whether it is the source's block of that
number. `Built` is the external node: it builds the source's block when it has
the source's parent and attributes, unless it diverges, and never under the
stress strategy, which changes the transactions. A failing engine call may have
taken effect. `TickSaves` is the tick that writes; the others only log.

### ChainReplay

Three numbers: replayed (the destination's head), recorded, published. The
refinement maps them to `head.number` and to the number of completely recorded
blocks in memory and in storage. Disk storage takes back what it published on
every write, so for it nothing counts as published; the promise about
publications is checked on S3.

### Service

`Start` step by step (`service` is its program counter), on a destination of
which only the number of the latest block counts, and up to where it has the
source's chain. `cfg` is the configuration, chosen once and kept by every
process. The destination's two ports (`up`) and its sync (`syncing`) are its own:
ports open, at any time or never.

A run, of the walk-up or of the benchmark, is abstracted: it adds blocks one by
one (`RunAddsBlock`), as far as whole batches can be fetched (`FetchableTo`),
returns when it has added its last or its context is done, or takes the process
down, its last call then possibly in effect. When it returns on a done context
its submitter is left behind, and so may a cancelled call be (`abandoned` is
`"call"`): it can still land one block (`"landed"`), and the submitter can panic
over it as long as the process lasts. `Restart` is a new process on the
destination as it was left; the last engine call has landed by then. `Stop` is
what the lifecycle library calls after `Start` has returned; with the `"stop"`
fault it may come at any time after `Start` began, as the interface allows.

The end of a benchmark is the code's `uint64` arithmetic on a signed option
(`Uint64`): a negative number of blocks wraps, and wraps back when it is added.

`Benchmark` is checked against this abstraction: `RunsAsServiceExpects` says that
every step of it, its head, crash, cancellation and return mapped to
`Service`'s variables, is a step of `Service` in its benchmark.

### Config and Replayor

`Config` takes options as they come from the flags library: a signed integer
that is read as unsigned (`CliUint64`: zero if negative), a name by whether the
table it is looked up in has it, a URL by its scheme. `Valid` is
`LoadReplayorConfig` returning no error.

`Replayor` puts `main` before `Service`: configuration, source, execution port,
engine port, storage, then `Start`. A dial is attempted `DialAttempts` times, none
on a done context. What "dialled" means is the client library's: an `http` client
is made without a connection, a `ws` client connects, and the engine's client
looks whether its URL can be reached. The storage is only made, not tried. A
failing step ends the process, `SetUpFails`; reading the host's name, when no test
name is given, is one that can fail. `MayWait` is when `main` is waiting for an
answer that no timeout bounds.

### StressTest

Blocks are counted from the start block. `FirstBlock`, `FundingBlock` and
`PackItUp` are the three kinds of block that `modifyTransactions` builds, by the
mapper. Its panics are `NotARollupBlock`, possible over any block (one without
transactions, or whose first does not parse as the L1 block's data),
`NoSecondTransaction` over the first, and `InvalidFunction` when it packs. A
transaction is its kind, sender, nonce, gas limit, tip and target; the source's
own transactions touch none of the accounts and are left out, but the tip of the
deployment and of the calls is that of one of them. The options it depends on
are `Config`'s. What `packItUp` builds in a loop is a closed form here (`NumTxs`,
`Calls`); signing never fails. `packEthTransfer` is left out: no configuration
that is let through selects it.

The destination, up to `QueueCap` blocks behind, goes through the first block of
`pending` one transaction at a time: `ExecuteDeposit`, `ExecuteTransaction`, or
`DropTransaction` when the transaction is not executable (nonce, gas left in the
block, tip and base fee within the fee cap, and a balance that covers the gas
limit at the fee cap), as the repository's README says of the fork it uses; then
`SealBlock`, which is what `addBlock` has it do. Each block has a base fee of its
own (`baseFee`); `market` bounds the tips and base fees of a whole run, so that
`HasRoom` can speak of them. An account's balance is what was minted for it less
what its transactions have cost. What a call uses (`Cost`) is its contract's: a
transfer its 23,000 gas, a storage call a fixed amount, and the precompile
contract, which loops `while (gasleft() > 300_000)`, all of its limit but less
than that buffer. `handled` counts the transactions
it has been through, `gasPool` is what the block has left, `gasUsed` and
`lastGasUsed` what the strategy's transactions have used of this block and the
last.

### Traces

The destination's EVM is a small machine. `frames` has, for each depth of calls,
the gas left there and in the frames above and what the refund counter was when
the frame began, so that ending a frame returns its gas and a failure undoes its
refunds; `left` keeps what each instruction has left to the transaction, from
which follows what it used for itself (`Own`). A trace (`logs`) has what geth
logs. `TraceTransaction`, `TraceLog` and `TraceRefund` are the code's reading of
it, one log per step.

The reading is inexact for some instructions: a creation is logged with its cost
minus the gas passed on, which wraps, and one that runs out of gas with its cost
instead of what was left; `inexact` collects their opcodes, and `OpGasExact` is
about all the others, whose gas a creation or a failure elsewhere in the block
must not disturb. For storage, a transaction's trace has the changed locations
that were, and those that are, not empty; of the values only this is kept. An
account that destroys itself is listed before the transaction only, with the
slots that were looked up. The code counts the accounts listed after a
transaction (`trace.go:183`), and as deleted every slot listed before and not
after, so of such accounts it may miss what changed and count what did not.
`SlotsExact` and `TriesExact` are exact as long as no account destroys itself, and
otherwise bound what those that do can add.

## Runs

| Run | Instance | Shows |
| --- | --- | --- |
| `pipeline` | 4 blocks in batches of 3, channels of 2 and 1, source, strategy and engine failures, cancellation | `SubmitsInOrder`, `StopsWhenReplayed`, `MapperNeverStuck`, `EventuallyDrains`, `CancelStopsSubmitter` |
| `overfetch` | as `pipeline`, no faults, the source's head is the last block to replay | finding |
| `stats` | 3 blocks, 2 attempts, both storages, every fault | `StoredIsHistory`, `StoredOnlyGrows`, `WriteReturns` |
| `last_written` | no faults | finding |
| `truncation` | disk, a crash | finding |
| `benchmark_faults` | 3 blocks in batches of 2, channels of 1, both strategies and storages, every fault | `ReplayFaithful`, `ImplementsChainReplay`, `RunsAsServiceExpects`, `InterruptEnds` |
| `benchmark_clean` | 4 blocks in batches of 2, interrupts only | `FinalResultsComplete`, `CleanRunSurvives`, `RunsAsServiceExpects`, `EventuallyReturns` |
| `replayor` | start block 3 or none, -4, -2, 0 or 2 blocks in batches of 2, destination at 1, 3 or 4, source up to 6, 2 attempts of dials and sync, 2 restarts, both strategies, every fault | `StartsOnStartBlock`, `WalkUpFaithful`, `ClosesWhenReplayed`, `NeverPastTheEnd`, `StartsOnReachableNode`, `UnknownStrategyOnlyWalksUp`, `ProcessEnds` |
| `slow_start` | a replay over http, nothing going wrong | finding |
| `stress` | 2 accounts, 6 blocks, 3 of them under way, every type and function, targets 0 to 7, limits 3 to 12, tips and base fees on both sides of the lower fee cap | `NoncesFollowChain`, `NoncesNeverReused`, `FundedOnce`, `RoomReachesTarget` |
| `gas_target` | target 6, limit 8, low tips and base fees | finding |
| `traces` | 2 transactions; gas 5, 4 instructions, 2 depths; or 3 slots of 2 accounts with 3 values | `OpGasExact`, `SlotsExact`, `TriesExact` |

Bounds. The code's 25 and 25 become batches of 2 or 3 and channels of 1 or 2: a
batch does not fit in a channel, so every send can block, and the last batch
either runs past the end (`pipeline`, `benchmark_faults`: the submitter stops on
the first block past it) or ends on it (`benchmark_clean`: it stops on the closed
channel). `pipeline` has batch = capacity + 2, the largest that
`MapperNeverStuck` allows; the code, with 25 and 25, is inside. Two batches, and
`SaveEvery` of 2 and 3, let a save overlap the replay and the final write follow
one. `Attempts` of 2 has a first, a retried and a last attempt. `MaxUint64` only
has to be above every number used: `Decrement` and `Sub` wrap there.

`replayor` starts two blocks short of, on and one past the start block; two
restarts let a walk-up and then a benchmark be cut short before the last one. The
counts of -4 and -2 end below zero and below the start block; a benchmark that
starts on 4 without a start block has its last batch past the source's head.
The options are those of a working replay and of a working stress test (storage,
with a function), with one
of them, or the start block and the count together, set to every other value. In
`stress` four packed blocks follow the two funding blocks, so a transaction that
is dropped shows in the blocks after it; a target holds up to three transfers or
two storage calls, limits lie on both sides of what is needed, and the target of
7 is what the funding covers at the fee cap exactly, so that it no longer does
when the deployment is paid (100 million gas in the code). A tip or a base fee of
4 is above the fee cap of the deployment and of transfers, below that of the other
calls.
`traces` has room for a call, an instruction inside it, and the return; its
`MaxUint64` of 31 is above the gas of two transactions, so only a real difference
below zero wraps. The two statistics are checked one at a time, since they share
nothing but the block.

Deadlock is checked in every run: `Terminated` names the states in which the
program may rest.

Fairness. What the code's scheduling justifies is that each goroutine takes the
steps that are its own; a node that is called need not answer.

- `pipeline`: weak fairness for the loader's sends, for the mapper, for the
  submitter outside `addBlock`, and for each fetch only once the context is done,
  which ends it. `EventuallyDrains` and `CancelStopsSubmitter` therefore say: the
  run ends, or a fetch (`FetchPending`) or a visit to `addBlock` (`AddPending`,
  whose tracing calls are made without the context) is left unanswered for good.
  The channels and their closing never hold anybody up.
- `replayor`, `MainFairness`: weak fairness for `main`'s next step while it is not
  waiting for an answer (`MayWait`). Nothing is assumed of the nodes: ports may
  stay closed, the sync may never end, calls may stay unanswered. `ProcessEnds`
  says that the process ends or waits for good for such an answer; bounded dials,
  the bounded wait for the sync (the engine's client has a timeout) and an
  interrupt always get it on.
- `benchmark_faults` and `benchmark_clean`: weak fairness for every goroutine and
  fetch, the nodes' answers included. `EventuallyReturns` and `InterruptEnds` are
  about runs on nodes that answer, with success or an error; for the others
  `pipeline` says what is left. Strong fairness for `SelectDone` alone: Go's select
  chooses at random among the ready cases, so `doneChan` is taken in the end
  although ticks keep coming.
- `stats`: weak fairness for the writer; a call to storage is taken to return, and
  the retries are bounded.

Nothing is assumed of the context: a cancellation may never come. `stress` and
`traces` check safety only.

## Findings

- **Fetching past the end** (`overfetch`, `ReplaysAvailableBlocks`). Batches are
  always 25, so up to 24 blocks past the last one are fetched, and one that the
  source node does not have is a panic. A replay up to the source's head fails
  although every block asked for exists.
- **Reported, not stored** (`last_written`, `LastWrittenIsStored`). `Write` takes
  `lastBlockWritten` from the slice after writing, so it names blocks recorded
  after the encoding; it also does so when every attempt failed. The log line
  calls it a success, and the monitor waits another 100 blocks from there.
- **Progress lost in a crash** (`truncation`, `CrashKeepsProgress`). On disk the
  one results file is truncated and rewritten; a crash between the two loses what
  was saved to survive just that.
- **Tight gas limit** (`gas_target`, `GasTargetReached`). Every storage call has
  the whole gas target as its gas limit. With a gas limit that leaves room for the
  target but not for the target after the first calls, the destination drops the
  later ones, and since nonces are counted locally, everything after them.
  `RoomReachesTarget` says what limit is enough: the target, the deposits and all
  calls but one (`GasNeeded`).
- **Starting too early** (`slow_start`, `StartsOnLiveDestination`). The dials are
  retried for two minutes because the node "starts up at the same time as the
  replayor", but dialling an `http` URL connects to nothing, so only the engine's
  port is waited for. A destination that opens that one first, before the
  execution port, makes `Start` panic on its first read. `StartsOnReachableNode`
  says what is waited for.
  (Usual clients open the execution port first, which hides it.)

Further things, met while modelling and contradicting no text of the repository:

- a stress type that needs a function is accepted without one and panics on the
  eleventh block (`InvalidFunction`);
- the deployment and the transfers have a fixed fee cap and the tip of a
  transaction of the source's: a tip or a base fee above the cap drops them, and
  everything after them (`NoncesFollowChain` needs `CapsHold`);
- a target of 100 million gas or more is never reached by precompile or storage
  calls, since their sender cannot cover it at the fee cap (`FundingLasts`);
- an account that destroys itself is not among the changed accounts, while all of
  its slots that were looked up are among the changed slots (see Traces);
- a source or an execution client that takes a call and never answers holds the
  process up until it is interrupted (`ProcessEnds`, `MayWait`);
- the gas of creations and of instructions that run out of gas is not what they
  used (see Traces);
- an unknown strategy is noticed only after the walk-up, which can be long
  (`UnknownStrategyOnlyWalksUp` says that it costs no more);
- a negative number of blocks is accepted: the benchmark then returns at once
  with nothing replayed, unless it is more than the start block has below it,
  which wraps the last block to a huge one and replays on until the source
  runs out;
- `test-configs/base-mainnet-stress.env` names no stress test type, which
  the validation refuses.

## Proofs

Every invariant and action property of a passing run, and the refinement of
`ChainReplay`, is proved for all values of the constants that the assumptions
allow. The theorems are at the end of each proof module, behind an inductive
invariant `IInv` of named parts and one lemma per group of actions. The
assumptions are those of the modules: `PipelineAssumption` and
`StoredStatsAssumption` are definitions that the theorems take as hypotheses,
since `Benchmark` instantiates these modules and has to show that its own
constants satisfy them (`Constants`); the others are `ASSUME`s, evaluated by TLC
on every run.

### PipelineProofs

`PipelineAssumption`: the constants are naturals, batch and capacities positive,
block numbers do not overflow.

- `TypeCorrect`: `TypeOK`, inductive as it stands;
- `OrderedSubmission` and `CompleteSubmission`: `SubmitsInOrder` and
  `StopsWhenReplayed`;
- `MapperEnds`: `MapperNeverStuck` when `Concurrency <= ProcessCap + 2`.

None of the last three is inductive: what the submitter receives next is decided
by what the mapper and the loader did long before. `IInv` strengthens them:
counting back from the loader's position (`LoaderNext`) over the incoming
channel, the mapper's hand and the outgoing channel, all blocks in flight are one
contiguous run (`ContiguousInv`), and the submitter's position in it is what
`remainingBlockCount` says (`SubmitInv`). `RunAppend` and `RunTail` say that a
send and a receive keep a run a run. The bound on `Concurrency` comes from
counting: a stopped submitter has taken block `endBlockNum + 1`, the loader has
gone at most to `endBlockNum + Concurrency`, one block is in the mapper's hand,
and the rest has to leave a free place in `processBlocks`.

Batches start at multiples of `Concurrency` (`BatchInv`) and are sent only when
the source had all of their blocks (`FetchedInv`). From these come the facts that
`Benchmark` needs: no fetch goes beyond `LastFetched` (`FetchBound`), no block
beyond `FetchableTo` is added (`AddedIsFetchable`), and whatever takes a process
down has a cause (`CrashHasCause`, `SourceTooShort`, `FetchingIsEarly`).

### StoredStatsProofs

`TypeCorrect`, `StoredHistory` (`StoredIsHistory`) and `StorageGrows`
(`StoredOnlyGrows`). What is stored was encoded before, from a slice read in the
middle of an append perhaps, so `IInv` says of slice, encoding and stored results
that each is a history and the slice the longest (`GrowHistory` and `FillHistory`
are the two halves of the append), that an attempt under way is one of those
allowed, and that an encoding about to be put on S3 has no fewer recorded blocks
than the object there (`GrowsInv`), although an earlier put may have been
answered with an error after it took effect.

### BenchmarkProofs

A run is a `Pipeline` and a `StoredStats`: `PipelineStep` and `StatsStep` show that
every step is one of theirs or leaves them alone, so both invariants carry over
(`ImplementsPipeline` says it of the whole behaviour), and `IInv` ties them
together. At every call of `addBlock`, the statistics are as many as
`remainingBlockCount` says have been done, `addBlock` builds on the block after
the last (`AddBlockInv`), and the head is that block, except for a call that
failed after it took effect (`HeadInv`); `MonitorInv` and `FinalInv` say what the
monitor has stored when it leaves its loop. On top of it:

- `BenchmarkTypeCorrect`, and `FaithfulReplay` (`ReplayFaithful`): `FaithfulInv`
  follows parent and payload from call to call;
- `BenchmarkRefines`: each step is a step of `ChainReplay` or a stutter;
  `HeadMoves` and `MonitorPublishes` are the cases that matter;
- `FinalResults` (`FinalResultsComplete`) and `CleanRun` (`CleanRunSurvives`);
- `IsTheRunOfService` (`RunsAsServiceExpects`): each step is one that `Service`
  allows the run it abstracts. A block more is within the configured end and the
  source's whole batches (`HeadIsFetchable`, `MoveExtends`); a crash has one of
  the causes that `Service` names, also after the run has returned
  (`CrashIsServices`, `LateCrash`).

### ServiceProofs and ReplayorProofs

`ServiceAssumption` says that the block count is an `int` and that no chain is
longer than an `int` can count; the unsigned arithmetic has any width.

`ServiceTypeCorrect`, `BenchmarkStartsOnStartBlock`, `WalkUpIsFaithful`,
`NeverPastConfiguredEnd` and `ClosesOnceReplayed`, for every set of configurations
and number of restarts, depend on what earlier runs and processes have left:
`IInv` adds that a call is left behind only by a run that has returned
(`AbandonedInv`), that the head is not behind what `Start` has read (`HeadInv`),
and that no run reaches past the configured end (`EndInv`). `EndOfBenchmark` is
the arithmetic: the two wraps of a negative count cancel out as long as the
signed end is not negative. When it is negative, the end is one that no chain
reaches, which is what `ClosesOnceReplayed` needs the chain lengths for:
`ReplayedInv` says that, until somebody stops the benchmark, only its own run
moves the head, and never beyond what the source has. `ExtendKeeps` is the case
that matters, a block more, by a run or by a call left behind; `MoveKeepsInv`,
`BlockKeepsInv` and `CrashKeepsInv` take the other actions in groups.

`ReplayorProofs` proves that the process implements the service
(`MainImplementsService`: every step of `main` is one of `Service` or leaves it
alone), which carries these theorems over, and, from `ReplayorAssumption`, what the
set-up makes sure of: `MainTypeCorrect` and `StartsReachable`. `MainInv` collects
what the steps before the present one have established.
`UnknownStrategyWalksUpOnly` (`UnknownStrategyOnlyWalksUp`) is about all of it: the
walk-up's own run, whatever the strategy, ends on the start block, a call left
behind lands on it or before, and `Start` never comes to the benchmark.

### StressTestProofs

For every number of accounts, blocks under way, gas target, gas limit, gas of a
call, fee caps, tips, base fees and funding. Two counters, `mapped` and
`executed` with `handled`, decide everything: `BlockTxs` is the content of a
block in closed form, and `IInv` says that the queue holds these blocks
(`QueueInv`), that the local nonces are those counted up to `mapped`
(`LocalInv`, `Counted`), and that the destination's are never past those counted
up to where it is (`ChainInv`, `Reached`). When the limit leaves room and the
fees are covered (`HasRoom`), `RoomInv` gives the destination's nonce exactly
and bounds the gas left after each transaction, and `RoomExecutes` concludes
that the next one goes in; `RoomForCall` is the arithmetic of a packed block.
`FundsInv` bounds what the first account has paid by what its nonce says it has
sent (`Bill`), and `BillCovered` shows that `FundingLasts` leaves it enough.

- `StressTypeCorrect`: `TypeOK`, with the gas within the limit (`CostFacts`);
- `NoncesFollow` and `TargetReached`: `NoncesFollowChain` and `RoomReachesTarget`,
  with room. What `HasRoom` asks is in the configuration, in the market and in the
  constants, never in the state of the run;
- `NoncesUsedOnce` and `Funded`: `NoncesNeverReused` and `FundedOnce`, under every
  configuration, whatever is dropped. `FirstNonceGrows` keeps the blocks' nonces
  apart.

### TracesProofs

For every gas limit, depth of calls and storage; `TracesAssumption` has the gas
of all transactions together fit in 64 bits. `traceReceipt` sees of an
instruction only its log and the next one. So `ChargeInv` follows the EVM: while
a log has no successor yet it says what its charge would be if the next
instruction were logged now, and `FrameInv` relates the frames' gas to what the
transaction has left. `GasInv` keeps what an opcode has been charged with below
the gas of the receipts handled, so that nothing wraps but for the opcodes in
`inexact`; `ChargedExactly` puts the two together for one log. `DiffInv` says
that the merged traces hold the changed locations and accounts, and of accounts
that destroyed themselves nothing but their own; `Between` and `Disjoint` turn
that into counts. The theorems are `TracesTypeCorrect`, `GasIsExact`,
`SlotsAreExact` and `TriesAreExact`.

### Only model-checked

All liveness: `EventuallyDrains`, `CancelStopsSubmitter`, `WriteReturns`,
`InterruptEnds`, `EventuallyReturns` and `ProcessEnds`, since fairness and
ENABLED are out of the prover's reach. The properties of the findings do not
hold, and TLC shows how.

## Not modelled

Block contents, timings, receipts, logging; the parsing of flags and of rollup
files, which the libraries do; `randAddrIndex`, which nothing calls, and
`packEthTransfer`, which no accepted configuration selects; of the contracts
everything but the gas that a call uses, and the tables of their bytecode. Block
numbers are assumed not to overflow inside a run: `Pipeline` and `Benchmark`
take a last block that is not below the first, and `Service` says when the
configuration gives one that is (`NeverPastTheEnd`).

## Plan

1. Done: `Pipeline`, `StoredStats`, `Benchmark` against `ChainReplay`, proofs of
   `Pipeline`'s safety.
2. Done: `Service`, `StressTest`, `Traces`.
3. Done: `Service` with every configuration and as an abstraction of `Benchmark`;
   `Config` and `Replayor` around it.
4. Done: proofs of `StoredStats`, `Service` and `Replayor`; of `Benchmark` as a
   `Pipeline` and a `StoredStats`, against `ChainReplay` and as `Service`'s run.
5. Done: proofs of `Traces` and `StressTest`.
6. Left: what needs induction over data (`NumTxs` and `Calls` against the loops
   they stand for) and liveness stay with TLC.
