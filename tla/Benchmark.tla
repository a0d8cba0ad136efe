----------------------------- MODULE Benchmark -----------------------------
(***************************************************************************)
(* A whole benchmark run (packages/replayor/benchmark.go): the pipeline of *)
(* Pipeline.tla with addBlock opened up into its calls to the engine, the  *)
(* recorder of StoredStats.tla, and the monitor, Run's own loop, which     *)
(* reads the destination's head, saves progress and writes the results.    *)
(*                                                                         *)
(* A block of the destination is its number, and whether it is the source  *)
(* chain's block of that number: having the same hash, so having the same  *)
(* ancestors. The destination is external, modelled from its answers.      *)
(***************************************************************************)
EXTENDS Integers, Sequences

CONSTANTS
  CurrentNum, BlockCount, Concurrency, IncomingCap, ProcessCap, SourceHead,
  MaxUint64, Faults,                     \* see Pipeline
  StartBlock, StorageTypes, Attempts,    \* see StoredStats
  Strategies,   \* the strategies the configuration may name
  SaveEvery     \* blocks between two saves of the progress (100 in the code)

VARIABLES
  blockStartRange, results, sent, incomingBlocks, incomingClosed, mapper, mapped,
  processBlocks, processClosed, submitter, adding, remainingBlockCount,
  cancelled, crashed,
  stats, lastBlockWritten, storageType, stored, writing, attempts, marshalled,
  strategy,
  phase,       \* addBlock: the call it is about to make, "idle" outside
  previous,    \* previousReplayedBlockHash
  payload,     \* addBlock: the envelope's execution payload
  head,        \* the destination's latest block
  monitor      \* Run: where its loop is

P == INSTANCE Pipeline
S == INSTANCE StoredStats WITH LastBlock <- CurrentNum + BlockCount

ASSUME BenchmarkAssumption ==
  /\ P!PipelineAssumption
  /\ S!StoredStatsAssumption
  /\ Strategies \subseteq {"replay", "stress"} /\ Strategies # {}
  /\ SaveEvery \in Nat

pipelineVars == <<blockStartRange, results, sent, incomingBlocks, incomingClosed,
                  mapper, mapped, processBlocks, processClosed, submitter, adding,
                  remainingBlockCount>>
processVars == <<cancelled, crashed>>
statsVars == <<stats, lastBlockWritten, storageType, stored, writing, attempts,
               marshalled>>
addBlockVars == <<phase, previous, payload>>
replayVars == <<strategy, addBlockVars, head>>
vars == <<pipelineVars, processVars, statsVars, replayVars, monitor>>

Block == [number : Nat, original : BOOLEAN]
startBlock == [number |-> CurrentNum, original |-> TRUE]

\* a - b on uint64s.
Sub(a, b) == (a - b) % (MaxUint64 + 1)

\* NewBenchmark on the destination's latest block, and Run.
Init ==
  /\ P!Init
  /\ S!InitStats
  /\ strategy \in Strategies
  /\ phase = "idle"
  /\ previous = startBlock
  /\ payload = startBlock
  /\ head = startBlock
  /\ monitor = "select"

-----------------------------------------------------------------------------
(* addBlock: each step is one call with the check of its answer.            *)

BeginAddBlock ==
  /\ P!SubmitReceive
  /\ phase' = "fcuAttrs"
  /\ UNCHANGED <<statsVars, strategy, previous, payload, head, monitor>>

\* What the destination may build on a parent from the attributes for block
\* number n: the source's block n, when it has the same parent, the attributes
\* are the source block's and the node executes them as the source did.
Built(parent, n) ==
  { b \in [number : {parent.number + 1}, original : BOOLEAN] :
      /\ b.original => parent.original /\ parent.number + 1 = n
      /\ b.original => strategy = "replay"
      /\ ~b.original /\ strategy = "replay" /\ parent.original /\ parent.number + 1 = n
           => "divergence" \in Faults }

\* The call makes previous the head, and starts building on it.
ForkchoiceUpdateWithAttrs ==
  /\ ~crashed
  /\ phase = "fcuAttrs"
  /\ ~cancelled
  /\ head' = previous
  /\ payload' \in Built(previous, adding)
  /\ phase' = "getPayload"
  /\ UNCHANGED <<pipelineVars, processVars, statsVars, strategy, previous, monitor>>

\* OneForOne compares hashes, StressTest accepts anything.
ValidateExecution ==
  strategy = "replay" => payload.original /\ payload.number = adding

\* A bug: the execution is not validated before the block is made the head.
GetPayloadUnvalidated ==
  /\ ~crashed
  /\ phase = "getPayload"
  /\ ~cancelled
  /\ phase' = "newPayload"
  /\ UNCHANGED <<pipelineVars, processVars, statsVars, strategy, previous, payload, head, monitor>>

GetPayload ==
  /\ ~crashed
  /\ phase = "getPayload"
  /\ ~cancelled
  /\ ValidateExecution
  /\ phase' = "newPayload"
  /\ UNCHANGED <<pipelineVars, processVars, statsVars, strategy, previous, payload, head, monitor>>

NewPayload ==
  /\ ~crashed
  /\ phase = "newPayload"
  /\ ~cancelled
  /\ phase' = "fcuNoAttrs"
  /\ UNCHANGED <<pipelineVars, processVars, statsVars, strategy, previous, payload, head, monitor>>

\* A bug: the next block is built on the same parent again.
ForkchoiceUpdateKeepsPrevious ==
  /\ ~crashed
  /\ phase = "fcuNoAttrs"
  /\ ~cancelled
  /\ head' = payload
  /\ phase' = "enrich"
  /\ UNCHANGED <<pipelineVars, processVars, statsVars, strategy, previous, payload, monitor>>

\* The new block becomes the head, passes ValidateBlock, which checks no more
\* than ValidateExecution has, and is what the next one will be built on.
ForkchoiceUpdateNoAttrs ==
  /\ ~crashed
  /\ phase = "fcuNoAttrs"
  /\ ~cancelled
  /\ head' = payload
  /\ previous' = payload
  /\ phase' = "enrich"
  /\ UNCHANGED <<pipelineVars, processVars, statsVars, strategy, payload, monitor>>

\* Receipts and traces only add to the statistics: a failure is a warning. Then
\* RecordBlockStats starts.
EnrichAndRecord ==
  /\ phase = "enrich"
  /\ S!GrowStats
  /\ phase' = "record"
  /\ UNCHANGED <<pipelineVars, processVars, strategy, previous, payload, head, monitor>>

EndAddBlock ==
  /\ phase = "record"
  /\ S!FillStats(payload.number)
  /\ P!AddBlockReturns
  /\ phase' = "idle"
  /\ UNCHANGED <<strategy, previous, payload, head, monitor>>

\* An engine call fails, or answers a status that is not valid: log.Crit. The
\* node may have done what it was asked all the same.
EngineCrit ==
  /\ P!AddBlockCrit
  /\ phase \in {"fcuAttrs", "getPayload", "newPayload", "fcuNoAttrs"}
  /\ cancelled \/ "engine" \in Faults
  /\ \/ UNCHANGED head
     \/ phase = "fcuAttrs" /\ head' = previous
     \/ phase = "fcuNoAttrs" /\ head' = payload
  /\ UNCHANGED <<statsVars, strategy, addBlockVars, monitor>>

ValidationCrit ==
  /\ ~crashed
  /\ phase = "getPayload"
  /\ ~ValidateExecution
  /\ crashed' = TRUE
  /\ UNCHANGED <<pipelineVars, cancelled, statsVars, replayVars, monitor>>

AddBlock == \/ BeginAddBlock \/ ForkchoiceUpdateWithAttrs \/ GetPayload \/ NewPayload
            \/ ForkchoiceUpdateNoAttrs \/ EnrichAndRecord \/ EndAddBlock
            \/ EngineCrit \/ ValidationCrit

-----------------------------------------------------------------------------
(* The monitor. A tick that saves nothing changes nothing.                  *)

TickSaves ==
  /\ monitor = "select"
  /\ ~cancelled
  /\ Sub(head.number, lastBlockWritten) >= SaveEvery
  /\ S!BeginWrite
  /\ monitor' = "save"
  /\ UNCHANGED <<pipelineVars, processVars, replayVars>>

\* The destination's head cannot be read: panic.
TickFails ==
  /\ monitor = "select"
  /\ P!MonitorPanics
  /\ UNCHANGED <<statsVars, replayVars, monitor>>

\* A bug: Run returns without the last write.
SelectDoneUnwritten ==
  /\ ~crashed
  /\ monitor = "select"
  /\ submitter = "done"
  /\ monitor' = "returned"
  /\ UNCHANGED <<pipelineVars, processVars, statsVars, replayVars>>

\* doneChan is closed: the last write.
SelectDone ==
  /\ monitor = "select"
  /\ submitter = "done"
  /\ S!BeginWrite
  /\ monitor' = "final"
  /\ UNCHANGED <<pipelineVars, processVars, replayVars>>

\* The context is done: Run returns and writes nothing.
SelectCancelled ==
  /\ ~crashed
  /\ monitor = "select"
  /\ cancelled
  /\ monitor' = "returned"
  /\ UNCHANGED <<pipelineVars, processVars, statsVars, replayVars>>

WriteStep ==
  /\ \/ S!Marshal \/ S!GiveUp \/ S!TruncateFile \/ S!StoreResults \/ S!AttemptFails
  /\ UNCHANGED <<pipelineVars, processVars, replayVars, monitor>>

WriteEnds ==
  /\ S!MarkWritten
  /\ monitor' = IF monitor = "final" THEN "returned" ELSE "select"
  /\ UNCHANGED <<pipelineVars, processVars, replayVars>>

Monitor == \/ TickSaves \/ TickFails \/ SelectDone \/ SelectCancelled
           \/ WriteStep \/ WriteEnds

-----------------------------------------------------------------------------
others == <<statsVars, replayVars, monitor>>

FetchBlock(i) == (P!FetchBlock(i) \/ P!FetchFails(i)) /\ UNCHANGED others
LoaderSends == (P!SendBlock \/ P!CloseIncoming) /\ UNCHANGED others
Mapper == P!Mapper /\ UNCHANGED others
SubmitterEnds == (P!SubmitStops \/ P!SubmitCancelled) /\ UNCHANGED others
Cancel == P!Cancel /\ UNCHANGED others

Returned == monitor = "returned"

\* Once Run has returned, or the process is gone, the rest may stay blocked.
Terminated == (crashed \/ Returned) /\ UNCHANGED vars

Next ==
  \/ \E i \in P!Slots : FetchBlock(i)
  \/ LoaderSends \/ Mapper \/ AddBlock \/ SubmitterEnds \/ Monitor
  \/ Cancel \/ Terminated

\* Every goroutine keeps being scheduled, and the nodes are taken to answer:
\* nothing in the clients of source and destination bounds a call in time (what
\* is left when they do not answer, Pipeline says). When several cases of the
\* monitor's select are ready Go takes one at random, so one that is ready time
\* and again is taken in the end.
Fairness ==
  /\ \A i \in P!Slots : WF_vars(FetchBlock(i))
  /\ WF_vars(LoaderSends)
  /\ WF_vars(Mapper)
  /\ WF_vars(AddBlock \/ SubmitterEnds)
  /\ WF_vars(Monitor)
  /\ SF_vars(SelectDone)

Safety == Init /\ [][Next]_vars
Spec == Safety /\ Fairness

-----------------------------------------------------------------------------
(* Properties                                                               *)

endBlockNum == CurrentNum + BlockCount

\* The state's shape, and that of its parts.
TypeOK ==
  /\ P!TypeOK
  /\ S!TypeOK
  /\ strategy \in Strategies
  /\ phase \in {"idle", "fcuAttrs", "getPayload", "newPayload", "fcuNoAttrs",
                "enrich", "record"}
  /\ {previous, payload, head} \subseteq Block
  /\ monitor \in {"select", "save", "final", "returned"}

\* A replay never makes a block the destination's head that is not the source's
\* block of the same number, even when the two nodes execute differently and
\* even at the moment the process goes down over it.
ReplayFaithful == strategy = "replay" => head.original

\* When Run returns uncancelled and storage works, the results are in storage,
\* readable, every block replayed in its place, no half recorded one among them.
FinalResultsComplete ==
  Returned /\ ~cancelled /\ "storage" \notin Faults =>
    /\ stored.whole
    /\ S!Read = [k \in 1 .. BlockCount |-> CurrentNum + k]
    /\ head.number = endBlockNum

\* Without faults, and with a source node that has every block the loader will
\* ask for, no interleaving of the goroutines takes the process down.
CleanRunSurvives ==
  Faults \subseteq {"interrupt"} /\ P!LastFetched <= SourceHead /\ ~cancelled => ~crashed

\* On nodes that answer, a run that nothing cancels or takes down ends, so
\* FinalResultsComplete says something of every such run.
EventuallyReturns == <>(Returned \/ cancelled \/ crashed)

\* An interrupted benchmark does not linger, on nodes that answer: Run returns,
\* and the submitter it no longer waits for ends by itself. Or the process is
\* gone: a call that the interrupt ends is a panic or a log.Crit to the code.
InterruptEnds == cancelled ~> (Returned /\ submitter = "done") \/ crashed

\* The benchmark keeps ChainReplay's promise. A half recorded block is not yet
\* recorded or published. Writing to disk takes back what is published, so the
\* promise about publications is S3's alone.
Published ==
  CurrentNum + (IF storageType = "s3" THEN Len(S!Recorded(stored.blocks)) ELSE 0)

Abstract == INSTANCE ChainReplay WITH
  First <- CurrentNum,
  Final <- CurrentNum + BlockCount,
  replayed <- head.number,
  recorded <- CurrentNum + Len(S!Recorded(stats)),
  published <- Published

ImplementsChainReplay == Abstract!Spec

\* Every step of a run is one that Service allows the run it abstracts, and so
\* is every step of what a run leaves behind when it returns: the blocks and
\* their order, the conditions of returning and of going down.
Caller == INSTANCE Service WITH
  Configs <- {},
  SyncAttempts <- 1,
  InitialHeads <- {},
  MaxRestarts <- 0,
  Faults <- (Faults \cap {"strategy"}) \union {"stop"}
            \union IF Faults \cap {"source", "engine", "divergence"} # {} THEN {"engine"} ELSE {},
  cfg <- [startBlock |-> 0, blockCount |-> BlockCount, strategy |-> strategy],
  head <- head.number,
  faithfulTo <- IF head.original THEN head.number ELSE CurrentNum,
  up <- {"execution", "engine"},
  syncing <- FALSE,
  service <- IF Returned THEN "close" ELSE "benchmark",
  currentBlock <- CurrentNum,
  syncFailures <- 0,
  runStart <- CurrentNum,
  runEnd <- endBlockNum,
  abandoned <- IF Returned /\ ~crashed /\ head.number < endBlockNum THEN "call" ELSE "none",
  appDone <- FALSE,
  stopped <- cancelled,
  restarts <- 0

RunsAsServiceExpects == [][Caller!Next]_<<head, crashed, cancelled, Returned>>
=============================================================================
