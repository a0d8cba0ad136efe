------------------------------ MODULE Pipeline ------------------------------
(***************************************************************************)
(* The three goroutines of a replay benchmark and the two buffered         *)
(* channels between them (packages/replayor/benchmark.go):                 *)
(*                                                                         *)
(*   loadBlocks --incomingBlocks--> mapBlocks --processBlocks--> submitBlocks*)
(*                                                                         *)
(* The source chain is fixed while it is read, so a source block is its    *)
(* number; no block of the chain above CurrentNum has the number Nil.      *)
(* addBlock is one visit of the submitter to "add": Benchmark.tla opens it.*)
(***************************************************************************)
EXTENDS Integers, Sequences

CONSTANTS
  CurrentNum,   \* number of the destination's block the benchmark starts on
  BlockCount,   \* how many blocks to replay
  Concurrency,  \* blocks fetched at once by loadBlocks (25 in the code)
  IncomingCap,  \* capacity of incomingBlocks (25 in the code)
  ProcessCap,   \* capacity of processBlocks (25 in the code)
  SourceHead,   \* last block the source node can serve
  MaxUint64,    \* largest uint64
  Faults        \* what the environment may do: see FaultKinds

\* The source node fails for good; the strategy cannot use a block; an engine
\* call fails; the destination builds another block than the source's; a
\* write to storage fails; the context is cancelled.
FaultKinds == {"source", "strategy", "engine", "divergence", "storage", "interrupt"}

\* What holds of the constants. Whoever gives them values assumes it.
PipelineAssumption ==
  /\ CurrentNum \in Nat
  /\ BlockCount \in Nat
  /\ Concurrency \in Nat \ {0}
  /\ IncomingCap \in Nat \ {0}
  /\ ProcessCap \in Nat \ {0}
  /\ SourceHead \in Nat
  /\ MaxUint64 \in Nat
  /\ CurrentNum + BlockCount + Concurrency <= MaxUint64
  /\ Faults \subseteq FaultKinds

VARIABLES
  blockStartRange,     \* loadBlocks: first block of the batch being loaded
  results,             \* loadBlocks: the batch, Nil where not yet fetched
  sent,                \* loadBlocks: how many of the batch have been sent on
  incomingBlocks, incomingClosed,
  mapper, mapped,      \* mapBlocks: where it is, and the block it holds
  processBlocks, processClosed,
  submitter, adding,   \* submitBlocks: where it is, and the block in addBlock
  remainingBlockCount,
  cancelled,           \* the context of the benchmark is done
  crashed              \* the process is gone: a panic, or log.Crit

loaderVars == <<blockStartRange, results, sent, incomingClosed>>
mapperVars == <<mapper, mapped, processClosed>>
submitterVars == <<submitter, adding, remainingBlockCount>>
channelVars == <<incomingBlocks, processBlocks>>
processVars == <<cancelled, crashed>>
vars == <<loaderVars, mapperVars, submitterVars, channelVars, processVars>>

Nil == 0
Slots == 0 .. (Concurrency - 1)
EmptyResults == [i \in Slots |-> Nil]

startBlockNum == CurrentNum + 1
endBlockNum == CurrentNum + BlockCount

\* n - 1 on a uint64.
Decrement(n) == IF n = 0 THEN MaxUint64 ELSE n - 1

\* NewBenchmark, and Run starting the goroutines.
Init ==
  /\ blockStartRange = startBlockNum
  /\ results = EmptyResults
  /\ sent = 0
  /\ incomingBlocks = <<>> /\ incomingClosed = FALSE
  /\ mapper = "recv" /\ mapped = Nil
  /\ processBlocks = <<>> /\ processClosed = FALSE
  /\ submitter = "recv" /\ adding = Nil
  /\ remainingBlockCount = BlockCount
  /\ cancelled = FALSE
  /\ crashed = FALSE

-----------------------------------------------------------------------------
(* loadBlocks: fetch a batch concurrently, wait for all of it, send it in   *)
(* order. It looks at the context only through the source node's client.    *)

\* A bug: one batch too many.
InRangePlusBatch == blockStartRange <= endBlockNum + Concurrency

\* The condition of the loop over batches.
InRange == blockStartRange <= endBlockNum

\* What the source node must be able to serve: whole batches are fetched.
LastFetched ==
  CurrentNum + Concurrency * ((BlockCount + Concurrency - 1) \div Concurrency)

Loading == ~crashed /\ InRange

\* A bug: a fetched block goes to the first free slot, in completion order.
FetchBlockAsCompleted(i) ==
  /\ Loading
  /\ \A s \in Slots : results[s] # blockStartRange + i
  /\ ~cancelled
  /\ blockStartRange + i <= SourceHead
  /\ \E s \in Slots :
       /\ results[s] = Nil
       /\ \A t \in 0 .. (s - 1) : results[t] # Nil
       /\ results' = [results EXCEPT ![s] = blockStartRange + i]
  /\ UNCHANGED <<blockStartRange, sent, incomingClosed,
                 mapperVars, submitterVars, channelVars, processVars>>

\* Slot i's goroutine gets its block from the source node.
FetchBlock(i) ==
  /\ Loading
  /\ results[i] = Nil
  /\ ~cancelled
  /\ blockStartRange + i <= SourceHead
  /\ results' = [results EXCEPT ![i] = blockStartRange + i]
  /\ UNCHANGED <<blockStartRange, sent, incomingClosed,
                 mapperVars, submitterVars, channelVars, processVars>>

\* It runs out of attempts, or the context is done, and panics.
FetchFails(i) ==
  /\ Loading
  /\ results[i] = Nil
  /\ \/ cancelled
     \/ blockStartRange + i > SourceHead
     \/ "source" \in Faults
  /\ crashed' = TRUE
  /\ UNCHANGED <<loaderVars, mapperVars, submitterVars, channelVars, cancelled>>

\* After wg.Wait: send the next block of the batch; start the next batch
\* after the last one.
SendBlock ==
  /\ Loading
  /\ \A i \in Slots : results[i] # Nil
  /\ Len(incomingBlocks) < IncomingCap
  /\ incomingBlocks' = Append(incomingBlocks, results[sent])
  /\ \/ /\ sent + 1 < Concurrency
        /\ sent' = sent + 1
        /\ UNCHANGED <<blockStartRange, results>>
     \/ /\ sent + 1 = Concurrency
        /\ sent' = 0
        /\ blockStartRange' = blockStartRange + Concurrency
        /\ results' = EmptyResults
  /\ UNCHANGED <<incomingClosed, processBlocks, mapperVars, submitterVars,
                 processVars>>

\* A bug: the channel is never closed.
CloseIncomingForgotten == FALSE

CloseIncoming ==
  /\ ~crashed
  /\ ~InRange
  /\ ~incomingClosed
  /\ incomingClosed' = TRUE
  /\ UNCHANGED <<blockStartRange, results, sent, mapperVars, submitterVars,
                 channelVars, processVars>>

-----------------------------------------------------------------------------
(* mapBlocks: both strategies turn every block into parameters (neither     *)
(* returns nil) or panic, so a mapped block keeps its number.               *)

MapReceive ==
  /\ ~crashed
  /\ mapper = "recv"
  /\ incomingBlocks # <<>>
  /\ mapped' = Head(incomingBlocks)
  /\ incomingBlocks' = Tail(incomingBlocks)
  /\ mapper' = "send"
  /\ UNCHANGED <<processClosed, processBlocks, loaderVars, submitterVars,
                 processVars>>

\* The stress strategy panics on a block it cannot build on.
MapPanics ==
  /\ ~crashed
  /\ mapper = "recv"
  /\ incomingBlocks # <<>>
  /\ "strategy" \in Faults
  /\ crashed' = TRUE
  /\ UNCHANGED <<loaderVars, mapperVars, submitterVars, channelVars, cancelled>>

\* A bug: processBlocks made with more room than the rest relies on.
MapSendUnbounded ==
  /\ ~crashed
  /\ mapper = "send"
  /\ processBlocks' = Append(processBlocks, mapped)
  /\ mapper' = "recv"
  /\ mapped' = Nil
  /\ UNCHANGED <<processClosed, incomingBlocks, loaderVars, submitterVars,
                 processVars>>

\* Blocks while processBlocks is full, whatever happens to the context.
MapSend ==
  /\ ~crashed
  /\ mapper = "send"
  /\ Len(processBlocks) < ProcessCap
  /\ processBlocks' = Append(processBlocks, mapped)
  /\ mapper' = "recv"
  /\ mapped' = Nil
  /\ UNCHANGED <<processClosed, incomingBlocks, loaderVars, submitterVars,
                 processVars>>

MapClosed ==
  /\ ~crashed
  /\ mapper = "recv"
  /\ incomingBlocks = <<>> /\ incomingClosed
  /\ processClosed' = TRUE
  /\ mapper' = "done"
  /\ UNCHANGED <<mapped, loaderVars, submitterVars, channelVars, processVars>>

\* processBlocks stays open.
MapCancelled ==
  /\ ~crashed
  /\ mapper = "recv"
  /\ cancelled
  /\ mapper' = "done"
  /\ UNCHANGED <<mapped, processClosed, loaderVars, submitterVars, channelVars,
                 processVars>>

-----------------------------------------------------------------------------
(* submitBlocks                                                             *)

SubmitReceive ==
  /\ ~crashed
  /\ submitter = "recv"
  /\ processBlocks # <<>>
  /\ Head(processBlocks) <= endBlockNum
  /\ adding' = Head(processBlocks)
  /\ processBlocks' = Tail(processBlocks)
  /\ submitter' = "add"
  /\ UNCHANGED <<remainingBlockCount, incomingBlocks, loaderVars, mapperVars,
                 processVars>>

\* A bug: >= for > in the test for the end.
SubmitStopsOffByOne ==
  /\ ~crashed
  /\ submitter = "recv"
  /\ IF processBlocks = <<>> THEN processClosed
                             ELSE Head(processBlocks) >= endBlockNum
  /\ processBlocks' = IF processBlocks = <<>> THEN <<>> ELSE Tail(processBlocks)
  /\ submitter' = "done"
  /\ UNCHANGED <<adding, remainingBlockCount, incomingBlocks, loaderVars,
                 mapperVars, processVars>>

\* The channel is drained and closed, or gives a block past the end, which is
\* dropped.
SubmitStops ==
  /\ ~crashed
  /\ submitter = "recv"
  /\ IF processBlocks = <<>> THEN processClosed
                             ELSE Head(processBlocks) > endBlockNum
  /\ processBlocks' = IF processBlocks = <<>> THEN <<>> ELSE Tail(processBlocks)
  /\ submitter' = "done"
  /\ UNCHANGED <<adding, remainingBlockCount, incomingBlocks, loaderVars,
                 mapperVars, processVars>>

\* A bug: the select does not watch the context.
SubmitIgnoresCancel == FALSE

SubmitCancelled ==
  /\ ~crashed
  /\ submitter = "recv"
  /\ cancelled
  /\ submitter' = "done"
  /\ UNCHANGED <<adding, remainingBlockCount, loaderVars, mapperVars,
                 channelVars, processVars>>

AddBlockReturns ==
  /\ ~crashed
  /\ submitter = "add"
  /\ submitter' = "recv"
  /\ adding' = Nil
  /\ remainingBlockCount' = Decrement(remainingBlockCount)
  /\ UNCHANGED <<loaderVars, mapperVars, channelVars, processVars>>

\* Any error inside addBlock is log.Crit: the process exits.
AddBlockCrit ==
  /\ ~crashed
  /\ submitter = "add"
  /\ cancelled \/ Faults \cap {"engine", "divergence"} # {}
  /\ crashed' = TRUE
  /\ UNCHANGED <<loaderVars, mapperVars, submitterVars, channelVars, cancelled>>

-----------------------------------------------------------------------------
\* The application's context, or Service.Stop, ends the benchmark's context.
Cancel ==
  /\ "interrupt" \in Faults
  /\ ~crashed /\ ~cancelled
  /\ cancelled' = TRUE
  /\ UNCHANGED <<loaderVars, mapperVars, submitterVars, channelVars, crashed>>

\* Run's own loop cannot read the destination's head, and panics.
MonitorPanics ==
  /\ ~crashed
  /\ cancelled \/ "engine" \in Faults
  /\ crashed' = TRUE
  /\ UNCHANGED <<loaderVars, mapperVars, submitterVars, channelVars, cancelled>>

AllDone == incomingClosed /\ mapper = "done" /\ submitter = "done"

\* Nothing is left to do. Once cancelled, only the submitter is waited for:
\* the loader may stay blocked on a channel nobody reads.
Terminated ==
  /\ crashed \/ AllDone \/ (cancelled /\ submitter = "done")
  /\ UNCHANGED vars

Loader == (\E i \in Slots : FetchBlock(i) \/ FetchFails(i)) \/ SendBlock \/ CloseIncoming
Mapper == MapReceive \/ MapPanics \/ MapSend \/ MapClosed \/ MapCancelled
Submitter == \/ SubmitReceive \/ SubmitStops \/ SubmitCancelled
             \/ AddBlockReturns \/ AddBlockCrit

Next == Loader \/ Mapper \/ Submitter \/ MonitorPanics \/ Cancel \/ Terminated

\* Each goroutine keeps being scheduled, so it takes the steps that are its own.
\* Nothing makes a node answer: the clients of the source and of the
\* destination have no call timeout, so neither a fetch nor a visit to addBlock
\* need ever end. A context that is done ends a fetch.
Fairness ==
  /\ \A i \in Slots : WF_vars(cancelled /\ FetchFails(i))
  /\ WF_vars(SendBlock \/ CloseIncoming)
  /\ WF_vars(Mapper)
  /\ WF_vars(SubmitReceive \/ SubmitStops \/ SubmitCancelled)

Safety == Init /\ [][Next]_vars
Spec == Safety /\ Fairness

-----------------------------------------------------------------------------
(* Properties                                                               *)

\* The state's shape, with the bounds of both channels.
TypeOK ==
  /\ blockStartRange \in Nat
  /\ results \in [Slots -> Nat]
  /\ sent \in Slots
  /\ incomingBlocks \in Seq(Nat) /\ Len(incomingBlocks) <= IncomingCap
  /\ incomingClosed \in BOOLEAN
  /\ mapper \in {"recv", "send", "done"} /\ mapped \in Nat
  /\ processBlocks \in Seq(Nat) /\ Len(processBlocks) <= ProcessCap
  /\ processClosed \in BOOLEAN
  /\ submitter \in {"recv", "add", "done"} /\ adding \in Nat
  /\ remainingBlockCount \in Nat
  /\ cancelled \in BOOLEAN
  /\ crashed \in BOOLEAN

\* Whatever order the fetches of a batch end in, addBlock gets the blocks of
\* the source chain one by one and in order: the block it is adding is the one
\* remainingBlockCount says is next, so none is skipped, repeated or swapped,
\* and none past endBlockNum is ever submitted.
SubmitsInOrder ==
  submitter = "add" =>
    /\ remainingBlockCount \in 1 .. BlockCount
    /\ adding = endBlockNum - remainingBlockCount + 1

\* submitBlocks gives up early only on a cancelled context: otherwise it ends
\* with every block of the benchmark added, and the count has not wrapped.
StopsWhenReplayed ==
  submitter = "done" /\ ~cancelled => remainingBlockCount = 0

\* Nobody reads processBlocks once the submitter is done, yet the mapper never
\* blocks for good on sending what the loader fetched past the end: it all fits.
\* Holds when Concurrency <= ProcessCap + 2 (25 and 25 in the code).
MapperNeverStuck ==
  submitter = "done" /\ ~cancelled /\ mapper = "send" =>
    Len(processBlocks) < ProcessCap

\* In an environment without faults, on a source node that has every block to
\* replay, the benchmark never takes the process down.
ReplaysAvailableBlocks ==
  Faults = {} /\ endBlockNum <= SourceHead => ~crashed

\* A call to the source, or one made for the block being added, is unanswered.
FetchPending == Loading /\ \E i \in Slots : results[i] = Nil
AddPending == submitter = "add"

\* The run ends by itself, all three goroutines with it, unless it is cancelled
\* or the process is gone. One thing alone can hold it up for good: a node that
\* never answers a call. The channels cannot, whoever has stopped reading them.
EventuallyDrains ==
  <>(AllDone \/ cancelled \/ crashed) \/ <>[]FetchPending \/ <>[]AddPending

\* A cancelled submitter stops, and does not wait for a mapper that has gone
\* without closing the channel. Only the block it is adding can keep it for
\* good: the tracing calls are made without a context.
CancelStopsSubmitter ==
  (cancelled ~> (submitter = "done" \/ crashed)) \/ <>[]AddPending
=============================================================================
