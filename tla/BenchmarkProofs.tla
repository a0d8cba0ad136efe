-------------------------- MODULE BenchmarkProofs --------------------------
(***************************************************************************)
(* Proofs about Benchmark for every chain, batch size, channel capacity    *)
(* and set of faults.                                                      *)
(*                                                                         *)
(* A run is a Pipeline and a StoredStats, whose invariants are proved in   *)
(* their own modules; IInv takes both and says how addBlock and the        *)
(* monitor tie them together: what the destination's head, the statistics  *)
(* and remainingBlockCount have to do with each other at every call, and   *)
(* what the monitor has stored when Run returns.                           *)
(***************************************************************************)
EXTENDS Benchmark, TLAPS

PP == INSTANCE PipelineProofs
SP == INSTANCE StoredStatsProofs WITH LastBlock <- CurrentNum + BlockCount

\* A payload that has passed ValidateExecution is the source's block.
FaithfulInv ==
  strategy = "replay" =>
    /\ head.original
    /\ previous.original
    /\ phase \in {"newPayload", "fcuNoAttrs"} => payload.original

\* How many blocks have been added and recorded.
Done == BlockCount - remainingBlockCount

OwnTypeOK ==
  /\ strategy \in Strategies
  /\ phase \in {"idle", "fcuAttrs", "getPayload", "newPayload", "fcuNoAttrs",
                "enrich", "record"}
  /\ previous \in Block /\ payload \in Block /\ head \in Block
  /\ monitor \in {"select", "save", "final", "returned"}

\* addBlock builds the block after the last one added, and records it as such.
AddBlockInv ==
  /\ phase = "idle" <=> submitter # "add"
  /\ phase = "record" <=> SP!Recording
  /\ SP!RecordedLen(stats) = Done
  /\ previous.number = CurrentNum + Done + IF phase \in {"enrich", "record"} THEN 1 ELSE 0
  /\ phase \in {"getPayload", "newPayload", "fcuNoAttrs"} =>
       payload.number = previous.number + 1
  /\ phase \in {"enrich", "record"} => payload.number = previous.number

\* The head is what addBlock builds on, but for a call that has failed after
\* having taken effect.
HeadInv ==
  \/ head = previous
  \/ crashed /\ phase = "fcuNoAttrs" /\ head = payload

\* What a node that executes as the source's has built passes validation.
BuiltInv ==
  phase = "getPayload" /\ strategy = "replay" /\ "divergence" \notin Faults =>
    payload.original

\* The stress strategy makes other blocks than the source's.
StressInv ==
  strategy # "replay" =>
    /\ previous.original => previous.number = CurrentNum
    /\ phase \in {"getPayload", "newPayload", "fcuNoAttrs"} => ~payload.original

\* The monitor is in Write, or not; it leaves its loop for a reason.
MonitorInv ==
  /\ writing = "idle" <=> monitor \in {"select", "returned"}
  /\ monitor = "final" => submitter = "done"
  /\ monitor = "returned" /\ ~cancelled => submitter = "done"

\* The last write encodes and stores everything, when nothing fails it.
FinalInv ==
  ~cancelled /\ "storage" \notin Faults =>
    /\ monitor = "final" /\ writing \in {"put", "truncated"} => marshalled = stats
    /\ monitor = "returned" \/ (monitor = "final" /\ writing = "mark") =>
         stored = [whole |-> TRUE, blocks |-> stats]

IInv == /\ PP!IInv /\ PP!BatchInv /\ PP!FetchedInv /\ SP!IInv
        /\ OwnTypeOK /\ FaithfulInv /\ AddBlockInv /\ HeadInv /\ BuiltInv /\ StressInv
        /\ MonitorInv /\ FinalInv

-----------------------------------------------------------------------------
(* The actions of the two parts, as the modules proved about name them.     *)

\* A step of the pipeline here is a step of the module PipelineProofs is about.
LEMMA SamePipeline ==
  /\ P!PipelineAssumption <=> PP!PipelineAssumption
  /\ P!Init <=> PP!Init
  /\ [P!Next]_(P!vars) => [PP!Next]_(PP!vars)
  <1>1. (P!PipelineAssumption <=> PP!PipelineAssumption) /\ (P!Init <=> PP!Init)
    BY DEF P!PipelineAssumption, PP!PipelineAssumption, P!FaultKinds, PP!FaultKinds,
       P!Init, PP!Init, P!startBlockNum, PP!startBlockNum, P!EmptyResults,
       PP!EmptyResults, P!Slots, PP!Slots, P!Nil, PP!Nil
  <1>2. UNCHANGED P!vars <=> UNCHANGED PP!vars
    BY DEF P!vars, PP!vars, P!loaderVars, PP!loaderVars, P!mapperVars, PP!mapperVars,
       P!submitterVars, PP!submitterVars, P!channelVars, PP!channelVars,
       P!processVars, PP!processVars
  <1> USE DEF P!loaderVars, PP!loaderVars, P!mapperVars, PP!mapperVars,
      P!submitterVars, PP!submitterVars, P!channelVars, PP!channelVars,
      P!processVars, PP!processVars, P!Nil, PP!Nil, P!Slots, PP!Slots,
      P!endBlockNum, PP!endBlockNum
  <1>3. P!Loader => PP!Loader
    BY DEF P!Loader, PP!Loader, P!FetchBlock, PP!FetchBlock, P!FetchFails, PP!FetchFails,
       P!SendBlock, PP!SendBlock, P!CloseIncoming, PP!CloseIncoming, P!Loading, PP!Loading,
       P!InRange, PP!InRange, P!EmptyResults, PP!EmptyResults
  <1>4. P!Mapper => PP!Mapper
    BY DEF P!Mapper, PP!Mapper, P!MapReceive, PP!MapReceive, P!MapPanics, PP!MapPanics,
       P!MapSend, PP!MapSend, P!MapClosed, PP!MapClosed, P!MapCancelled, PP!MapCancelled
  <1>5. P!Submitter => PP!Submitter
    BY DEF P!Submitter, PP!Submitter, P!SubmitReceive, PP!SubmitReceive, P!SubmitStops,
       PP!SubmitStops, P!SubmitCancelled, PP!SubmitCancelled, P!AddBlockReturns,
       PP!AddBlockReturns, P!AddBlockCrit, PP!AddBlockCrit, P!Decrement, PP!Decrement
  <1>6. P!MonitorPanics \/ P!Cancel => PP!MonitorPanics \/ PP!Cancel
    BY DEF P!MonitorPanics, PP!MonitorPanics, P!Cancel, PP!Cancel
  <1>7. P!Terminated => UNCHANGED P!vars
    BY DEF P!Terminated
  <1> QED BY <1>1, <1>2, <1>3, <1>4, <1>5, <1>6, <1>7 DEF P!Next, PP!Next

\* So are the recorder's initial states and steps, of StoredStatsProofs.
LEMMA SameStats ==
  /\ S!StoredStatsAssumption <=> SP!StoredStatsAssumption
  /\ S!InitStats <=> SP!InitStats
  /\ S!GrowStats <=> SP!GrowStats
  /\ \A block : S!FillStats(block) <=> SP!FillStats(block)
  /\ S!BeginWrite <=> SP!BeginWrite
  /\ S!Marshal <=> SP!Marshal
  /\ S!GiveUp <=> SP!GiveUp
  /\ S!TruncateFile <=> SP!TruncateFile
  /\ S!StoreResults <=> SP!StoreResults
  /\ S!AttemptFails <=> SP!AttemptFails
  /\ S!MarkWritten <=> SP!MarkWritten
  <1> USE DEF S!writeVars, SP!writeVars, S!processVars, SP!processVars, S!Unwritten,
      SP!Unwritten, S!Recording, SP!Recording, S!HalfRecorded, SP!HalfRecorded,
      S!Last, SP!Last
  <1>1. /\ S!StoredStatsAssumption <=> SP!StoredStatsAssumption
        /\ S!InitStats <=> SP!InitStats
    BY DEF S!StoredStatsAssumption, SP!StoredStatsAssumption, S!InitStats, SP!InitStats
  <1>2. /\ S!GrowStats <=> SP!GrowStats
        /\ \A block : S!FillStats(block) <=> SP!FillStats(block)
    BY DEF S!GrowStats, SP!GrowStats, S!FillStats, SP!FillStats
  <1>3. /\ S!BeginWrite <=> SP!BeginWrite
        /\ S!Marshal <=> SP!Marshal
        /\ S!GiveUp <=> SP!GiveUp
        /\ S!TruncateFile <=> SP!TruncateFile
    BY DEF S!BeginWrite, SP!BeginWrite, S!Marshal, SP!Marshal, S!GiveUp, SP!GiveUp,
       S!TruncateFile, SP!TruncateFile
  <1>4. /\ S!StoreResults <=> SP!StoreResults
        /\ S!AttemptFails <=> SP!AttemptFails
        /\ S!MarkWritten <=> SP!MarkWritten
    BY DEF S!StoreResults, SP!StoreResults, S!AttemptFails, SP!AttemptFails,
       S!MarkWritten, SP!MarkWritten
  <1> QED BY <1>1, <1>2, <1>3, <1>4

\* What counts as recorded, and what can be read, is the same in both.
LEMMA SameHistories ==
  /\ \A blocks : S!Recorded(blocks) = SP!Recorded(blocks)
  /\ S!Read = SP!Read
BY DEF S!Recorded, SP!Recorded, S!HalfRecorded, SP!HalfRecorded, S!Front, SP!Front,
   S!Last, SP!Last, S!Unwritten, SP!Unwritten, S!Read, SP!Read

-----------------------------------------------------------------------------
(* The steps of a run are steps of its parts.                               *)

\* The benchmark's assumption is that of both parts.
LEMMA Constants ==
  /\ PP!PipelineAssumption /\ SP!StoredStatsAssumption
  /\ CurrentNum \in Nat /\ BlockCount \in Nat
  /\ endBlockNum \in Nat /\ endBlockNum = CurrentNum + BlockCount
  <1>1. PP!PipelineAssumption /\ SP!StoredStatsAssumption
    BY BenchmarkAssumption, SamePipeline, SameStats
  <1>2. CurrentNum \in Nat /\ BlockCount \in Nat
    BY <1>1 DEF PP!PipelineAssumption
  <1> QED BY <1>1, <1>2 DEF endBlockNum

\* What the pipeline's invariant says of the block in addBlock.
LEMMA AddingIsNext ==
  ASSUME PP!IInv
  PROVE  /\ remainingBlockCount \in 0 .. BlockCount /\ Done \in 0 .. BlockCount
         /\ submitter \in {"recv", "add", "done"}
         /\ submitter = "add" => remainingBlockCount >= 1 /\ adding = CurrentNum + Done + 1
         /\ submitter = "done" /\ ~cancelled => Done = BlockCount
  <1>1. remainingBlockCount \in Nat /\ remainingBlockCount <= BlockCount
        /\ submitter \in {"recv", "add", "done"}
    BY DEF PP!IInv, PP!TypeOK, PP!SubmitInv
  <1>2. submitter = "add" =>
          remainingBlockCount >= 1 /\ adding = CurrentNum + BlockCount - remainingBlockCount + 1
    BY <1>1, Constants DEF PP!IInv, PP!SubmitInv, PP!endBlockNum
  <1>3. submitter = "done" /\ ~cancelled => remainingBlockCount = 0
    BY DEF PP!IInv, PP!SubmitInv
  <1> QED BY <1>1, <1>2, <1>3, Constants DEF Done

\* Validation fails only on a node that diverges.
LEMMA PipelineStep == IInv /\ [Next]_vars => [P!Next]_(P!vars)
  <1> SUFFICES ASSUME IInv, [Next]_vars PROVE [P!Next]_(P!vars)
    OBVIOUS
  <1> USE DEF P!Next, P!Loader, P!Mapper, P!Submitter
  <1>1. CASE UNCHANGED <<pipelineVars, processVars>>
    BY <1>1 DEF pipelineVars, processVars, P!vars, P!loaderVars, P!mapperVars,
       P!submitterVars, P!channelVars, P!processVars
  <1>2. CASE \/ \E i \in P!Slots : FetchBlock(i)
             \/ LoaderSends \/ Mapper \/ SubmitterEnds \/ Cancel
    BY <1>2 DEF FetchBlock, LoaderSends, Mapper, SubmitterEnds, Cancel
  <1>3. CASE BeginAddBlock \/ EndAddBlock \/ EngineCrit \/ TickFails
    BY <1>3 DEF BeginAddBlock, EndAddBlock, EngineCrit, TickFails
  <1>4. CASE ValidationCrit
    <2>1. ~(strategy = "replay" => payload.original /\ payload.number = adding)
      BY <1>4 DEF ValidationCrit, ValidateExecution
    <2>2. submitter = "add" /\ payload.number = previous.number + 1
          /\ previous.number = CurrentNum + Done /\ Done \in Nat
      BY <1>4, AddingIsNext, Constants
      DEF ValidationCrit, IInv, AddBlockInv, OwnTypeOK, Block
    <2>3. payload.number = adding
      BY <2>2, AddingIsNext, Constants DEF IInv
    <2>4. "divergence" \in Faults
      BY <1>4, <2>1, <2>3 DEF ValidationCrit, IInv, BuiltInv
    <2>5. P!AddBlockCrit
      BY <1>4, <2>2, <2>4 DEF ValidationCrit, P!AddBlockCrit, pipelineVars, P!loaderVars,
         P!mapperVars, P!submitterVars, P!channelVars
    <2> QED BY <2>5
  <1>5. CASE ForkchoiceUpdateWithAttrs \/ GetPayload \/ NewPayload
             \/ ForkchoiceUpdateNoAttrs \/ EnrichAndRecord
    BY <1>1, <1>5 DEF ForkchoiceUpdateWithAttrs, GetPayload, NewPayload,
       ForkchoiceUpdateNoAttrs, EnrichAndRecord, S!GrowStats, S!processVars, processVars
  <1>6. CASE TickSaves \/ SelectDone \/ SelectCancelled \/ WriteStep \/ WriteEnds
    BY <1>1, <1>6 DEF TickSaves, SelectDone, SelectCancelled, WriteStep, WriteEnds
  <1>7. CASE UNCHANGED vars
    BY <1>1, <1>7 DEF vars
  <1> QED BY <1>2, <1>3, <1>4, <1>5, <1>6, <1>7 DEF Next, AddBlock, Monitor, Terminated

\* So the pipeline's invariants carry over.
LEMMA PipelineKeepsInv ==
  IInv /\ [Next]_vars => PP!IInv' /\ PP!BatchInv' /\ PP!FetchedInv'
  <1> SUFFICES ASSUME IInv, [Next]_vars PROVE PP!IInv' /\ PP!BatchInv' /\ PP!FetchedInv'
    OBVIOUS
  <1>1. [PP!Next]_(PP!vars)
    BY PipelineStep, SamePipeline
  <1>2. PP!TypeOK
    BY DEF IInv, PP!IInv
  <1> QED BY <1>1, <1>2, Constants, PP!InvStep, PP!BatchStep, PP!FetchedStep DEF IInv

\* A block about to be recorded is the one after the last recorded.
LEMMA RecordsNext ==
  ASSUME IInv, phase = "record"
  PROVE  SP!Recording /\ Len(stats) = Done + 1 /\ payload.number = CurrentNum + Len(stats)
  <1>1. SP!HalfRecorded(stats) /\ SP!Recording
    BY DEF IInv, AddBlockInv, SP!Recording
  <1>2. stats \in Seq(Nat) /\ SP!IsHistory(stats)
    BY DEF IInv, SP!IInv, SP!TypeOK, SP!HistoryInv
  <1>3. SP!RecordedLen(stats) = Len(stats) - 1
    BY <1>1, <1>2, Constants, SP!RecordedOfHistory
  <1>4. Len(stats) = Done + 1
    BY <1>2, <1>3, AddingIsNext DEF IInv, AddBlockInv
  <1>5. payload.number = CurrentNum + Done + 1
    BY DEF IInv, AddBlockInv
  <1> QED BY <1>1, <1>4, <1>5, Constants, AddingIsNext DEF IInv

\* When addBlock ends, it has changed the statistics.
LEMMA EndRecords ==
  ASSUME IInv, EndAddBlock
  PROVE  SP!FillStats(CurrentNum + Len(stats)) /\ SP!Recording /\ stats' # stats
  <1>1. SP!FillStats(CurrentNum + Len(stats)) /\ SP!Recording
    BY SameStats, RecordsNext DEF EndAddBlock
  <1>2. stats \in Seq(Nat) /\ CurrentNum \in Nat
    BY Constants DEF IInv, SP!IInv, SP!TypeOK
  <1>3. Len(stats) > 0 /\ stats[Len(stats)] = 0
    BY <1>1, <1>2 DEF SP!Recording, SP!HalfRecorded, SP!Last, SP!Unwritten
  <1>4. stats'[Len(stats)] = CurrentNum + Len(stats)
    BY <1>1, <1>2, <1>3 DEF SP!FillStats
  <1> QED BY <1>1, <1>2, <1>3, <1>4

\* Every step records, writes, or leaves the recorder alone.
LEMMA StatsStep ==
  ASSUME IInv, [Next]_vars
  PROVE  \/ EnrichAndRecord /\ SP!GrowStats
         \/ EndAddBlock /\ SP!FillStats(CurrentNum + Len(stats))
         \/ SP!BeginWrite \/ SP!WriteStep
         \/ UNCHANGED SP!statsVars
  <1>1. CASE EnrichAndRecord
    BY <1>1, SameStats DEF EnrichAndRecord
  <1>2. CASE EndAddBlock
    BY <1>2, EndRecords
  <1>3. CASE TickSaves \/ SelectDone
    BY <1>3, SameStats DEF TickSaves, SelectDone
  <1>4. CASE WriteStep \/ WriteEnds
    BY <1>4, SameStats DEF WriteStep, WriteEnds, SP!WriteStep
  <1>5. CASE UNCHANGED statsVars
    BY <1>5 DEF statsVars, SP!statsVars, SP!writeVars
  <1>6. CASE \/ BeginAddBlock \/ ForkchoiceUpdateWithAttrs \/ GetPayload \/ NewPayload
             \/ ForkchoiceUpdateNoAttrs \/ EngineCrit \/ ValidationCrit
             \/ TickFails \/ SelectCancelled
    BY <1>5, <1>6 DEF BeginAddBlock, ForkchoiceUpdateWithAttrs, GetPayload, NewPayload,
       ForkchoiceUpdateNoAttrs, EngineCrit, ValidationCrit, TickFails, SelectCancelled
  <1>7. CASE LoaderSends \/ Mapper \/ SubmitterEnds \/ Cancel
             \/ \E i \in P!Slots : FetchBlock(i)
    BY <1>5, <1>7 DEF FetchBlock, LoaderSends, Mapper, SubmitterEnds, Cancel, others
  <1>8. CASE UNCHANGED vars
    BY <1>5, <1>8 DEF vars
  <1> QED BY <1>1, <1>2, <1>3, <1>4, <1>6, <1>7, <1>8 DEF Next, AddBlock, Monitor, Terminated

\* So the recorder's invariant carries over, and its count of recorded blocks
\* moves only when addBlock ends.
LEMMA StatsKeepInv ==
  ASSUME IInv, [Next]_vars
  PROVE  /\ SP!IInv'
         /\ ~EndAddBlock => SP!RecordedLen(stats)' = SP!RecordedLen(stats)
         /\ EndAddBlock => SP!RecordedLen(stats)' = SP!RecordedLen(stats) + 1
         /\ EndAddBlock \/ EnrichAndRecord => (SP!Recording' <=> ~SP!Recording)
         /\ ~EndAddBlock /\ ~EnrichAndRecord => stats' = stats /\ SP!Recording' = SP!Recording
  <1>0. SP!IInv /\ SP!StoredStatsAssumption
    BY Constants DEF IInv
  <1>1. CASE EnrichAndRecord /\ SP!GrowStats
    <2>1. ~SP!Recording
      BY <1>1 DEF SP!GrowStats
    <2>2. ~EndAddBlock
      BY <1>1 DEF EnrichAndRecord, EndAddBlock
    <2>3. SP!RecordedLen(stats) \in Int
      BY AddingIsNext, Constants DEF IInv, AddBlockInv
    <2> QED BY <1>0, <1>1, <2>1, <2>2, <2>3, SP!RecordKeepsInv
  <1>2. CASE EndAddBlock /\ SP!FillStats(CurrentNum + Len(stats))
    BY <1>0, <1>2, EndRecords, SP!RecordKeepsInv
  <1>3. CASE (SP!BeginWrite \/ SP!WriteStep \/ UNCHANGED SP!statsVars) /\ ~EnrichAndRecord
    <2>1. SP!IInv' /\ stats' = stats
      <3>1. CASE SP!BeginWrite \/ SP!WriteStep
        BY <1>0, <3>1, SP!WriteKeepsInv
      <3>2. CASE UNCHANGED SP!statsVars
        <4>1. cancelled' \in BOOLEAN /\ crashed' \in BOOLEAN
          BY PipelineKeepsInv DEF PP!IInv, PP!TypeOK
        <4> QED BY <1>0, <3>2, <4>1, SP!OthersKeepInv DEF SP!statsVars
      <3> QED BY <1>3, <3>1, <3>2
    <2>2. SP!RecordedLen(stats)' = SP!RecordedLen(stats) /\ SP!Recording' = SP!Recording
      BY <2>1 DEF SP!RecordedLen, SP!Recorded, SP!Recording, SP!HalfRecorded
    <2> QED BY <1>3, <2>1, <2>2, EndRecords
  <1>4. EnrichAndRecord => SP!GrowStats
    BY SameStats DEF EnrichAndRecord
  <1> QED BY <1>1, <1>2, <1>3, <1>4, StatsStep

-----------------------------------------------------------------------------
(* What the steps leave alone.                                              *)

OtherStep == \/ \E i \in P!Slots : FetchBlock(i)
             \/ LoaderSends \/ Mapper \/ SubmitterEnds \/ Cancel \/ UNCHANGED vars

\* A step is the monitor's, one of addBlock, or neither.
LEMMA NextCases == [Next]_vars => OtherStep \/ Monitor \/ AddBlock
BY DEF Next, OtherStep, Terminated

\* The loader, the mapper, a submitter outside addBlock and the context leave
\* alone what the invariant is about.
LEMMA OtherFrame ==
  ASSUME OtherStep
  PROVE  /\ UNCHANGED <<statsVars, replayVars, monitor, adding, remainingBlockCount>>
         /\ submitter' = "add" <=> submitter = "add"
         /\ submitter = "done" => submitter' = "done"
         /\ cancelled => cancelled'
         /\ crashed => crashed'
  <1> USE DEF P!loaderVars, P!mapperVars, P!submitterVars, P!channelVars, P!processVars,
      others
  <1>1. CASE \E i \in P!Slots : FetchBlock(i)
    BY <1>1 DEF FetchBlock, P!FetchBlock, P!FetchFails
  <1>2. CASE LoaderSends
    BY <1>2 DEF LoaderSends, P!SendBlock, P!CloseIncoming
  <1>3. CASE Mapper
    BY <1>3 DEF Mapper, P!Mapper, P!MapReceive, P!MapPanics, P!MapSend, P!MapClosed,
       P!MapCancelled
  <1>4. CASE SubmitterEnds \/ Cancel
    BY <1>4 DEF SubmitterEnds, P!SubmitStops, P!SubmitCancelled, Cancel, P!Cancel
  <1>5. CASE UNCHANGED vars
    BY <1>5 DEF vars, pipelineVars, processVars
  <1> QED BY <1>1, <1>2, <1>3, <1>4, <1>5 DEF OtherStep

\* The monitor touches only the recorder, or takes the process down.
LEMMA MonitorFrame ==
  ASSUME Monitor
  PROVE  UNCHANGED <<pipelineVars, cancelled, replayVars>> /\ (crashed => crashed')
  <1> USE DEF processVars
  <1>1. CASE TickFails
    BY <1>1 DEF TickFails, P!MonitorPanics, P!loaderVars, P!mapperVars, P!submitterVars,
       P!channelVars, pipelineVars
  <1>2. CASE TickSaves \/ SelectDone \/ SelectCancelled \/ WriteStep \/ WriteEnds
    BY <1>2 DEF TickSaves, SelectDone, SelectCancelled, WriteStep, WriteEnds
  <1> QED BY <1>1, <1>2 DEF Monitor

\* A call that ends the process changes at most the head.
LEMMA CritFrame ==
  ASSUME EngineCrit \/ ValidationCrit
  PROVE  /\ UNCHANGED <<pipelineVars, cancelled, statsVars, strategy, addBlockVars, monitor>>
         /\ crashed'
BY DEF EngineCrit, ValidationCrit, P!AddBlockCrit, P!loaderVars, P!mapperVars,
   P!submitterVars, P!channelVars, pipelineVars, replayVars

\* A context once done stays done.
LEMMA CancelStays == [Next]_vars => (cancelled => cancelled')
  <1>1. AddBlock => (cancelled => cancelled')
    BY CritFrame DEF AddBlock, BeginAddBlock, P!SubmitReceive, EndAddBlock,
       P!AddBlockReturns, ForkchoiceUpdateWithAttrs, GetPayload, NewPayload,
       ForkchoiceUpdateNoAttrs, EnrichAndRecord, S!GrowStats, S!processVars,
       P!processVars, processVars
  <1> QED BY <1>1, NextCases, OtherFrame, MonitorFrame

-----------------------------------------------------------------------------
(* The steps keep each part of the invariant.                               *)

\* The blocks that addBlock holds keep their type.
LEMMA OwnTypeStep == IInv /\ [Next]_vars => OwnTypeOK'
  <1> SUFFICES ASSUME IInv, [Next]_vars PROVE OwnTypeOK'
    OBVIOUS
  <1> USE DEF IInv, OwnTypeOK, replayVars, addBlockVars
  <1>1. CASE OtherStep
    BY <1>1, OtherFrame
  <1>2. CASE Monitor
    BY <1>2, MonitorFrame DEF Monitor, TickSaves, TickFails, SelectDone, SelectCancelled,
       WriteStep, WriteEnds
  <1>3. CASE BeginAddBlock \/ EnrichAndRecord \/ EndAddBlock
    BY <1>3 DEF BeginAddBlock, EnrichAndRecord, EndAddBlock
  <1>4. CASE ForkchoiceUpdateWithAttrs
    <2>1. payload' \in Block
      BY <1>4 DEF ForkchoiceUpdateWithAttrs, Built, Block
    <2> QED BY <1>4, <2>1 DEF ForkchoiceUpdateWithAttrs
  <1>5. CASE GetPayload \/ NewPayload \/ ForkchoiceUpdateNoAttrs
    BY <1>5 DEF GetPayload, NewPayload, ForkchoiceUpdateNoAttrs
  <1>6. CASE EngineCrit \/ ValidationCrit
    BY <1>6, CritFrame DEF EngineCrit, ValidationCrit
  <1> QED BY <1>1, <1>2, <1>3, <1>4, <1>5, <1>6, NextCases DEF AddBlock

\* Only a block that has passed ValidateExecution can come to be the head.
LEMMA FaithfulStep == IInv /\ [Next]_vars => FaithfulInv'
  <1> SUFFICES ASSUME IInv, [Next]_vars PROVE FaithfulInv'
    OBVIOUS
  <1> USE DEF IInv, FaithfulInv, replayVars, addBlockVars
  <1>1. CASE OtherStep \/ Monitor
    BY <1>1, OtherFrame, MonitorFrame
  <1>2. CASE BeginAddBlock \/ EnrichAndRecord \/ EndAddBlock
    BY <1>2 DEF BeginAddBlock, EnrichAndRecord, EndAddBlock
  <1>3. CASE ForkchoiceUpdateWithAttrs \/ NewPayload \/ ForkchoiceUpdateNoAttrs
    BY <1>3 DEF ForkchoiceUpdateWithAttrs, NewPayload, ForkchoiceUpdateNoAttrs
  <1>4. CASE GetPayload
    BY <1>4 DEF GetPayload, ValidateExecution
  <1>5. CASE EngineCrit \/ ValidationCrit
    BY <1>5 DEF EngineCrit, ValidationCrit
  <1> QED BY <1>1, <1>2, <1>3, <1>4, <1>5, NextCases DEF AddBlock

\* A block is added, counted and recorded in step.
LEMMA AddBlockStep == IInv /\ [Next]_vars => AddBlockInv'
  <1> SUFFICES ASSUME IInv, [Next]_vars PROVE AddBlockInv'
    OBVIOUS
  <1>1. CurrentNum \in Nat /\ BlockCount \in Nat /\ Done \in Int
        /\ previous.number \in Nat /\ payload.number \in Nat
    BY Constants, AddingIsNext DEF IInv, OwnTypeOK, Block
  <1> USE <1>1 DEF IInv, AddBlockInv, Done, replayVars, addBlockVars
  <1>2. CASE OtherStep
    <2>1. SP!RecordedLen(stats)' = SP!RecordedLen(stats) /\ SP!Recording' = SP!Recording
      BY <1>2, OtherFrame
      DEF statsVars, SP!RecordedLen, SP!Recorded, SP!Recording, SP!HalfRecorded
    <2> QED BY <1>2, <2>1, OtherFrame
  <1>3. CASE Monitor
    <2>1. phase' = phase /\ (EndAddBlock => phase = "record" /\ phase' = "idle")
          /\ (EnrichAndRecord => phase = "enrich" /\ phase' = "record")
      BY <1>3, MonitorFrame DEF EndAddBlock, EnrichAndRecord
    <2>2. SP!RecordedLen(stats)' = SP!RecordedLen(stats) /\ SP!Recording' = SP!Recording
      BY <2>1, StatsKeepInv
    <2> QED BY <1>3, <2>2, MonitorFrame DEF pipelineVars
  <1>4. CASE BeginAddBlock
    <2>1. SP!RecordedLen(stats)' = SP!RecordedLen(stats) /\ SP!Recording' = SP!Recording
      BY <1>4 DEF BeginAddBlock, statsVars, SP!RecordedLen, SP!Recorded, SP!Recording,
         SP!HalfRecorded
    <2> QED BY <1>4, <2>1 DEF BeginAddBlock, P!SubmitReceive
  <1>5. CASE ForkchoiceUpdateWithAttrs \/ GetPayload \/ NewPayload \/ ForkchoiceUpdateNoAttrs
             \/ EngineCrit \/ ValidationCrit
    <2>1. UNCHANGED <<pipelineVars, statsVars>>
      BY <1>5, CritFrame
      DEF ForkchoiceUpdateWithAttrs, GetPayload, NewPayload, ForkchoiceUpdateNoAttrs
    <2>2. SP!RecordedLen(stats)' = SP!RecordedLen(stats) /\ SP!Recording' = SP!Recording
      BY <2>1 DEF statsVars, SP!RecordedLen, SP!Recorded, SP!Recording, SP!HalfRecorded
    <2>3. CASE ForkchoiceUpdateWithAttrs
      <3>1. payload'.number = previous.number + 1
        BY <2>3 DEF ForkchoiceUpdateWithAttrs, Built
      <3> QED BY <2>1, <2>2, <2>3, <3>1 DEF ForkchoiceUpdateWithAttrs, pipelineVars
    <2>4. CASE GetPayload \/ NewPayload \/ ForkchoiceUpdateNoAttrs
      BY <2>1, <2>2, <2>4
      DEF GetPayload, NewPayload, ForkchoiceUpdateNoAttrs, pipelineVars
    <2>5. CASE EngineCrit \/ ValidationCrit
      BY <2>1, <2>2, <2>5, CritFrame DEF pipelineVars
    <2> QED BY <1>5, <2>3, <2>4, <2>5
  <1>6. CASE EnrichAndRecord
    <2>1. ~EndAddBlock
      BY <1>6 DEF EnrichAndRecord, EndAddBlock
    <2> QED BY <1>6, <2>1, StatsKeepInv DEF EnrichAndRecord, pipelineVars
  <1>7. CASE EndAddBlock
    <2>1. submitter = "add" /\ submitter' = "recv" /\ phase = "record" /\ phase' = "idle"
          /\ UNCHANGED <<previous, payload>>
      BY <1>7 DEF EndAddBlock, P!AddBlockReturns
    <2>2. remainingBlockCount' = remainingBlockCount - 1
      BY <1>7, <2>1, AddingIsNext DEF EndAddBlock, P!AddBlockReturns, P!Decrement
    <2>3. remainingBlockCount \in Nat
      BY AddingIsNext
    <2> QED BY <1>7, <2>1, <2>2, <2>3, StatsKeepInv
  <1> QED BY <1>2, <1>3, <1>4, <1>5, <1>6, <1>7, NextCases DEF AddBlock

\* The head moves with what addBlock builds on.
LEMMA HeadStep == IInv /\ [Next]_vars => HeadInv' /\ BuiltInv'
  <1> SUFFICES ASSUME IInv, [Next]_vars PROVE HeadInv' /\ BuiltInv'
    OBVIOUS
  <1> USE DEF IInv, HeadInv, BuiltInv, replayVars, addBlockVars
  <1>1. CASE OtherStep \/ Monitor
    BY <1>1, OtherFrame, MonitorFrame
  <1>2. CASE BeginAddBlock \/ EnrichAndRecord \/ EndAddBlock
    BY <1>2 DEF BeginAddBlock, EnrichAndRecord, S!GrowStats, EndAddBlock, P!AddBlockReturns,
       P!SubmitReceive
  <1>3. CASE ForkchoiceUpdateWithAttrs
    <2>1. head' = previous /\ previous' = previous /\ phase' = "getPayload"
          /\ strategy' = strategy
      BY <1>3 DEF ForkchoiceUpdateWithAttrs
    <2>2. ASSUME strategy = "replay", "divergence" \notin Faults
          PROVE  payload'.original
      <3>1. submitter = "add" /\ phase = "fcuAttrs"
        BY <1>3 DEF ForkchoiceUpdateWithAttrs, AddBlockInv
      <3>2. previous.number + 1 = adding
        BY <3>1, AddingIsNext, Constants DEF AddBlockInv
      <3>3. previous.original
        BY <2>2 DEF FaithfulInv
      <3> QED BY <1>3, <2>2, <3>2, <3>3 DEF ForkchoiceUpdateWithAttrs, Built
    <2> QED BY <2>1, <2>2
  <1>4. CASE GetPayload \/ NewPayload \/ ForkchoiceUpdateNoAttrs
    BY <1>4 DEF GetPayload, NewPayload, ForkchoiceUpdateNoAttrs
  <1>5. CASE EngineCrit \/ ValidationCrit
    BY <1>5, CritFrame DEF EngineCrit, ValidationCrit, P!AddBlockCrit
  <1> QED BY <1>1, <1>2, <1>3, <1>4, <1>5, NextCases DEF AddBlock

\* What is built under the stress strategy is not the source's block.
LEMMA StressStep == IInv /\ [Next]_vars => StressInv'
  <1> SUFFICES ASSUME IInv, [Next]_vars PROVE StressInv'
    OBVIOUS
  <1> USE DEF IInv, StressInv, replayVars, addBlockVars
  <1>1. CASE OtherStep \/ Monitor
    BY <1>1, OtherFrame, MonitorFrame
  <1>2. CASE BeginAddBlock \/ EnrichAndRecord \/ EndAddBlock
    BY <1>2 DEF BeginAddBlock, EnrichAndRecord, EndAddBlock
  <1>3. CASE ForkchoiceUpdateWithAttrs
    BY <1>3 DEF ForkchoiceUpdateWithAttrs, Built
  <1>4. CASE GetPayload \/ NewPayload \/ ForkchoiceUpdateNoAttrs
    BY <1>4 DEF GetPayload, NewPayload, ForkchoiceUpdateNoAttrs
  <1>5. CASE EngineCrit \/ ValidationCrit
    BY <1>5, CritFrame
  <1> QED BY <1>1, <1>2, <1>3, <1>4, <1>5, NextCases DEF AddBlock

\* The monitor writes only while it saves, and finally after the submitter.
LEMMA MonitorStep == IInv /\ [Next]_vars => MonitorInv'
  <1> SUFFICES ASSUME IInv, [Next]_vars PROVE MonitorInv'
    OBVIOUS
  <1> USE DEF IInv, MonitorInv, statsVars
  <1>1. CASE OtherStep
    BY <1>1, OtherFrame
  <1>2. CASE AddBlock
    <2>1. UNCHANGED <<writing, monitor>> /\ (cancelled' <=> cancelled)
          /\ (submitter = "done" => submitter' = "done")
      BY <1>2, CritFrame DEF AddBlock, BeginAddBlock, P!SubmitReceive, EndAddBlock,
         P!AddBlockReturns, ForkchoiceUpdateWithAttrs, GetPayload, NewPayload,
         ForkchoiceUpdateNoAttrs, EnrichAndRecord, S!GrowStats, S!FillStats, S!writeVars,
         S!processVars, P!processVars, processVars, pipelineVars
    <2> QED BY <2>1
  <1>3. CASE Monitor
    <2>1. UNCHANGED <<submitter, cancelled>>
      BY <1>3, MonitorFrame DEF pipelineVars
    <2>2. CASE TickSaves \/ SelectDone
      BY <2>1, <2>2 DEF TickSaves, SelectDone, S!BeginWrite
    <2>3. CASE TickFails \/ SelectCancelled
      BY <2>1, <2>3 DEF TickFails, SelectCancelled
    <2>4. CASE WriteStep
      <3>1. writing # "idle" /\ writing' # "idle" /\ monitor' = monitor
        BY <2>4 DEF WriteStep, S!Marshal, S!GiveUp, S!TruncateFile, S!StoreResults,
           S!AttemptFails
      <3> QED BY <2>1, <3>1
    <2>5. CASE WriteEnds
      BY <2>1, <2>5 DEF WriteEnds, S!MarkWritten
    <2> QED BY <1>3, <2>2, <2>3, <2>4, <2>5 DEF Monitor
  <1> QED BY <1>1, <1>2, <1>3, NextCases

\* Once the submitter is done nothing is recorded any more, and the last write
\* has everything.
LEMMA FinalStep == IInv /\ [Next]_vars => FinalInv'
  <1> SUFFICES ASSUME IInv, [Next]_vars, ~cancelled', "storage" \notin Faults,
                      monitor' \in {"final", "returned"}
               PROVE  FinalInv'
    BY DEF FinalInv
  <1>1. ~cancelled /\ (monitor \in {"final", "returned"} => submitter = "done")
    <2>1. cancelled => cancelled'
      BY CancelStays
    <2> QED BY <2>1 DEF IInv, MonitorInv
  <1> USE <1>1 DEF IInv, FinalInv, statsVars
  <1>2. CASE OtherStep
    BY <1>2, OtherFrame
  <1>3. CASE AddBlock
    <2>1. monitor' = monitor
      BY <1>3, CritFrame DEF AddBlock, BeginAddBlock, EndAddBlock, ForkchoiceUpdateWithAttrs,
         GetPayload, NewPayload, ForkchoiceUpdateNoAttrs, EnrichAndRecord
    <2>2. phase = "idle" /\ submitter = "done"
      BY <2>1 DEF AddBlockInv
    <2> QED BY <1>3, <2>2 DEF AddBlock, BeginAddBlock, P!SubmitReceive, EndAddBlock,
         ForkchoiceUpdateWithAttrs, GetPayload, NewPayload, ForkchoiceUpdateNoAttrs,
         EnrichAndRecord, EngineCrit, ValidationCrit
  <1>4. CASE Monitor
    <2>1. CASE TickSaves \/ SelectDone
      BY <2>1 DEF TickSaves, SelectDone, S!BeginWrite
    <2>2. CASE TickFails \/ SelectCancelled
      BY <2>2 DEF TickFails, SelectCancelled
    <2>3. CASE WriteStep
      BY <2>3 DEF WriteStep, S!Marshal, S!GiveUp, S!TruncateFile, S!StoreResults,
         S!AttemptFails, MonitorInv
    <2>4. CASE WriteEnds
      BY <2>4 DEF WriteEnds, S!MarkWritten, MonitorInv
    <2> QED BY <1>4, <2>1, <2>2, <2>3, <2>4 DEF Monitor
  <1> QED BY <1>2, <1>3, <1>4, NextCases

-----------------------------------------------------------------------------
(* The invariant.                                                           *)

\* The invariant holds where a run begins.
LEMMA InvInit == Init => IInv
  <1> SUFFICES ASSUME Init PROVE IInv
    OBVIOUS
  <1> USE DEF Init
  <1>1. PP!IInv /\ PP!BatchInv /\ PP!FetchedInv
    BY Constants, SamePipeline, PP!InvInit, PP!BatchInit, PP!FetchedInit
  <1>2. SP!IInv
    BY <1>1, Constants, SameStats, SP!InvInit DEF PP!IInv, PP!TypeOK
  <1>3. /\ stats = <<>> /\ writing = "idle" /\ submitter = "recv"
        /\ remainingBlockCount = BlockCount
    BY DEF P!Init, S!InitStats
  <1>4. startBlock \in Block
    BY Constants DEF startBlock, Block
  <1>5. /\ OwnTypeOK /\ FaithfulInv /\ HeadInv /\ BuiltInv /\ StressInv
        /\ MonitorInv /\ FinalInv
    BY <1>3, <1>4 DEF OwnTypeOK, FaithfulInv, HeadInv, BuiltInv, StressInv, MonitorInv,
       FinalInv, startBlock
  <1>6. AddBlockInv
    BY <1>3, Constants DEF AddBlockInv, startBlock, Done, SP!RecordedLen, SP!Recorded,
       SP!Recording, SP!HalfRecorded
  <1> QED BY <1>1, <1>2, <1>5, <1>6 DEF IInv

\* Every step keeps it: the parts' own invariants, and each conjunct of its own.
LEMMA InvStep == IInv /\ [Next]_vars => IInv'
  <1> SUFFICES ASSUME IInv, [Next]_vars PROVE IInv'
    OBVIOUS
  <1>1. PP!IInv' /\ PP!BatchInv' /\ PP!FetchedInv' /\ SP!IInv'
    BY PipelineKeepsInv, StatsKeepInv
  <1>2. OwnTypeOK' /\ FaithfulInv' /\ AddBlockInv' /\ HeadInv' /\ BuiltInv' /\ StressInv'
    BY OwnTypeStep, FaithfulStep, AddBlockStep, HeadStep, StressStep
  <1>3. MonitorInv' /\ FinalInv'
    BY MonitorStep, FinalStep
  <1> QED BY <1>1, <1>2, <1>3 DEF IInv

\* It holds throughout a run.
LEMMA Invariance == Spec => []IInv
BY InvInit, InvStep, PTL DEF Spec, Safety

-----------------------------------------------------------------------------
(* ChainReplay's three numbers.                                             *)

\* The numbers, and what the invariant says of them.
LEMMA Numbers ==
  ASSUME IInv
  PROVE  /\ Len(S!Recorded(stats)) = Done /\ Done \in 0 .. BlockCount
         /\ Len(S!Recorded(stored.blocks)) \in 0 .. Done
         /\ head.number \in Nat /\ CurrentNum \in Nat /\ BlockCount \in Nat
  <1>1. Len(S!Recorded(stats)) = Done /\ Done \in 0 .. BlockCount
    BY AddingIsNext, SameHistories DEF IInv, AddBlockInv, SP!RecordedLen
  <1>2. /\ stored.blocks \in Seq(Nat) /\ SP!IsHistory(stored.blocks)
        /\ SP!RecordedLen(stored.blocks) <= SP!RecordedLen(stats)
    BY DEF IInv, SP!IInv, SP!TypeOK, SP!HistoryInv, SP!GrowsInv
  <1>3. SP!RecordedLen(stored.blocks) \in Nat
    BY <1>2, Constants, SP!RecordedOfHistory DEF SP!RecordedLen
  <1>4. Len(S!Recorded(stored.blocks)) \in 0 .. Done
    BY <1>1, <1>2, <1>3, SameHistories, Constants DEF SP!RecordedLen
  <1> QED BY <1>1, <1>4, Constants DEF IInv, OwnTypeOK, Block

\* The same after a step.
LEMMA StoredBound ==
  (IInv => Len(S!Recorded(stored.blocks)) \in 0 .. Len(S!Recorded(stats)))'
  <1>1. IInv => Len(S!Recorded(stored.blocks)) \in 0 .. Len(S!Recorded(stats))
    BY Numbers
  <1> QED BY <1>1, PTL

\* Outside the monitor the publications stay, and the recorded blocks with them
\* unless addBlock ends.
LEMMA StatsFrame ==
  ASSUME IInv, [Next]_vars, ~Monitor
  PROVE  /\ UNCHANGED Published
         /\ ~EndAddBlock => UNCHANGED Len(S!Recorded(stats))
         /\ EndAddBlock => Len(S!Recorded(stats))' = Len(S!Recorded(stats)) + 1
  <1>1. UNCHANGED <<storageType, stored>>
    <2>1. CASE OtherStep
      BY <2>1, OtherFrame DEF statsVars
    <2>2. CASE AddBlock
      BY <2>2, CritFrame DEF AddBlock, BeginAddBlock, EndAddBlock, ForkchoiceUpdateWithAttrs,
         GetPayload, NewPayload, ForkchoiceUpdateNoAttrs, EnrichAndRecord, S!GrowStats,
         S!FillStats, statsVars
    <2> QED BY <2>1, <2>2, NextCases
  <1>2. UNCHANGED Published
    BY <1>1 DEF Published, S!Recorded, S!HalfRecorded
  <1>3. Len(S!Recorded(stats)) = SP!RecordedLen(stats)
        /\ Len(S!Recorded(stats))' = SP!RecordedLen(stats)'
    BY DEF SP!RecordedLen, S!Recorded, SP!Recorded, S!HalfRecorded, SP!HalfRecorded,
       S!Front, SP!Front, S!Last, SP!Last, S!Unwritten, SP!Unwritten
  <1> QED BY <1>2, <1>3, StatsKeepInv

\* The monitor publishes only what has been recorded, and on S3 takes nothing
\* back.
LEMMA MonitorPublishes ==
  ASSUME IInv, IInv', [Next]_vars, Monitor
  PROVE  /\ UNCHANGED <<head.number, Len(S!Recorded(stats))>>
         /\ Published' \in Published .. (CurrentNum + Len(S!Recorded(stats)))
  <1>1. head' = head
    BY MonitorFrame DEF replayVars
  <1>2. stats' = stats /\ storageType' = storageType
    BY DEF Monitor, TickSaves, TickFails, SelectDone, SelectCancelled, WriteStep, WriteEnds,
       S!BeginWrite, S!Marshal, S!GiveUp, S!TruncateFile, S!StoreResults, S!AttemptFails,
       S!MarkWritten, statsVars
  <1>3. UNCHANGED Len(S!Recorded(stats))
    BY <1>2 DEF S!Recorded, S!HalfRecorded
  <1>4. CASE storageType = "s3"
    <2>1. stored' = stored \/ (writing = "put"
                               /\ stored' = [whole |-> TRUE, blocks |-> marshalled])
      <3>1. CASE SP!BeginWrite \/ SP!WriteStep
        BY <3>1, <1>4, Constants, SP!WriteKeepsInv DEF IInv
      <3>2. CASE UNCHANGED SP!statsVars
        BY <3>2 DEF SP!statsVars
      <3>3. CASE EnrichAndRecord \/ EndAddBlock
        BY <3>3, MonitorFrame DEF EnrichAndRecord, EndAddBlock, replayVars, addBlockVars
      <3> QED BY <3>1, <3>2, <3>3, StatsStep
    <2>2. Len(S!Recorded(stored.blocks)) <= Len(S!Recorded(stored'.blocks))
      <3>1. writing = "put" =>
              Len(S!Recorded(stored.blocks)) <= Len(S!Recorded(marshalled))
        BY <1>4, SameHistories DEF IInv, SP!IInv, SP!GrowsInv, SP!RecordedLen
      <3> QED BY <2>1, <3>1, Numbers
    <2>3. Len(S!Recorded(stored.blocks))' \in 0 .. Len(S!Recorded(stats))'
      BY StoredBound
    <2>4. Len(S!Recorded(stored.blocks))' = Len(S!Recorded(stored'.blocks))
      BY DEF S!Recorded, S!HalfRecorded
    <2> QED BY <1>1, <1>2, <1>3, <1>4, <2>2, <2>3, <2>4, Numbers DEF Published
  <1>5. CASE storageType # "s3"
    BY <1>1, <1>2, <1>3, <1>5, Numbers DEF Published
  <1> QED BY <1>4, <1>5

\* A call that moves the head moves it to the block after the last recorded one.
LEMMA HeadMoves ==
  ASSUME IInv, [Next]_vars, head'.number # head.number
  PROVE  /\ head'.number = head.number + 1 /\ head.number < CurrentNum + BlockCount
         /\ CurrentNum + Len(S!Recorded(stats)) = head.number
         /\ UNCHANGED <<statsVars, strategy>> /\ ~Monitor
         /\ ForkchoiceUpdateNoAttrs \/ EngineCrit
         /\ ~crashed /\ phase = "fcuNoAttrs" /\ submitter = "add"
         /\ head = previous /\ head' = payload
  <1>1. ~OtherStep /\ ~Monitor
    BY OtherFrame, MonitorFrame DEF replayVars
  <1>2. ~BeginAddBlock /\ ~GetPayload /\ ~NewPayload /\ ~EnrichAndRecord /\ ~EndAddBlock
        /\ ~ValidationCrit
    BY DEF BeginAddBlock, GetPayload, NewPayload, EnrichAndRecord, EndAddBlock,
       ValidationCrit, replayVars
  <1>3. ForkchoiceUpdateWithAttrs \/ ForkchoiceUpdateNoAttrs \/ EngineCrit
    BY <1>1, <1>2, NextCases DEF AddBlock
  <1>4. ~crashed /\ head = previous
    BY <1>3 DEF ForkchoiceUpdateWithAttrs, ForkchoiceUpdateNoAttrs, EngineCrit,
       P!AddBlockCrit, IInv, HeadInv
  <1>5. /\ phase = "fcuNoAttrs" /\ head' = payload /\ UNCHANGED <<statsVars, strategy>>
        /\ ForkchoiceUpdateNoAttrs \/ EngineCrit
    BY <1>3, <1>4 DEF ForkchoiceUpdateWithAttrs, ForkchoiceUpdateNoAttrs, EngineCrit
  <1>6. submitter = "add"
    BY <1>5 DEF IInv, AddBlockInv
  <1>7. payload.number = previous.number + 1 /\ previous.number = CurrentNum + Done
    BY <1>5, Constants, AddingIsNext DEF IInv, AddBlockInv
  <1>8. Done < BlockCount
    BY <1>6, AddingIsNext, Constants DEF IInv, Done
  <1> QED BY <1>1, <1>4, <1>5, <1>6, <1>7, <1>8, Numbers

\* A step is one of ChainReplay: a block added, recorded or published, or none.
LEMMA ChainReplayStep == IInv /\ IInv' /\ [Next]_vars => [Abstract!Next]_(Abstract!vars)
  <1> SUFFICES ASSUME IInv, IInv', [Next]_vars PROVE [Abstract!Next]_(Abstract!vars)
    OBVIOUS
  <1> USE DEF Abstract!Next, Abstract!vars
  <1>1. CASE Monitor
    <2>1. CASE Published' = Published
      BY <1>1, <2>1, MonitorPublishes
    <2>2. CASE Published' # Published
      <3>1. Published \in Int /\ CurrentNum + Len(S!Recorded(stats)) \in Int
        BY Numbers DEF Published
      <3> QED BY <1>1, <2>2, <3>1, MonitorPublishes DEF Abstract!Publish
    <2> QED BY <2>1, <2>2
  <1>2. CASE EndAddBlock
    <2>1. phase = "record" /\ head' = head
      BY <1>2 DEF EndAddBlock
    <2>2. ~Monitor
      BY <1>2, <2>1, MonitorFrame DEF EndAddBlock, replayVars, addBlockVars
    <2>3. head.number = CurrentNum + Done + 1
      BY <2>1, Numbers DEF IInv, AddBlockInv, HeadInv
    <2>4. /\ UNCHANGED Published
          /\ Len(S!Recorded(stats))' = Len(S!Recorded(stats)) + 1
      BY <1>2, <2>2, StatsFrame
    <2>5. CurrentNum + Len(S!Recorded(stats)) < head.number
      BY <2>3, Numbers
    <2>6. CurrentNum + Len(S!Recorded(stats))' = CurrentNum + Len(S!Recorded(stats)) + 1
      BY <2>4, Numbers
    <2> QED BY <2>1, <2>4, <2>5, <2>6 DEF Abstract!Record
  <1>3. CASE head'.number # head.number
    <2>1. ~Monitor /\ ~EndAddBlock
      BY <1>3, HeadMoves DEF EndAddBlock
    <2> QED BY <1>3, <2>1, HeadMoves, StatsFrame DEF Abstract!Extend
  <1>4. CASE ~Monitor /\ ~EndAddBlock /\ head'.number = head.number
    BY <1>4, StatsFrame
  <1> QED BY <1>1, <1>2, <1>3, <1>4

-----------------------------------------------------------------------------
(* The run that Service takes it for.                                       *)

\* What takes a process down in a run is what does in its pipeline.
LEMMA CrashCause ==
  ASSUME IInv, [Next]_vars, crashed' # crashed
  PROVE  \/ cancelled
         \/ Faults \cap {"source", "strategy", "engine", "divergence"} # {}
         \/ PP!LastFetched > SourceHead
  <1>1. [PP!Next]_(PP!vars)
    BY PipelineStep, SamePipeline
  <1> QED BY <1>1, Constants, PP!CrashHasCause DEF IInv

\* Once the head is the last block, only the strategy still can, over a block
\* loaded past the end.
LEMMA LateCrash ==
  ASSUME IInv, [Next]_vars, Returned, ~crashed, crashed', head.number >= endBlockNum
  PROVE  "strategy" \in Faults
  <1>1. head = previous /\ head.number \in Nat /\ Done \in 0 .. BlockCount
    BY Numbers DEF IInv, HeadInv
  <1>2. ~Monitor
    BY MonitorFrame DEF Monitor, TickFails, TickSaves, SelectDone, SelectCancelled,
       WriteStep, WriteEnds, S!BeginWrite, S!MarkWritten, S!Marshal, S!GiveUp,
       S!TruncateFile, S!StoreResults, S!AttemptFails, processVars, Returned
  <1>3. ~AddBlock
    <2>1. SUFFICES ASSUME AddBlock PROVE FALSE
      OBVIOUS
    <2>2. EngineCrit \/ ValidationCrit
      BY <2>1 DEF AddBlock, BeginAddBlock, P!SubmitReceive, P!processVars, EndAddBlock,
         P!AddBlockReturns, ForkchoiceUpdateWithAttrs, GetPayload, NewPayload,
         ForkchoiceUpdateNoAttrs, EnrichAndRecord, S!GrowStats, processVars
    <2>3. phase \in {"fcuAttrs", "getPayload", "newPayload", "fcuNoAttrs"}
      BY <2>2 DEF EngineCrit, ValidationCrit
    <2>4. submitter = "add" /\ head.number = CurrentNum + Done
      BY <1>1, <2>3, Constants DEF IInv, AddBlockInv
    <2>5. Done < BlockCount
      BY <2>4, AddingIsNext, Constants DEF IInv, Done
    <2> QED BY <1>1, <2>4, <2>5, Constants
  <1>4. ~(\E i \in P!Slots : FetchBlock(i))
    <2>1. SUFFICES ASSUME NEW i \in P!Slots, FetchBlock(i) PROVE FALSE
      OBVIOUS
    <2>2. P!InRange /\ results[i] = P!Nil
      BY <2>1 DEF FetchBlock, P!FetchBlock, P!FetchFails, P!Loading
    <2>3. /\ remainingBlockCount >= 1
          /\ submitter = "add" => remainingBlockCount >= 2
      BY <2>2, Constants, PP!FetchingIsEarly
      DEF IInv, P!InRange, PP!InRange, P!endBlockNum, PP!endBlockNum, P!Slots, PP!Slots,
          P!Nil, PP!Nil
    <2>4. head.number <= CurrentNum + Done + 1
          /\ (submitter # "add" => head.number = CurrentNum + Done)
      BY <1>1, Constants DEF IInv, AddBlockInv
    <2>5. remainingBlockCount \in Nat
      BY AddingIsNext DEF IInv
    <2> QED BY <1>1, <2>3, <2>4, <2>5, Constants DEF Done
  <1>5. Mapper /\ P!MapPanics
    BY <1>2, <1>3, <1>4, NextCases DEF OtherStep, LoaderSends, P!SendBlock, P!CloseIncoming,
       P!processVars, Mapper, P!Mapper, P!MapReceive, P!MapSend, P!MapClosed,
       P!MapCancelled, SubmitterEnds, P!SubmitStops, P!SubmitCancelled, Cancel, P!Cancel,
       vars, processVars
  <1> QED BY <1>5 DEF P!MapPanics

\* The block that becomes the head is one that whole batches bring.
LEMMA HeadIsFetchable ==
  ASSUME IInv, [Next]_vars, head'.number # head.number
  PROVE  head.number < PP!FetchableTo
  <1>1. submitter = "add" /\ head.number = CurrentNum + Done
    BY HeadMoves, Numbers, AddingIsNext DEF IInv, AddBlockInv
  <1>2. adding = head.number + 1 /\ adding <= PP!FetchableTo
    BY <1>1, AddingIsNext, Constants, PP!AddedIsFetchable DEF IInv
  <1>3. PP!FetchableTo \in Int /\ head.number \in Nat
    BY Numbers, Constants DEF PP!FetchableTo, PP!PipelineAssumption
  <1> QED BY <1>2, <1>3

\* A process goes down once, and nothing else changes with it but the head.
LEMMA CrashFrame ==
  ASSUME [Next]_vars, crashed' # crashed
  PROVE  ~crashed /\ crashed' /\ UNCHANGED <<cancelled, monitor, strategy>>
  <1> USE DEF P!processVars, processVars, others, replayVars
  <1>1. CASE \E i \in P!Slots : FetchBlock(i)
    BY <1>1 DEF FetchBlock, P!FetchBlock, P!FetchFails
  <1>2. CASE LoaderSends \/ SubmitterEnds \/ Cancel \/ UNCHANGED vars
    BY <1>2 DEF LoaderSends, P!SendBlock, P!CloseIncoming, SubmitterEnds, P!SubmitStops,
       P!SubmitCancelled, Cancel, P!Cancel, vars
  <1>3. CASE Mapper
    BY <1>3 DEF Mapper, P!Mapper, P!MapReceive, P!MapPanics, P!MapSend, P!MapClosed,
       P!MapCancelled
  <1>4. CASE Monitor
    BY <1>4 DEF Monitor, TickSaves, TickFails, P!MonitorPanics, SelectDone,
       SelectCancelled, WriteStep, WriteEnds
  <1>5. CASE BeginAddBlock \/ EnrichAndRecord \/ EndAddBlock
    BY <1>5 DEF BeginAddBlock, P!SubmitReceive, EnrichAndRecord, EndAddBlock,
       P!AddBlockReturns
  <1>6. CASE ForkchoiceUpdateWithAttrs \/ GetPayload \/ NewPayload \/ ForkchoiceUpdateNoAttrs
    BY <1>6 DEF ForkchoiceUpdateWithAttrs, GetPayload, NewPayload, ForkchoiceUpdateNoAttrs
  <1>7. CASE EngineCrit \/ ValidationCrit
    BY <1>7, CritFrame DEF EngineCrit, P!AddBlockCrit, ValidationCrit
  <1> QED BY <1>1, <1>2, <1>3, <1>4, <1>5, <1>6, <1>7, NextCases DEF OtherStep, AddBlock

\* The same of a cancellation.
LEMMA CancelFrame ==
  ASSUME [Next]_vars, cancelled' # cancelled
  PROVE  ~crashed /\ ~cancelled /\ cancelled' /\ UNCHANGED <<head, crashed, monitor, strategy>>
  <1> USE DEF P!processVars, processVars, others, replayVars
  <1>1. ~(\E i \in P!Slots : FetchBlock(i))
    BY DEF FetchBlock, P!FetchBlock, P!FetchFails
  <1>2. ~LoaderSends /\ ~SubmitterEnds /\ ~UNCHANGED vars
    BY DEF LoaderSends, P!SendBlock, P!CloseIncoming, SubmitterEnds, P!SubmitStops,
       P!SubmitCancelled, vars
  <1>3. ~Mapper /\ ~Monitor
    BY MonitorFrame DEF Mapper, P!Mapper, P!MapReceive, P!MapPanics, P!MapSend, P!MapClosed,
       P!MapCancelled
  <1>4. ~AddBlock
    BY CritFrame DEF AddBlock, BeginAddBlock, P!SubmitReceive, EndAddBlock,
       P!AddBlockReturns, ForkchoiceUpdateWithAttrs, GetPayload, NewPayload,
       ForkchoiceUpdateNoAttrs, EnrichAndRecord, S!GrowStats, S!processVars
  <1> QED BY <1>1, <1>2, <1>3, <1>4, NextCases DEF OtherStep, Cancel, P!Cancel

\* And of a return, which is with all blocks added or on a done context.
LEMMA ReturnFrame ==
  ASSUME IInv, [Next]_vars, Returned' # Returned
  PROVE  /\ ~crashed /\ ~Returned /\ Returned'
         /\ UNCHANGED <<head, crashed, cancelled, strategy>>
         /\ cancelled \/ head.number = endBlockNum
  <1>1. SelectCancelled \/ WriteEnds
    <2>1. ~OtherStep
      BY OtherFrame DEF Returned
    <2>2. ~AddBlock
      BY CritFrame DEF Returned, AddBlock, BeginAddBlock, EndAddBlock,
         ForkchoiceUpdateWithAttrs, GetPayload, NewPayload, ForkchoiceUpdateNoAttrs,
         EnrichAndRecord
    <2>3. ~TickSaves /\ ~TickFails /\ ~SelectDone /\ ~WriteStep
      BY DEF Returned, TickSaves, TickFails, SelectDone, WriteStep
    <2> QED BY <2>1, <2>2, <2>3, NextCases DEF Monitor
  <1>2. /\ ~crashed /\ UNCHANGED <<head, crashed, cancelled, strategy>>
        /\ monitor # "returned" /\ monitor' = "returned"
        /\ cancelled \/ monitor = "final"
    <2>1. CASE SelectCancelled
      BY <2>1 DEF SelectCancelled, processVars, replayVars
    <2>2. CASE WriteEnds
      <3>1. writing = "mark" /\ ~crashed /\ UNCHANGED <<head, crashed, cancelled, strategy>>
            /\ monitor' = IF monitor = "final" THEN "returned" ELSE "select"
        BY <2>2 DEF WriteEnds, S!MarkWritten, processVars, replayVars
      <3>2. monitor # "returned"
        BY <3>1 DEF IInv, MonitorInv
      <3> QED BY <3>1, <3>2 DEF Returned
    <2> QED BY <1>1, <2>1, <2>2
  <1>3. monitor = "final" /\ ~cancelled => head.number = endBlockNum
    BY Numbers, AddingIsNext, Constants DEF IInv, MonitorInv, AddBlockInv, HeadInv
  <1> QED BY <1>2, <1>3 DEF Returned

\* A block more is one that Service's run may add.
LEMMA MoveExtends ==
  ASSUME IInv, [Next]_vars, head' # head
  PROVE  Caller!Extend /\ head'.number = head.number + 1 /\ ~crashed
         /\ head.number < endBlockNum /\ UNCHANGED strategy
  <1>1. head'.number # head.number
    <2>1. CASE OtherStep \/ Monitor
      BY <2>1, OtherFrame, MonitorFrame DEF replayVars
    <2>2. CASE BeginAddBlock \/ GetPayload \/ NewPayload \/ EnrichAndRecord \/ EndAddBlock
               \/ ValidationCrit
      BY <2>2 DEF BeginAddBlock, GetPayload, NewPayload, EnrichAndRecord, EndAddBlock,
         ValidationCrit, replayVars
    <2>3. CASE ForkchoiceUpdateWithAttrs \/ ForkchoiceUpdateNoAttrs \/ EngineCrit
      <3>1. ~crashed /\ head = previous
        BY <2>3 DEF ForkchoiceUpdateWithAttrs, ForkchoiceUpdateNoAttrs, EngineCrit,
           P!AddBlockCrit, IInv, HeadInv
      <3>2. phase = "fcuNoAttrs" /\ head' = payload
        BY <2>3, <3>1 DEF ForkchoiceUpdateWithAttrs, ForkchoiceUpdateNoAttrs, EngineCrit
      <3> QED BY <3>1, <3>2, Numbers DEF IInv, AddBlockInv
    <2> QED BY <2>1, <2>2, <2>3, NextCases DEF AddBlock
  <1>2. /\ head'.number = head.number + 1 /\ head.number < CurrentNum + BlockCount
        /\ ~crashed /\ phase = "fcuNoAttrs" /\ head = previous /\ head' = payload
        /\ strategy' = strategy
    BY <1>1, HeadMoves
  <1>3. /\ strategy = "replay" => head.original /\ head'.original
        /\ strategy # "replay" => (head.original => head.number = CurrentNum)
                                 /\ ~head'.original
    BY <1>2 DEF IInv, FaithfulInv, StressInv
  <1>4. Caller!RunStrategy = strategy
    BY DEF Caller!RunStrategy
  <1>5. head.number < Caller!FetchableTo
    BY <1>1, HeadIsFetchable DEF Caller!FetchableTo, PP!FetchableTo
  <1> QED BY <1>2, <1>3, <1>4, <1>5, Constants DEF Caller!Extend, Caller!ExtendBy, endBlockNum

\* What Service knows of a step that takes the process down.
LEMMA CrashIsServices ==
  ASSUME IInv, [Next]_vars, crashed' # crashed
  PROVE  Caller!RunCrashes \/ Caller!LeftoverCrashes
  <1>1. ~crashed /\ crashed' /\ UNCHANGED <<cancelled, monitor, strategy>>
    BY CrashFrame
  <1>2. head' = head \/ (Caller!Extend /\ head.number < endBlockNum)
    BY MoveExtends
  <1>3. CASE ~Returned
    <2>1. \/ Caller!BenchmarkDone
          \/ Caller!FetchableTo < endBlockNum
          \/ ((Faults \cap {"strategy"}) \union {"stop"}
              \union IF Faults \cap {"source", "engine", "divergence"} # {}
                     THEN {"engine"} ELSE {}) \cap {"engine", "strategy"} # {}
      <3>1. CASE cancelled
        BY <3>1 DEF Caller!BenchmarkDone
      <3>2. CASE Faults \cap {"source", "strategy", "engine", "divergence"} # {}
        BY <3>2
      <3>3. CASE PP!LastFetched > SourceHead
        <4>1. PP!FetchableTo < PP!endBlockNum
          BY <3>3, Constants, PP!SourceTooShort
        <4> QED BY <4>1 DEF Caller!FetchableTo, PP!FetchableTo, PP!endBlockNum, endBlockNum
      <3> QED BY <1>1, <3>1, <3>2, <3>3, CrashCause
    <2> QED BY <1>1, <1>2, <1>3, <2>1
        DEF Caller!RunCrashes, Caller!Running, Caller!At, Caller!Crash, Caller!destVars,
            Caller!outerVars, Caller!nodeVars, Caller!contextVars, Returned
  <1>4. CASE Returned
    <2>1. head.number < endBlockNum \/ "strategy" \in Faults
      BY <1>1, <1>4, LateCrash, Numbers, Constants
    <2> QED BY <1>1, <1>2, <1>4, <2>1
        DEF Caller!LeftoverCrashes, Caller!Crash, Caller!destVars,
            Caller!outerVars, Caller!nodeVars, Caller!contextVars, Returned
  <1> QED BY <1>3, <1>4

\* A step is one of Service's in its benchmark.
LEMMA ServiceStep ==
  IInv /\ [Next]_vars => [Caller!Next]_<<head, crashed, cancelled, Returned>>
  <1> SUFFICES ASSUME IInv, [Next]_vars, ~UNCHANGED <<head, crashed, cancelled, Returned>>
               PROVE  Caller!Next
    OBVIOUS
  <1>1. CASE crashed' # crashed
    BY <1>1, CrashIsServices DEF Caller!Next, Caller!StartStep
  <1>2. CASE cancelled' # cancelled
    <2>1. Caller!Stop
      BY <1>2, CancelFrame DEF Caller!Stop, Caller!destVars, Caller!outerVars,
         Caller!nodeVars, Caller!runVars, Returned
    <2> QED BY <2>1 DEF Caller!Next
  <1>3. CASE Returned' # Returned
    <2>1. Caller!RunReturns
      BY <1>3, ReturnFrame, Numbers, Constants
      DEF Caller!RunReturns, Caller!Running, Caller!At, Caller!BenchmarkDone,
          Caller!destVars, Caller!outerVars, Caller!nodeVars, Caller!contextVars
    <2> QED BY <2>1 DEF Caller!Next, Caller!StartStep
  <1>4. CASE head' # head /\ UNCHANGED <<crashed, cancelled, Returned>>
    <2>1. ForkchoiceUpdateNoAttrs
      <3>1. head'.number # head.number /\ ~crashed
        BY <1>4, MoveExtends, Numbers
      <3>2. ~EngineCrit
        BY <1>4, <3>1 DEF EngineCrit, P!AddBlockCrit
      <3> QED BY <3>1, <3>2, HeadMoves
    <2>2. ~cancelled /\ ~Returned
      BY <2>1 DEF ForkchoiceUpdateNoAttrs, IInv, MonitorInv, AddBlockInv, Returned
    <2>3. Caller!RunAddsBlock
      BY <1>4, <2>2, MoveExtends
      DEF Caller!RunAddsBlock, Caller!Running, Caller!At, Caller!Answering,
          Caller!BenchmarkDone, Caller!outerVars, Caller!nodeVars, Caller!runVars,
          Caller!contextVars
    <2> QED BY <2>3 DEF Caller!Next, Caller!StartStep
  <1> QED BY <1>1, <1>2, <1>3, <1>4

-----------------------------------------------------------------------------
(* Theorems                                                                 *)

\* A run keeps the shape of its state, the pipeline's and the recorder's
\* included: the bounds of both channels and of the attempts.
THEOREM BenchmarkTypeCorrect == Spec => []TypeOK
  <1>1. IInv => TypeOK
    <2>1. PP!TypeOK => P!TypeOK
      BY DEF PP!TypeOK, P!TypeOK, PP!Slots, P!Slots
    <2>2. SP!TypeOK => S!TypeOK
      BY DEF SP!TypeOK, S!TypeOK
    <2> QED BY <2>1, <2>2 DEF IInv, PP!IInv, SP!IInv, OwnTypeOK, TypeOK
  <1> QED BY Invariance, <1>1, PTL

\* What Pipeline says of the three goroutines holds of them in a whole run:
\* with addBlock opened up into its calls, and the monitor beside it, every step
\* is one of Pipeline's. A failed validation is a divergence of the two nodes.
THEOREM ImplementsPipeline == Spec => P!Safety
  <1>1. Init => P!Init
    BY DEF Init
  <1>2. IInv /\ [Next]_vars => [P!Next]_(P!vars)
    BY PipelineStep
  <1> QED BY Invariance, <1>1, <1>2, PTL DEF Spec, Safety, P!Safety

\* In a replay no interleaving, failing call, divergence of the two nodes or
\* crash makes the destination's head a block that is not the source's
\* (benchmark.go: addBlock; replay.go: ValidateExecution).
THEOREM FaithfulReplay == Spec => []ReplayFaithful
  <1>1. IInv => ReplayFaithful
    BY DEF IInv, FaithfulInv, ReplayFaithful
  <1> QED BY Invariance, <1>1, PTL

\* A benchmark keeps ChainReplay's promise: the destination grows one block at a
\* time and never past the last block to replay, every block is recorded before
\* the next is added, only recorded blocks are published, and on S3 nothing
\* published is taken back (benchmark.go: addBlock, Run; storage.go, s3.go).
THEOREM BenchmarkRefines == Spec => ImplementsChainReplay
  <1>1. Init => Abstract!Init
    BY Constants DEF Init, startBlock, S!InitStats, S!Recorded, S!HalfRecorded, Published,
       Abstract!Init
  <1>2. IInv /\ IInv' /\ [Next]_vars => [Abstract!Next]_(Abstract!vars)
    BY ChainReplayStep
  <1> QED BY Invariance, <1>1, <1>2, PTL
          DEF Spec, Safety, ImplementsChainReplay, Abstract!Spec

\* When Run returns, not cancelled and with working storage, the stored results
\* are those of every block, in place, and the head is the last block.
THEOREM FinalResults == Spec => []FinalResultsComplete
  <1>1. IInv => FinalResultsComplete
    <2> SUFFICES ASSUME IInv, Returned, ~cancelled, "storage" \notin Faults
                 PROVE  /\ stored.whole
                        /\ S!Read = [k \in 1 .. BlockCount |-> CurrentNum + k]
                        /\ head.number = endBlockNum
      BY DEF FinalResultsComplete
    <2>1. stored.whole /\ S!Read = stats
      BY DEF IInv, FinalInv, Returned, S!Read
    <2>2. submitter = "done" /\ phase = "idle" /\ Done = BlockCount
      BY AddingIsNext DEF IInv, MonitorInv, AddBlockInv, Returned
    <2>3. ~SP!HalfRecorded(stats) /\ stats \in Seq(Nat) /\ SP!IsHistory(stats)
      BY <2>2 DEF IInv, AddBlockInv, SP!Recording, SP!IInv, SP!TypeOK, SP!HistoryInv
    <2>4. SP!RecordedLen(stats) = BlockCount
      BY <2>2 DEF IInv, AddBlockInv
    <2>5. Len(stats) = BlockCount /\ \A k \in 1 .. BlockCount : stats[k] = CurrentNum + k
      BY <2>3, <2>4, Constants, SP!RecordedOfHistory
    <2>6. stats = [k \in 1 .. BlockCount |-> CurrentNum + k]
      BY <2>3, <2>5
    <2>7. head.number = endBlockNum
      BY <2>2, Numbers, Constants DEF IInv, AddBlockInv, HeadInv
    <2> QED BY <2>1, <2>6, <2>7
  <1> QED BY Invariance, <1>1, PTL

\* With a source node that has every block the loader will ask for, nothing takes
\* an uncancelled process down unless the environment fails it: no order of the
\* goroutines, the channels' sizes or the monitor does (benchmark.go).
THEOREM CleanRun == Spec => []CleanRunSurvives
  <1>1. Init => CleanRunSurvives
    BY DEF Init, P!Init, CleanRunSurvives
  <1>2. IInv /\ CleanRunSurvives /\ [Next]_vars => CleanRunSurvives'
    <2> SUFFICES ASSUME IInv, CleanRunSurvives, [Next]_vars,
                        Faults \subseteq {"interrupt"}, P!LastFetched <= SourceHead,
                        ~cancelled', crashed'
                 PROVE  FALSE
      BY DEF CleanRunSurvives, P!LastFetched
    <2>1. ~cancelled
      BY CancelStays
    <2>2. ~crashed
      BY <2>1 DEF CleanRunSurvives
    <2>3. Faults \cap {"source", "strategy", "engine", "divergence"} = {}
      OBVIOUS
    <2>4. P!LastFetched > SourceHead
      BY <2>1, <2>2, <2>3, CrashCause DEF P!LastFetched, PP!LastFetched
    <2>5. P!LastFetched \in Int /\ SourceHead \in Int
      BY Constants DEF P!LastFetched, PP!PipelineAssumption
    <2> QED BY <2>4, <2>5
  <1> QED BY Invariance, <1>1, <1>2, PTL DEF Spec, Safety

\* What Service takes a run for is what a run is: its blocks and their order, the
\* conditions of its return and of its going down, and what it leaves behind.
THEOREM IsTheRunOfService == Spec => RunsAsServiceExpects
  <1>1. IInv /\ [Next]_vars => [Caller!Next]_<<head, crashed, cancelled, Returned>>
    BY ServiceStep
  <1> QED BY Invariance, <1>1, PTL DEF Spec, Safety, RunsAsServiceExpects
=============================================================================
