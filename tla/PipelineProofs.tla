--------------------------- MODULE PipelineProofs ---------------------------
(***************************************************************************)
(* Proofs about Pipeline for every chain, batch size and channel capacity. *)
(*                                                                         *)
(* Neither SubmitsInOrder nor StopsWhenReplayed is inductive: they follow  *)
(* from where the blocks in flight come from. IInv says that the mapper's  *)
(* hand and the two channels hold, from the submitter back to the loader,  *)
(* one contiguous run of block numbers.                                    *)
(***************************************************************************)
EXTENDS Pipeline, TLAPS

\* The next block each stage takes from the one before it, by number: blocks
\* travel in one contiguous run from the submitter back to the loader.
LoaderNext == blockStartRange + sent
MapperNext == LoaderNext - Len(incomingBlocks)
Forwarded == IF mapper = "send" THEN MapperNext - 1 ELSE MapperNext
SubmitNext == Forwarded - Len(processBlocks)

\* s holds the numbers from lo on.
Run(s, lo) == \A k \in 1 .. Len(s) : s[k] = lo + k - 1

LoaderInv ==
  /\ blockStartRange <= endBlockNum + Concurrency
  /\ sent > 0 => InRange
  /\ incomingClosed => ~InRange
  /\ \A i \in Slots : results[i] # Nil => results[i] = blockStartRange + i

ContiguousInv ==
  /\ Run(incomingBlocks, MapperNext)
  /\ mapper = "send" => mapped = MapperNext - 1
  /\ Run(processBlocks, SubmitNext)

ClosedInv ==
  processClosed => incomingClosed /\ incomingBlocks = <<>> /\ mapper = "done"

SubmitInv ==
  /\ remainingBlockCount <= BlockCount
  /\ submitter = "recv" => SubmitNext = endBlockNum - remainingBlockCount + 1
  /\ submitter = "add" =>
       /\ remainingBlockCount >= 1
       /\ adding = endBlockNum - remainingBlockCount + 1
       /\ SubmitNext = adding + 1
  /\ submitter = "done" => SubmitNext > endBlockNum - remainingBlockCount
  /\ submitter = "done" /\ ~cancelled =>
       /\ remainingBlockCount = 0
       /\ SubmitNext = endBlockNum + 2 \/ processClosed

IInv == TypeOK /\ LoaderInv /\ ContiguousInv /\ ClosedInv /\ SubmitInv

-----------------------------------------------------------------------------
(* What a channel's operations do to a contiguous run of numbers.           *)

\* Sending the number that comes next extends the run.
LEMMA RunAppend ==
  ASSUME NEW s \in Seq(Nat), NEW lo \in Int, NEW e \in Nat,
         Run(s, lo), e = lo + Len(s)
  PROVE  /\ Append(s, e) \in Seq(Nat)
         /\ Len(Append(s, e)) = Len(s) + 1
         /\ Run(Append(s, e), lo)
BY DEF Run

\* Receiving takes the lowest number and leaves the run above it.
LEMMA RunTail ==
  ASSUME NEW s \in Seq(Nat), NEW lo \in Int, Run(s, lo), s # <<>>
  PROVE  /\ Head(s) = lo /\ Head(s) \in Nat
         /\ Tail(s) \in Seq(Nat)
         /\ Len(Tail(s)) = Len(s) - 1
         /\ Run(Tail(s), lo + 1)
BY DEF Run

-----------------------------------------------------------------------------
(* Type correctness, which is inductive as it stands.                       *)

\* The goroutines start with empty channels, within their types.
LEMMA TypeInit == PipelineAssumption /\ Init => TypeOK
  <1> SUFFICES ASSUME PipelineAssumption, Init PROVE TypeOK
    OBVIOUS
  <1> USE DEF PipelineAssumption
  <1>1. /\ incomingBlocks \in Seq(Nat) /\ Len(incomingBlocks) <= IncomingCap
        /\ processBlocks \in Seq(Nat) /\ Len(processBlocks) <= ProcessCap
    BY DEF Init
  <1>2. results \in [Slots -> Nat] /\ sent \in Slots
    BY DEF Init, EmptyResults, Slots, Nil
  <1>3. blockStartRange \in Nat /\ remainingBlockCount \in Nat
    BY DEF Init, startBlockNum
  <1> QED
    BY <1>1, <1>2, <1>3 DEF Init, TypeOK, Nil

\* Every step keeps both channels within their capacity and the rest in type.
LEMMA TypeStep == PipelineAssumption /\ TypeOK /\ [Next]_vars => TypeOK'
  <1> SUFFICES ASSUME PipelineAssumption, TypeOK, [Next]_vars PROVE TypeOK'
    OBVIOUS
  <1> USE DEF PipelineAssumption, TypeOK, loaderVars, mapperVars, submitterVars,
        channelVars, processVars
  <1>1. CASE \E i \in Slots : FetchBlock(i)
    <2> PICK i \in Slots : FetchBlock(i)
      BY <1>1
    <2>1. results' \in [Slots -> Nat]
      BY DEF FetchBlock, Slots
    <2> QED
      BY <2>1 DEF FetchBlock
  <1>2. CASE (\E i \in Slots : FetchFails(i)) \/ MapPanics \/ MonitorPanics
    BY <1>2 DEF FetchFails, MapPanics, MonitorPanics
  <1>3. CASE SendBlock
    <2>1. incomingBlocks' \in Seq(Nat) /\ Len(incomingBlocks') <= IncomingCap
      BY <1>3 DEF SendBlock
    <2>2. blockStartRange' \in Nat /\ sent' \in Slots
      BY <1>3 DEF SendBlock, Slots
    <2>3. results' \in [Slots -> Nat]
      BY <1>3 DEF SendBlock, EmptyResults, Nil
    <2> QED
      BY <1>3, <2>1, <2>2, <2>3 DEF SendBlock
  <1>4. CASE CloseIncoming
    BY <1>4 DEF CloseIncoming
  <1>5. CASE MapReceive
    <2>1. incomingBlocks' \in Seq(Nat) /\ Len(incomingBlocks') <= IncomingCap
      BY <1>5 DEF MapReceive
    <2>2. mapped' \in Nat
      BY <1>5 DEF MapReceive
    <2> QED
      BY <1>5, <2>1, <2>2 DEF MapReceive
  <1>6. CASE MapSend
    <2>1. processBlocks' \in Seq(Nat) /\ Len(processBlocks') <= ProcessCap
      BY <1>6 DEF MapSend
    <2> QED
      BY <1>6, <2>1 DEF MapSend, Nil
  <1>7. CASE MapClosed \/ MapCancelled
    BY <1>7 DEF MapClosed, MapCancelled
  <1>8. CASE SubmitReceive \/ (SubmitStops /\ processBlocks # <<>>)
    <2>1. processBlocks # <<>> /\ processBlocks' = Tail(processBlocks)
      BY <1>8 DEF SubmitReceive, SubmitStops
    <2>2. processBlocks' \in Seq(Nat) /\ Len(processBlocks') <= ProcessCap
      BY <2>1
    <2>3. adding' \in Nat
      BY <1>8 DEF SubmitReceive, SubmitStops
    <2> QED
      BY <1>8, <2>2, <2>3 DEF SubmitReceive, SubmitStops
  <1>9. CASE (SubmitStops /\ processBlocks = <<>>) \/ SubmitCancelled
    BY <1>9 DEF SubmitStops, SubmitCancelled
  <1>10. CASE AddBlockReturns
    BY <1>10 DEF AddBlockReturns, Decrement, Nil
  <1>11. CASE AddBlockCrit
    BY <1>11 DEF AddBlockCrit
  <1>12. CASE Cancel
    BY <1>12 DEF Cancel
  <1>13. CASE UNCHANGED vars
    BY <1>13 DEF vars
  <1> QED
    BY <1>1, <1>2, <1>3, <1>4, <1>5, <1>6, <1>7, <1>8, <1>9, <1>10, <1>11,
       <1>12, <1>13 DEF Next, Loader, Mapper, Submitter, Terminated

\* Neither channel ever holds more than it was made for, and every variable
\* keeps its type, whatever the capacities and the batch size.
THEOREM TypeCorrect == ASSUME PipelineAssumption PROVE Spec => []TypeOK
  <1>1. Init => TypeOK
    BY TypeInit
  <1>2. TypeOK /\ [Next]_vars => TypeOK'
    BY TypeStep
  <1> QED
    BY <1>1, <1>2, PTL DEF Spec, Safety

-----------------------------------------------------------------------------
(* The inductive invariant.                                                 *)

\* The invariant holds before the first batch.
LEMMA InvInit == PipelineAssumption /\ Init => IInv
  <1> SUFFICES ASSUME PipelineAssumption, Init PROVE IInv
    OBVIOUS
  <1>1. TypeOK
    BY TypeInit
  <1>2. incomingBlocks = <<>> /\ processBlocks = <<>> /\ results = EmptyResults
    BY DEF Init
  <1>3. LoaderInv
    BY <1>2
    DEF PipelineAssumption, Init, LoaderInv, EmptyResults, endBlockNum, startBlockNum
  <1>4. ContiguousInv /\ ClosedInv
    BY <1>2 DEF Init, ContiguousInv, ClosedInv, Run
  <1>5. SubmitInv
    BY <1>2
    DEF PipelineAssumption, Init, SubmitInv, SubmitNext, Forwarded, MapperNext, LoaderNext,
        endBlockNum, startBlockNum
  <1> QED
    BY <1>1, <1>3, <1>4, <1>5 DEF IInv

\* Every step of a goroutine, and a cancellation, keeps it.
LEMMA InvStep == PipelineAssumption /\ IInv /\ [Next]_vars => IInv'
  <1> SUFFICES ASSUME PipelineAssumption, IInv, [Next]_vars PROVE IInv'
    OBVIOUS
  <1>1. TypeOK /\ TypeOK'
    BY TypeStep DEF IInv
  <1>2. /\ endBlockNum \in Nat /\ endBlockNum = CurrentNum + BlockCount
        /\ Concurrency \in Nat \ {0} /\ BlockCount \in Nat
    BY DEF PipelineAssumption, endBlockNum
  <1>3. /\ LoaderNext \in Int /\ MapperNext \in Int
        /\ Forwarded \in Int /\ SubmitNext \in Int
    BY <1>1 DEF LoaderNext, MapperNext, Forwarded, SubmitNext, TypeOK, Slots
  <1> USE <1>1, <1>2, <1>3
  <1>4. CASE \E i \in Slots : FetchBlock(i)
    <2> PICK i \in Slots : FetchBlock(i)
      BY <1>4
    <2> USE DEF FetchBlock, mapperVars, submitterVars, channelVars, processVars
    <2>1. LoaderInv'
      BY DEF IInv, LoaderInv, TypeOK, InRange, endBlockNum
    <2>2. ContiguousInv' /\ ClosedInv'
      BY DEF IInv, ContiguousInv, ClosedInv, Run, SubmitNext, Forwarded,
             MapperNext, LoaderNext
    <2>3. SubmitInv'
      BY DEF IInv, SubmitInv, SubmitNext, Forwarded, MapperNext, LoaderNext,
             endBlockNum
    <2> QED
      BY <2>1, <2>2, <2>3 DEF IInv
  <1>5. CASE SendBlock
    <2> USE <1>5
    <2>1. /\ blockStartRange \in Nat /\ sent \in Slots
          /\ incomingBlocks \in Seq(Nat)
          /\ InRange /\ results[sent] = LoaderNext
          /\ LoaderNext = MapperNext + Len(incomingBlocks)
      BY DEF SendBlock, Loading, IInv, LoaderInv, LoaderNext, MapperNext, TypeOK,
             Slots
    <2>2. incomingBlocks' = Append(incomingBlocks, LoaderNext)
      BY <2>1 DEF SendBlock
    <2>3. LoaderNext' = LoaderNext + 1
      BY <2>1 DEF SendBlock, LoaderNext, Slots
    <2>4. Len(incomingBlocks') = Len(incomingBlocks) + 1
      BY <2>1, <2>2 DEF TypeOK
    <2>5. MapperNext' = MapperNext
      BY <2>1, <2>3, <2>4 DEF MapperNext
    <2>6. Forwarded' = Forwarded /\ SubmitNext' = SubmitNext
      BY <2>5 DEF SendBlock, mapperVars, Forwarded, SubmitNext
    <2>7. LoaderInv'
      BY <2>1 DEF SendBlock, IInv, LoaderInv, InRange, EmptyResults, endBlockNum,
                  Slots, Nil
    <2>8. ContiguousInv'
      <3>1. LoaderNext \in Nat
        BY <2>1 DEF LoaderNext, Slots
      <3>2. Run(incomingBlocks', MapperNext')
        BY <2>1, <2>2, <2>5, <3>1, RunAppend DEF IInv, ContiguousInv
      <3> QED
        BY <2>5, <2>6, <3>2 DEF SendBlock, mapperVars, IInv, ContiguousInv, Run
    <2>9. ClosedInv'
      BY <2>1 DEF SendBlock, mapperVars, IInv, LoaderInv, ClosedInv
    <2>10. SubmitInv'
      BY <2>6 DEF SendBlock, mapperVars, submitterVars, processVars, IInv, SubmitInv,
                  endBlockNum
    <2> QED
      BY <2>7, <2>8, <2>9, <2>10 DEF IInv
  <1>6. CASE MapReceive
    <2> USE <1>6
    <2>1. /\ incomingBlocks \in Seq(Nat) /\ incomingBlocks # <<>>
          /\ Run(incomingBlocks, MapperNext)
      BY DEF MapReceive, IInv, ContiguousInv, TypeOK
    <2>2. /\ mapped' = MapperNext
          /\ Len(incomingBlocks') = Len(incomingBlocks) - 1
          /\ Run(incomingBlocks', MapperNext + 1)
      BY <2>1, RunTail DEF MapReceive
    <2>3. LoaderNext' = LoaderNext
      BY DEF MapReceive, loaderVars, LoaderNext
    <2>4. MapperNext' = MapperNext + 1
      BY <2>1, <2>2, <2>3 DEF MapperNext
    <2>5. Forwarded' = Forwarded /\ SubmitNext' = SubmitNext
      BY <2>4 DEF MapReceive, Forwarded, SubmitNext
    <2>6. LoaderInv'
      BY DEF MapReceive, loaderVars, IInv, LoaderInv, InRange, endBlockNum
    <2>7. ContiguousInv'
      BY <2>2, <2>4, <2>5 DEF MapReceive, IInv, ContiguousInv, Run
    <2>8. ClosedInv'
      BY <2>1 DEF MapReceive, IInv, ClosedInv
    <2>9. SubmitInv'
      BY <2>5 DEF MapReceive, submitterVars, processVars, IInv, SubmitInv, endBlockNum
    <2> QED
      BY <2>6, <2>7, <2>8, <2>9 DEF IInv
  <1>7. CASE MapSend
    <2> USE <1>7
    <2>1. /\ processBlocks \in Seq(Nat)
          /\ Run(processBlocks, SubmitNext)
          /\ mapped \in Nat /\ mapped = SubmitNext + Len(processBlocks)
      BY DEF MapSend, IInv, ContiguousInv, TypeOK, SubmitNext, Forwarded
    <2>2. /\ Len(processBlocks') = Len(processBlocks) + 1
          /\ Run(processBlocks', SubmitNext)
      BY <2>1, RunAppend DEF MapSend
    <2>3. LoaderNext' = LoaderNext /\ MapperNext' = MapperNext
      BY DEF MapSend, loaderVars, LoaderNext, MapperNext
    <2>4. SubmitNext' = SubmitNext
      BY <2>1, <2>2, <2>3 DEF MapSend, SubmitNext, Forwarded
    <2>5. LoaderInv'
      BY DEF MapSend, loaderVars, IInv, LoaderInv, InRange, endBlockNum
    <2>6. ContiguousInv'
      BY <2>2, <2>3, <2>4 DEF MapSend, IInv, ContiguousInv, Run
    <2>7. ClosedInv'
      BY DEF MapSend, IInv, ClosedInv
    <2>8. SubmitInv'
      BY <2>4 DEF MapSend, submitterVars, processVars, IInv, SubmitInv, endBlockNum
    <2> QED
      BY <2>5, <2>6, <2>7, <2>8 DEF IInv
  <1>8. CASE SubmitReceive \/ (SubmitStops /\ processBlocks # <<>>)
    <2> USE <1>8
    <2>1. /\ processBlocks \in Seq(Nat) /\ processBlocks # <<>>
          /\ Run(processBlocks, SubmitNext)
          /\ processBlocks' = Tail(processBlocks)
      BY DEF SubmitReceive, SubmitStops, IInv, ContiguousInv, TypeOK
    <2>2. /\ Head(processBlocks) = SubmitNext
          /\ Len(processBlocks') = Len(processBlocks) - 1
          /\ Run(processBlocks', SubmitNext + 1)
      BY <2>1, RunTail
    <2>3. /\ LoaderNext' = LoaderNext /\ MapperNext' = MapperNext
          /\ Forwarded' = Forwarded
      BY DEF SubmitReceive, SubmitStops, loaderVars, mapperVars, LoaderNext,
             MapperNext, Forwarded
    <2>4. SubmitNext' = SubmitNext + 1
      BY <2>1, <2>2, <2>3 DEF SubmitNext
    <2>5. SubmitNext = endBlockNum - remainingBlockCount + 1
      BY DEF SubmitReceive, SubmitStops, IInv, SubmitInv
    <2>6. LoaderInv'
      BY DEF SubmitReceive, SubmitStops, loaderVars, IInv, LoaderInv, InRange,
             endBlockNum
    <2>7. ContiguousInv'
      BY <2>2, <2>3, <2>4
      DEF SubmitReceive, SubmitStops, mapperVars, IInv, ContiguousInv, Run
    <2>8. ClosedInv'
      BY DEF SubmitReceive, SubmitStops, loaderVars, mapperVars, IInv, ClosedInv
    <2>9. SubmitInv'
      <3> USE <2>2, <2>4, <2>5
      <3>1. remainingBlockCount \in Nat /\ remainingBlockCount <= BlockCount
        BY DEF IInv, SubmitInv, TypeOK
      <3>2. CASE SubmitReceive
        BY <3>1, <3>2 DEF SubmitReceive, SubmitInv, endBlockNum
      <3>3. CASE SubmitStops
        <4>1. remainingBlockCount = 0
          BY <3>1, <3>3 DEF SubmitStops
        <4> QED
          BY <3>3, <4>1 DEF SubmitStops, SubmitInv, endBlockNum
      <3> QED
        BY <3>2, <3>3
    <2> QED
      BY <2>6, <2>7, <2>8, <2>9 DEF IInv
  <1>9. CASE (SubmitStops /\ processBlocks = <<>>) \/ SubmitCancelled
    <2> USE <1>9 DEF SubmitStops, SubmitCancelled, loaderVars, mapperVars,
                     channelVars, processVars
    <2>1. LoaderInv'
      BY DEF IInv, LoaderInv, InRange, endBlockNum
    <2>2. SubmitNext' = SubmitNext /\ MapperNext' = MapperNext
      BY DEF SubmitNext, Forwarded, MapperNext, LoaderNext
    <2>3. ContiguousInv' /\ ClosedInv'
      BY <2>2 DEF IInv, ContiguousInv, ClosedInv, Run
    <2>4. SubmitInv'
      <3>1. CASE SubmitStops
        <4>1. LoaderNext = blockStartRange + sent /\ sent = 0
          BY <3>1 DEF IInv, ClosedInv, LoaderInv, LoaderNext, TypeOK, Slots
        <4>2. blockStartRange > endBlockNum
          BY <3>1 DEF IInv, ClosedInv, LoaderInv, InRange, TypeOK
        <4>3. Len(incomingBlocks) = 0 /\ Len(processBlocks) = 0 /\ mapper = "done"
          BY <3>1 DEF IInv, ClosedInv
        <4>4. SubmitNext = blockStartRange
          BY <4>1, <4>3 DEF SubmitNext, Forwarded, MapperNext, TypeOK
        <4>5. remainingBlockCount = 0
          BY <3>1, <4>2, <4>4 DEF IInv, SubmitInv, TypeOK
        <4> QED
          BY <2>2, <3>1, <4>5 DEF IInv, SubmitInv, endBlockNum
      <3>2. CASE SubmitCancelled
        BY <2>2, <3>2 DEF IInv, SubmitInv, TypeOK, endBlockNum
      <3> QED
        BY <3>1, <3>2
    <2> QED
      BY <2>1, <2>3, <2>4 DEF IInv
  <1>10. CASE AddBlockReturns
    <2> USE <1>10 DEF AddBlockReturns, loaderVars, mapperVars, channelVars, processVars
    <2>1. LoaderInv'
      BY DEF IInv, LoaderInv, InRange, endBlockNum
    <2>2. SubmitNext' = SubmitNext /\ ContiguousInv' /\ ClosedInv'
      BY DEF IInv, ContiguousInv, ClosedInv, Run, SubmitNext, Forwarded, MapperNext,
             LoaderNext
    <2>3. SubmitInv'
      BY <2>2 DEF IInv, SubmitInv, TypeOK, Decrement, endBlockNum
    <2> QED
      BY <2>1, <2>2, <2>3 DEF IInv
  <1>11. CASE MapClosed \/ MapCancelled
    <2> USE <1>11 DEF MapClosed, MapCancelled, loaderVars, submitterVars, channelVars,
                      processVars
    <2>1. LoaderInv'
      BY DEF IInv, LoaderInv, InRange, endBlockNum
    <2>2. SubmitNext' = SubmitNext /\ MapperNext' = MapperNext
      BY DEF SubmitNext, Forwarded, MapperNext, LoaderNext
    <2>3. ContiguousInv' /\ ClosedInv'
      BY <2>2 DEF IInv, ContiguousInv, ClosedInv, Run
    <2>4. SubmitInv'
      BY <2>2 DEF IInv, SubmitInv, TypeOK, endBlockNum
    <2> QED
      BY <2>1, <2>3, <2>4 DEF IInv
  <1>12. CASE CloseIncoming
    <2> USE <1>12 DEF CloseIncoming, mapperVars, submitterVars, channelVars, processVars
    <2>1. LoaderInv'
      BY DEF IInv, LoaderInv, InRange, endBlockNum
    <2>2. SubmitNext' = SubmitNext /\ MapperNext' = MapperNext
      BY DEF SubmitNext, Forwarded, MapperNext, LoaderNext
    <2>3. ContiguousInv' /\ ClosedInv' /\ SubmitInv'
      BY <2>2 DEF IInv, ContiguousInv, ClosedInv, SubmitInv, Run, endBlockNum
    <2> QED
      BY <2>1, <2>3 DEF IInv
  <1>13. CASE \/ \E i \in Slots : FetchFails(i)
              \/ MapPanics \/ AddBlockCrit \/ MonitorPanics \/ Cancel \/ UNCHANGED vars
    <2>1. /\ UNCHANGED <<loaderVars, mapperVars, submitterVars, channelVars>>
          /\ cancelled => cancelled'
      BY <1>13 DEF FetchFails, MapPanics, AddBlockCrit, MonitorPanics, Cancel, vars,
         processVars
    <2> USE <2>1 DEF loaderVars, mapperVars, submitterVars, channelVars
    <2>2. LoaderInv'
      BY DEF IInv, LoaderInv, InRange, endBlockNum
    <2>3. SubmitNext' = SubmitNext /\ MapperNext' = MapperNext
      BY DEF SubmitNext, Forwarded, MapperNext, LoaderNext
    <2>4. ContiguousInv' /\ ClosedInv' /\ SubmitInv'
      BY <2>3 DEF IInv, ContiguousInv, ClosedInv, SubmitInv, Run, endBlockNum
    <2> QED
      BY <2>2, <2>4 DEF IInv
  <1> QED
    BY <1>4, <1>5, <1>6, <1>7, <1>8, <1>9, <1>10, <1>11, <1>12, <1>13
    DEF Next, Loader, Mapper, Submitter, Terminated

\* It holds throughout.
LEMMA Invariance == ASSUME PipelineAssumption PROVE Spec => []IInv
  <1>1. Init => IInv
    BY InvInit
  <1>2. IInv /\ [Next]_vars => IInv'
    BY InvStep
  <1> QED
    BY <1>1, <1>2, PTL DEF Spec, Safety

-----------------------------------------------------------------------------
(* What the loader asks the source node for.                                *)

\* Batches are whole.
BatchInv == \E k \in Nat : blockStartRange = startBlockNum + k * Concurrency

\* The first batch begins at the first block.
LEMMA BatchInit == PipelineAssumption /\ Init => BatchInv
  <1> SUFFICES ASSUME PipelineAssumption, Init PROVE BatchInv
    OBVIOUS
  <1>1. blockStartRange = startBlockNum + 0 * Concurrency
    BY DEF PipelineAssumption, Init, startBlockNum
  <1> QED BY <1>1 DEF BatchInv

\* The loader moves by a whole batch or stays.
LEMMA BatchStep == PipelineAssumption /\ BatchInv /\ [Next]_vars => BatchInv'
  <1> SUFFICES ASSUME PipelineAssumption, BatchInv, [Next]_vars PROVE BatchInv'
    OBVIOUS
  <1>1. PICK k \in Nat : blockStartRange = startBlockNum + k * Concurrency
    BY DEF BatchInv
  <1>2. startBlockNum \in Nat /\ Concurrency \in Nat /\ UNCHANGED startBlockNum
    BY DEF PipelineAssumption, startBlockNum
  <1>3. blockStartRange' \in {blockStartRange, blockStartRange + Concurrency}
    <2>1. CASE Loader
      BY <2>1 DEF Loader, FetchBlock, FetchFails, SendBlock, CloseIncoming, loaderVars
    <2>2. CASE Mapper
      BY <2>2 DEF Mapper, MapReceive, MapPanics, MapSend, MapClosed, MapCancelled, loaderVars
    <2>3. CASE Submitter
      BY <2>3 DEF Submitter, SubmitReceive, SubmitStops, SubmitCancelled, AddBlockReturns,
         AddBlockCrit, loaderVars
    <2>4. CASE MonitorPanics \/ Cancel \/ UNCHANGED vars
      BY <2>4 DEF MonitorPanics, Cancel, vars, loaderVars
    <2> QED BY <2>1, <2>2, <2>3, <2>4 DEF Next, Terminated
  <1>4. CASE blockStartRange' = blockStartRange
    BY <1>1, <1>4 DEF BatchInv, startBlockNum
  <1>5. CASE blockStartRange' = blockStartRange + Concurrency
    <2>1. blockStartRange' = startBlockNum + (k + 1) * Concurrency
      BY <1>1, <1>2, <1>5
    <2> QED BY <2>1 DEF BatchInv, startBlockNum
  <1> QED BY <1>3, <1>4, <1>5

\* A multiple of c below another and a further c is not beyond it.
LEMMA Multiples ==
  ASSUME NEW c \in Nat \ {0}, NEW x \in Nat, NEW y \in Nat, c * x < c * y + c
  PROVE  c * x <= c * y
  <1>1. CASE x <= y
    BY <1>1
  <1>2. CASE x > y
    <2>1. PICK d \in Nat : x = y + 1 + d
      BY <1>2
    <2>2. c * x = c * y + c + c * d /\ c * d >= 0
      BY <2>1
    <2> QED BY <2>2
  <1> QED BY <1>1, <1>2

\* No block beyond LastFetched is ever asked for.
LEMMA FetchBound ==
  ASSUME PipelineAssumption, BatchInv, InRange, NEW i \in Slots
  PROVE  blockStartRange + i <= LastFetched
  <1>1. PICK k \in Nat : blockStartRange = startBlockNum + k * Concurrency
    BY DEF BatchInv
  <1>2. /\ CurrentNum \in Nat /\ BlockCount \in Nat /\ Concurrency \in Nat \ {0}
        /\ i \in Nat /\ i <= Concurrency - 1
    BY DEF PipelineAssumption, Slots
  <1>3. k * Concurrency + 1 <= BlockCount /\ k * Concurrency \in Nat
    BY <1>1, <1>2 DEF InRange, startBlockNum, endBlockNum
  <1> DEFINE a == BlockCount + Concurrency - 1
             q == a \div Concurrency
  <1>4. a \in Nat /\ a < Concurrency * q + Concurrency /\ q \in Nat
    BY <1>2
  <1> HIDE DEF q
  <1>5. Concurrency * (k + 1) = k * Concurrency + Concurrency /\ k + 1 \in Nat
    BY <1>2
  <1>6. Concurrency * (k + 1) < Concurrency * q + Concurrency
    BY <1>2, <1>3, <1>4, <1>5
  <1>7. Concurrency * (k + 1) <= Concurrency * q
    BY <1>2, <1>4, <1>5, <1>6, Multiples
  <1>8. blockStartRange + i <= CurrentNum + Concurrency * (k + 1)
    BY <1>1, <1>2, <1>3, <1>5 DEF startBlockNum
  <1>9. LastFetched = CurrentNum + Concurrency * q /\ Concurrency * q \in Nat
        /\ blockStartRange + i \in Nat /\ Concurrency * (k + 1) \in Nat
    BY <1>1, <1>2, <1>3, <1>4, <1>5 DEF LastFetched, startBlockNum, q
  <1> QED BY <1>2, <1>7, <1>8, <1>9

\* A block that is there came from the source node, and a batch is sent only when
\* all of it is there.
FetchedInv ==
  /\ blockStartRange = startBlockNum \/ blockStartRange <= SourceHead + 1
  /\ \A i \in Slots : results[i] # Nil => blockStartRange + i <= SourceHead
  /\ sent > 0 => \A i \in Slots : results[i] # Nil

\* There is no block yet.
LEMMA FetchedInit == PipelineAssumption /\ Init => FetchedInv
BY DEF PipelineAssumption, Init, FetchedInv, EmptyResults, Slots

\* A fetch adds a block of the source's, and a batch that is sent was whole.
LEMMA FetchedStep == PipelineAssumption /\ TypeOK /\ FetchedInv /\ [Next]_vars => FetchedInv'
  <1> SUFFICES ASSUME PipelineAssumption, TypeOK, FetchedInv, [Next]_vars
               PROVE  FetchedInv'
    OBVIOUS
  <1> USE DEF FetchedInv, startBlockNum
  <1>1. CASE \E i \in Slots : FetchBlock(i)
    BY <1>1 DEF FetchBlock, TypeOK
  <1>2. CASE SendBlock
    <2>1. /\ Concurrency \in Nat \ {0} /\ blockStartRange \in Nat /\ SourceHead \in Nat
          /\ sent \in Nat /\ Concurrency - 1 \in Slots /\ Slots \subseteq Nat
      BY DEF PipelineAssumption, TypeOK, Slots
    <2>2. blockStartRange + (Concurrency - 1) <= SourceHead
      BY <1>2, <2>1 DEF SendBlock
    <2>3. CASE sent + 1 < Concurrency
      BY <1>2, <2>1, <2>3 DEF SendBlock
    <2>4. CASE sent + 1 = Concurrency
      BY <1>2, <2>1, <2>2, <2>4 DEF SendBlock, EmptyResults, Nil
    <2> QED BY <1>2, <2>3, <2>4 DEF SendBlock
  <1>3. CASE UNCHANGED <<blockStartRange, results, sent>>
    BY <1>3
  <1>4. CASE CloseIncoming \/ \E i \in Slots : FetchFails(i)
    BY <1>3, <1>4 DEF CloseIncoming, FetchFails, loaderVars
  <1>5. CASE Mapper \/ Submitter
    BY <1>3, <1>5 DEF Mapper, MapReceive, MapPanics, MapSend, MapClosed, MapCancelled,
       Submitter, SubmitReceive, SubmitStops, SubmitCancelled, AddBlockReturns,
       AddBlockCrit, loaderVars
  <1>6. CASE MonitorPanics \/ Cancel \/ UNCHANGED vars
    BY <1>3, <1>6 DEF MonitorPanics, Cancel, vars, loaderVars
  <1> QED BY <1>1, <1>2, <1>4, <1>5, <1>6 DEF Next, Loader, Terminated

\* A multiple of c up to n is at most the largest one.
LEMMA LargestMultiple ==
  ASSUME NEW c \in Nat \ {0}, NEW x \in Nat, NEW n \in Nat, c * x <= n
  PROVE  c * x <= c * (n \div c) /\ c * (n \div c) <= n /\ n \div c \in Nat
  <1> DEFINE q == n \div c
  <1>1. n < c * q + c /\ c * q <= n /\ q \in Nat
    OBVIOUS
  <1> HIDE DEF q
  <1>2. c * x \in Nat /\ c * q \in Nat
    BY <1>1
  <1>3. c * x < c * q + c
    BY <1>1, <1>2
  <1>4. c * x <= c * q
    BY <1>1, <1>3, Multiples
  <1> QED BY <1>1, <1>4 DEF q

\* How far whole batches take the run on the source's chain.
FetchableTo == CurrentNum + Concurrency * ((SourceHead - CurrentNum) \div Concurrency)

\* No block beyond it is ever added.
LEMMA AddedIsFetchable ==
  ASSUME PipelineAssumption, IInv, BatchInv, FetchedInv, submitter = "add"
  PROVE  adding <= FetchableTo
  <1>1. /\ CurrentNum \in Nat /\ BlockCount \in Nat /\ Concurrency \in Nat \ {0}
        /\ SourceHead \in Nat /\ endBlockNum = CurrentNum + BlockCount
        /\ blockStartRange \in Nat /\ sent \in Nat /\ sent <= Concurrency - 1
        /\ Concurrency - 1 \in Slots
        /\ Len(incomingBlocks) \in Nat /\ Len(processBlocks) \in Nat
        /\ adding \in Nat /\ remainingBlockCount \in Nat
    BY DEF PipelineAssumption, endBlockNum, IInv, TypeOK, Slots
  <1>2. adding > CurrentNum /\ adding < blockStartRange + sent
    BY <1>1 DEF IInv, SubmitInv, SubmitNext, Forwarded, MapperNext, LoaderNext
  <1>3. PICK k \in Nat : blockStartRange = CurrentNum + 1 + k * Concurrency
    BY DEF BatchInv, startBlockNum
  <1>4. k * Concurrency = Concurrency * k /\ Concurrency * k \in Nat
        /\ Concurrency * (k + 1) = Concurrency * k + Concurrency
    BY <1>1
  <1>5. PICK j \in Nat : adding <= CurrentNum + Concurrency * j
                         /\ CurrentNum + Concurrency * j <= SourceHead
    <2>1. CASE sent = 0
      <3>1. adding <= CurrentNum + Concurrency * k
        BY <1>1, <1>2, <1>3, <1>4, <2>1
      <3>2. blockStartRange # startBlockNum
        BY <1>1, <1>2, <2>1 DEF startBlockNum
      <3>3. CurrentNum + Concurrency * k <= SourceHead
        BY <1>1, <1>3, <1>4, <3>2 DEF FetchedInv
      <3> QED BY <3>1, <3>3
    <2>2. CASE sent > 0
      <3>1. blockStartRange + (Concurrency - 1) <= SourceHead
        BY <1>1, <2>2 DEF FetchedInv
      <3>2. CurrentNum + Concurrency * (k + 1) <= SourceHead
        BY <1>1, <1>3, <1>4, <3>1
      <3>3. adding <= CurrentNum + Concurrency * (k + 1)
        BY <1>1, <1>2, <1>3, <1>4
      <3> QED BY <3>2, <3>3
    <2> QED BY <1>1, <2>1, <2>2
  <1>6. Concurrency * j \in Nat /\ SourceHead - CurrentNum \in Nat
        /\ Concurrency * j <= SourceHead - CurrentNum
    <2>1. Concurrency * j \in Nat
      BY <1>1
    <2> QED BY <1>1, <1>5, <2>1
  <1> DEFINE last == Concurrency * ((SourceHead - CurrentNum) \div Concurrency)
  <1>7. Concurrency * j <= last /\ last \in Nat
    BY <1>1, <1>6, LargestMultiple
  <1>8. FetchableTo = CurrentNum + last
    BY DEF FetchableTo
  <1> HIDE DEF last
  <1> QED BY <1>1, <1>5, <1>6, <1>7, <1>8

\* The run cannot be completed from a source that lacks a block of its batches.
LEMMA SourceTooShort ==
  ASSUME PipelineAssumption, LastFetched > SourceHead
  PROVE  FetchableTo < endBlockNum
  <1>1. /\ CurrentNum \in Nat /\ BlockCount \in Nat /\ Concurrency \in Nat \ {0}
        /\ SourceHead \in Nat
    BY DEF PipelineAssumption
  <1> DEFINE a == BlockCount + Concurrency - 1
             q == a \div Concurrency
             r == (SourceHead - CurrentNum) \div Concurrency
  <1>2. q \in Nat /\ Concurrency * q \in Nat /\ Concurrency * q <= a /\ a \in Nat
    <2>1. a \in Nat
      BY <1>1
    <2> HIDE DEF a
    <2>2. Concurrency * 0 <= a
      BY <1>1, <2>1
    <2>3. q \in Nat /\ Concurrency * q <= a
      BY <1>1, <2>1, <2>2, LargestMultiple
    <2> HIDE DEF q
    <2> QED BY <1>1, <2>1, <2>3
  <1>3. r \in Int /\ Concurrency * r \in Int /\ Concurrency * r <= SourceHead - CurrentNum
    BY <1>1
  <1>4. LastFetched = CurrentNum + Concurrency * q /\ FetchableTo = CurrentNum + Concurrency * r
    BY DEF LastFetched, FetchableTo
  <1>5. Concurrency * q > SourceHead - CurrentNum
    BY <1>1, <1>2, <1>4
  <1> HIDE DEF q, r
  <1>6. ASSUME Concurrency * r >= BlockCount PROVE FALSE
    <2>1. r \in Nat
      <3>1. CASE r < 0
        <4>1. PICK d \in Nat : r = -1 - d
          BY <1>3, <3>1
        <4>2. Concurrency * r = -Concurrency - Concurrency * d /\ Concurrency * d \in Nat
          BY <1>1, <4>1
        <4> QED BY <1>1, <1>6, <4>2
      <3> QED BY <1>3, <3>1
    <2>2. Concurrency * q < Concurrency * r + Concurrency
      BY <1>1, <1>2, <1>3, <1>6
    <2>3. Concurrency * q <= Concurrency * r
      BY <1>1, <1>2, <2>1, <2>2, Multiples
    <2> QED BY <1>1, <1>2, <1>3, <1>5, <2>3
  <1> QED BY <1>1, <1>3, <1>4, <1>6 DEF endBlockNum

\* While a block is still to be fetched, not all have been added.
LEMMA FetchingIsEarly ==
  ASSUME PipelineAssumption, IInv, FetchedInv, InRange, NEW i \in Slots, results[i] = Nil
  PROVE  /\ remainingBlockCount >= 1
         /\ submitter = "add" => remainingBlockCount >= 2
  <1>1. /\ endBlockNum \in Nat /\ blockStartRange \in Nat /\ sent \in Nat
        /\ Len(incomingBlocks) \in Nat /\ Len(processBlocks) \in Nat
        /\ remainingBlockCount \in Nat /\ adding \in Nat
    BY DEF PipelineAssumption, endBlockNum, IInv, TypeOK, Slots
  <1>2. sent = 0
    BY <1>1 DEF FetchedInv
  <1>3. SubmitNext <= endBlockNum /\ SubmitNext \in Int
    BY <1>1, <1>2 DEF SubmitNext, Forwarded, MapperNext, LoaderNext, InRange
  <1> QED BY <1>1, <1>3 DEF IInv, SubmitInv, TypeOK

\* A process goes down over an engine, a strategy or a source that fails, a
\* divergence, a done context, or a block the source does not have.
LEMMA CrashHasCause ==
  ASSUME PipelineAssumption, BatchInv, [Next]_vars, crashed' # crashed
  PROVE  \/ cancelled
         \/ Faults \cap {"source", "strategy", "engine", "divergence"} # {}
         \/ LastFetched > SourceHead
  <1>1. CASE \E i \in Slots : FetchFails(i)
    <2>1. PICK i \in Slots : FetchFails(i)
      BY <1>1
    <2>2. blockStartRange + i <= LastFetched
      BY <2>1, FetchBound DEF FetchFails, Loading
    <2>3. blockStartRange \in Int /\ LastFetched \in Int /\ SourceHead \in Int /\ i \in Int
      BY DEF PipelineAssumption, BatchInv, startBlockNum, LastFetched, Slots
    <2> QED BY <2>1, <2>2, <2>3 DEF FetchFails
  <1>2. CASE MapPanics \/ AddBlockCrit \/ MonitorPanics
    BY <1>2 DEF MapPanics, AddBlockCrit, MonitorPanics
  <1>3. CASE ~(\E i \in Slots : FetchFails(i)) /\ ~MapPanics /\ ~AddBlockCrit /\ ~MonitorPanics
    BY <1>3 DEF Next, Loader, FetchBlock, SendBlock, CloseIncoming, Mapper,
       MapReceive, MapSend, MapClosed, MapCancelled, Submitter, SubmitReceive,
       SubmitStops, SubmitCancelled, AddBlockReturns, Cancel, Terminated, vars, processVars
  <1> QED BY <1>1, <1>2, <1>3

-----------------------------------------------------------------------------
(* The safety properties.                                                   *)

\* addBlock gets the source chain in order, whatever order the fetches of a
\* batch end in and however the three goroutines interleave.
THEOREM OrderedSubmission == ASSUME PipelineAssumption PROVE Spec => []SubmitsInOrder
  <1>1. IInv => SubmitsInOrder
    BY DEF PipelineAssumption, IInv, SubmitInv, SubmitsInOrder, TypeOK
  <1> QED
    BY <1>1, Invariance, PTL

\* An uncancelled submitter returns only with every block added.
THEOREM CompleteSubmission ==
  ASSUME PipelineAssumption PROVE Spec => []StopsWhenReplayed
  <1>1. IInv => StopsWhenReplayed
    BY DEF IInv, SubmitInv, StopsWhenReplayed
  <1> QED
    BY <1>1, Invariance, PTL

\* With at most two more fetched at once than processBlocks holds, what the
\* loader fetches past the end fits in processBlocks: the mapper, and with it
\* the loader, ends even though the submitter has gone.
THEOREM MapperEnds ==
  ASSUME PipelineAssumption, Concurrency <= ProcessCap + 2
  PROVE  Spec => []MapperNeverStuck
  <1>1. IInv => MapperNeverStuck
    <2> SUFFICES ASSUME IInv, submitter = "done", ~cancelled, mapper = "send"
                 PROVE  Len(processBlocks) < ProcessCap
      BY DEF MapperNeverStuck
    <2>1. /\ endBlockNum \in Nat /\ Concurrency \in Nat \ {0}
          /\ ProcessCap \in Nat \ {0}
      BY DEF PipelineAssumption, endBlockNum
    <2>2. SubmitNext = endBlockNum + 2
      BY DEF IInv, SubmitInv, ClosedInv
    <2>3. LoaderNext <= endBlockNum + Concurrency
      BY <2>1 DEF IInv, TypeOK, LoaderInv, LoaderNext, InRange, Slots
    <2>4. Len(incomingBlocks) \in Nat /\ Len(processBlocks) \in Nat
      BY DEF IInv, TypeOK
    <2>5. LoaderNext \in Nat
      BY DEF IInv, TypeOK, LoaderNext, Slots
    <2>6. SubmitNext = LoaderNext - Len(incomingBlocks) - 1 - Len(processBlocks)
      BY DEF SubmitNext, Forwarded, MapperNext
    <2> QED
      BY <2>1, <2>2, <2>3, <2>4, <2>5, <2>6
  <1> QED
    BY <1>1, Invariance, PTL
=============================================================================
