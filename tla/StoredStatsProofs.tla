------------------------- MODULE StoredStatsProofs -------------------------
(***************************************************************************)
(* Proofs about StoredStats for any number of blocks and attempts, and     *)
(* whatever of the environment's faults happen.                            *)
(*                                                                         *)
(* What is stored was encoded earlier, from a slice that had been read in  *)
(* the middle of an append, perhaps: IInv says that of the three, the      *)
(* slice, its last encoding and the stored one, each is a history and the  *)
(* slice the longest; and that an encoding about to be put on S3 has no    *)
(* fewer recorded blocks than the object there.                            *)
(***************************************************************************)
EXTENDS StoredStats, SequenceTheorems, TLAPS

HistoryInv ==
  /\ IsHistory(stats)
  /\ IsHistory(marshalled) /\ Len(marshalled) <= Len(stats)
  /\ IsHistory(stored.blocks) /\ Len(stored.blocks) <= Len(stats)

\* Write is not in the middle of an attempt that it may not make, and empties
\* first only a file.
AttemptsInv ==
  /\ writing \in {"attempt", "put", "truncated"} => attempts < Attempts
  /\ writing = "truncated" => storageType = "disk"

RecordedLen(blocks) == Len(Recorded(blocks))

GrowsInv ==
  /\ RecordedLen(marshalled) <= RecordedLen(stats)
  /\ RecordedLen(stored.blocks) <= RecordedLen(stats)
  /\ storageType = "s3" /\ writing = "put" =>
       RecordedLen(stored.blocks) <= RecordedLen(marshalled)

IInv == TypeOK /\ HistoryInv /\ AttemptsInv /\ GrowsInv

-----------------------------------------------------------------------------
(* What the two steps of an append do to a history.                         *)

\* A history with nothing half recorded grows by an element not yet there.
LEMMA GrowHistory ==
  ASSUME NEW s \in Seq(Nat), IsHistory(s), s = <<>> \/ Last(s) # Unwritten
  PROVE  /\ Append(s, Unwritten) \in Seq(Nat)
         /\ Len(Append(s, Unwritten)) = Len(s) + 1
         /\ IsHistory(Append(s, Unwritten))
  <1> DEFINE t == Append(s, Unwritten)
  <1>1. t \in Seq(Nat) /\ Len(t) = Len(s) + 1 /\ t[Len(s) + 1] = Unwritten
    BY DEF Unwritten
  <1>2. ASSUME NEW k \in 1 .. Len(s) PROVE t[k] = CurrentNum + k
    <2>1. t[k] = s[k]
      OBVIOUS
    <2>2. k = Len(s) => s[k] # Unwritten
      BY DEF Last
    <2> QED BY <2>1, <2>2 DEF IsHistory
  <1> QED BY <1>1, <1>2 DEF IsHistory

\* Filling in the last element leaves a history of the same length.
LEMMA FillHistory ==
  ASSUME NEW s \in Seq(Nat), s # <<>>, IsHistory(s), CurrentNum \in Nat
  PROVE  LET t == [s EXCEPT ![Len(s)] = CurrentNum + Len(s)]
         IN  t \in Seq(Nat) /\ Len(t) = Len(s) /\ IsHistory(t)
  <1> DEFINE t == [s EXCEPT ![Len(s)] = CurrentNum + Len(s)]
  <1>1. t \in Seq(Nat) /\ Len(t) = Len(s)
    OBVIOUS
  <1>2. \A k \in 1 .. Len(s) :
          t[k] = IF k = Len(s) THEN CurrentNum + Len(s) ELSE s[k]
    OBVIOUS
  <1> QED BY <1>1, <1>2 DEF IsHistory

\* Of a history everything is recorded, or everything but the last.
LEMMA RecordedOfHistory ==
  ASSUME CurrentNum \in Nat, NEW s \in Seq(Nat), IsHistory(s)
  PROVE  /\ Recorded(s) \in Seq(Nat)
         /\ RecordedLen(s) = IF HalfRecorded(s) THEN Len(s) - 1 ELSE Len(s)
         /\ \A k \in 1 .. RecordedLen(s) : Recorded(s)[k] = s[k] /\ s[k] = CurrentNum + k
  <1> USE DEF RecordedLen, Recorded
  <1>1. CASE HalfRecorded(s)
    <2>0. PICK n \in Nat : Len(s) = n + 1
      <3>1. Len(s) \in Nat /\ Len(s) > 0
        BY <1>1 DEF HalfRecorded
      <3> QED BY <3>1
    <2>1. Front(s) = SubSeq(s, 1, n)
      BY <2>0 DEF Front
    <2>2. /\ Front(s) \in Seq(Nat) /\ Len(Front(s)) = n
          /\ \A k \in 1 .. n : Front(s)[k] = s[k]
      <3>1. \A k \in 1 .. n : s[k] \in Nat
        BY <2>0
      <3> QED BY <2>1, <3>1, SubSeqProperties
    <2>3. \A k \in 1 .. n : s[k] = CurrentNum + k
      BY <2>0 DEF IsHistory
    <2>4. Recorded(s) = Front(s) /\ Len(s) - 1 = n
      BY <1>1, <2>0
    <2> HIDE DEF Recorded
    <2> QED BY <1>1, <2>2, <2>3, <2>4
  <1>2. CASE ~HalfRecorded(s)
    <2>1. \A k \in 1 .. Len(s) : s[k] = CurrentNum + k
      <3>1. s = <<>> \/ s[Len(s)] # Unwritten
        BY <1>2 DEF HalfRecorded, Last
      <3> QED BY <3>1 DEF IsHistory
    <2> QED BY <1>2, <2>1
  <1> QED BY <1>1, <1>2

\* Of two histories the one with fewer recorded blocks begins the other.
LEMMA HistoryPrefix ==
  ASSUME CurrentNum \in Nat, NEW s \in Seq(Nat), NEW t \in Seq(Nat),
         IsHistory(s), IsHistory(t), RecordedLen(s) <= RecordedLen(t)
  PROVE  IsPrefix(Recorded(s), t)
  <1> DEFINE r == Recorded(s)
  <1>1. r \in Seq(Nat) /\ Len(r) = RecordedLen(s)
    BY RecordedOfHistory DEF RecordedLen
  <1>2. Len(r) <= Len(t)
    BY <1>1, RecordedOfHistory
  <1>3. \A k \in 1 .. Len(r) : r[k] = CurrentNum + k /\ t[k] = CurrentNum + k
    <2>1. \A k \in 1 .. Len(r) : r[k] = CurrentNum + k
      BY <1>1, RecordedOfHistory
    <2>2. RecordedLen(t) \in Nat /\ \A k \in 1 .. RecordedLen(t) : t[k] = CurrentNum + k
      BY RecordedOfHistory DEF RecordedLen
    <2> QED BY <1>1, <2>1, <2>2
  <1> HIDE DEF r
  <1>4. SubSeq(r, 1, Len(r)) = SubSeq(t, 1, Len(r))
    BY <1>1, <1>2, <1>3
  <1> QED BY <1>2, <1>4 DEF IsPrefix, r

-----------------------------------------------------------------------------
(* The invariant.                                                           *)

\* Three empty histories.
LEMMA InvInit == StoredStatsAssumption /\ InitStats
                   /\ cancelled \in BOOLEAN /\ crashed \in BOOLEAN => IInv
  <1> SUFFICES ASSUME StoredStatsAssumption, InitStats,
                      cancelled \in BOOLEAN, crashed \in BOOLEAN
               PROVE  IInv
    OBVIOUS
  <1> USE DEF StoredStatsAssumption, InitStats
  <1>1. attempts \in 0 .. Attempts /\ lastBlockWritten \in Nat
    OBVIOUS
  <1>2. <<>> \in Seq(Nat) /\ stored \in [whole : BOOLEAN, blocks : Seq(Nat)]
    OBVIOUS
  <1>3. TypeOK /\ AttemptsInv
    BY <1>1, <1>2 DEF TypeOK, AttemptsInv
  <1>4. HistoryInv
    BY DEF HistoryInv, IsHistory
  <1>5. GrowsInv
    BY DEF GrowsInv, RecordedLen, Recorded, HalfRecorded
  <1> QED BY <1>3, <1>4, <1>5 DEF IInv

\* An append only makes the slice longer, and never unrecords a block.
LEMMA RecordKeepsInv ==
  ASSUME StoredStatsAssumption, IInv, GrowStats \/ FillStats(CurrentNum + Len(stats))
  PROVE  /\ IInv'
         /\ RecordedLen(stats)' = RecordedLen(stats) + IF Recording THEN 1 ELSE 0
         /\ Recording' <=> ~Recording
  <1> USE DEF IInv, Recording, writeVars, processVars
  <1>0. CurrentNum \in Nat /\ stats \in Seq(Nat) /\ IsHistory(stats)
    BY DEF StoredStatsAssumption, TypeOK, HistoryInv
  <1>1. /\ stats' \in Seq(Nat) /\ IsHistory(stats')
        /\ Len(stats') = IF Recording THEN Len(stats) ELSE Len(stats) + 1
        /\ HalfRecorded(stats') <=> ~Recording
    <2>1. CASE GrowStats
      <3>1. /\ stats = <<>> \/ Last(stats) # Unwritten
            /\ stats' = Append(stats, Unwritten)
            /\ ~Recording
        BY <2>1 DEF GrowStats, HalfRecorded
      <3>2. /\ stats' \in Seq(Nat) /\ Len(stats') = Len(stats) + 1
            /\ IsHistory(stats')
        BY <1>0, <3>1, GrowHistory
      <3>3. HalfRecorded(stats')
        BY <1>0, <3>1 DEF HalfRecorded, Last
      <3> QED BY <3>1, <3>2, <3>3
    <2>2. CASE FillStats(CurrentNum + Len(stats))
      <3>1. /\ stats # <<>> /\ Recording
            /\ stats' = [stats EXCEPT ![Len(stats)] = CurrentNum + Len(stats)]
        BY <2>2 DEF FillStats, HalfRecorded
      <3>2. stats' \in Seq(Nat) /\ Len(stats') = Len(stats) /\ IsHistory(stats')
        BY <1>0, <3>1, FillHistory
      <3>3. ~HalfRecorded(stats')
        BY <1>0, <3>1 DEF HalfRecorded, Last, Unwritten
      <3> QED BY <3>1, <3>2, <3>3
    <2> QED BY <2>1, <2>2
  <1>2. UNCHANGED <<lastBlockWritten, storageType, stored, writeVars, processVars>>
    BY DEF GrowStats, FillStats
  <1>3. Len(marshalled) \in Nat /\ Len(stored.blocks) \in Nat /\ Len(stats) \in Nat
        /\ Len(stats') \in Nat /\ Len(stats') >= Len(stats)
    BY <1>1 DEF TypeOK
  <1>4. TypeOK' /\ AttemptsInv'
    BY <1>1, <1>2 DEF TypeOK, AttemptsInv
  <1>5. HistoryInv'
    BY <1>1, <1>2, <1>3 DEF HistoryInv, IsHistory
  <1>6. /\ RecordedLen(stats) = IF Recording THEN Len(stats) - 1 ELSE Len(stats)
        /\ RecordedLen(stats') = IF Recording THEN Len(stats') ELSE Len(stats') - 1
    BY <1>0, <1>1, RecordedOfHistory
  <1>7. RecordedLen(stats)' = RecordedLen(stats) + IF Recording THEN 1 ELSE 0
    BY <1>1, <1>3, <1>6 DEF RecordedLen, Recorded, HalfRecorded
  <1>8. GrowsInv'
    <2>1. /\ RecordedLen(marshalled)' = RecordedLen(marshalled)
          /\ RecordedLen(stored.blocks)' = RecordedLen(stored.blocks)
      BY <1>2 DEF RecordedLen, Recorded, HalfRecorded
    <2>2. RecordedLen(marshalled) \in Nat /\ RecordedLen(stored.blocks) \in Nat
      BY <1>0, RecordedOfHistory DEF TypeOK, HistoryInv, RecordedLen
    <2>3. RecordedLen(stats) \in Nat
      BY <1>0, RecordedOfHistory DEF RecordedLen
    <2> QED BY <1>2, <1>7, <2>1, <2>2, <2>3 DEF GrowsInv
  <1>9. Recording' <=> ~Recording
    BY <1>1 DEF HalfRecorded
  <1> QED BY <1>4, <1>5, <1>7, <1>8, <1>9

\* Every step of Write stores, if anything, nothing or what it has encoded; on
\* S3 only the latter.
LEMMA WriteKeepsInv ==
  ASSUME StoredStatsAssumption, IInv, BeginWrite \/ WriteStep
  PROVE  /\ IInv'
         /\ UNCHANGED <<stats, storageType, processVars>>
         /\ stored' # stored /\ storageType = "s3" =>
              writing = "put" /\ stored' = [whole |-> TRUE, blocks |-> marshalled]
  <1> USE DEF IInv, processVars
  <1> USE DEF BeginWrite, WriteStep, Marshal, GiveUp, TruncateFile, StoreResults,
      AttemptFails, MarkWritten
  <1>1. /\ UNCHANGED <<stats, storageType, processVars>>
        /\ marshalled' \in {marshalled, stats}
        /\ stored' \in {stored, [whole |-> FALSE, blocks |-> <<>>],
                        [whole |-> TRUE, blocks |-> marshalled]}
    OBVIOUS
  <1>2. /\ writing' \in {"idle", "attempt", "put", "truncated", "mark"}
        /\ attempts' \in 0 .. Attempts
        /\ AttemptsInv'
    <2>1. attempts \in 0 .. Attempts /\ Attempts \in Nat \ {0}
      BY DEF StoredStatsAssumption, TypeOK
    <2>2. CASE BeginWrite
      BY <2>1, <2>2 DEF AttemptsInv
    <2>3. CASE AttemptFails
      BY <2>1, <2>3 DEF AttemptsInv
    <2>4. CASE Marshal \/ GiveUp \/ TruncateFile \/ StoreResults \/ MarkWritten
      BY <2>1, <2>4 DEF AttemptsInv
    <2> QED BY <2>2, <2>3, <2>4
  <1>3. lastBlockWritten' \in Nat
    <2>1. stats # <<>> => Last(stats) \in Nat
      BY DEF TypeOK, Last
    <2> QED BY <2>1 DEF TypeOK
  <1>4. stored' \in [whole : BOOLEAN, blocks : Seq(Nat)] /\ marshalled' \in Seq(Nat)
    <2>1. <<>> \in Seq(Nat) /\ marshalled \in Seq(Nat) /\ stats \in Seq(Nat)
      BY DEF TypeOK
    <2>2. [whole |-> FALSE, blocks |-> <<>>] \in [whole : BOOLEAN, blocks : Seq(Nat)]
      BY <2>1
    <2>3. [whole |-> TRUE, blocks |-> marshalled] \in [whole : BOOLEAN, blocks : Seq(Nat)]
      BY <2>1
    <2>4. stored \in [whole : BOOLEAN, blocks : Seq(Nat)]
      BY DEF TypeOK
    <2>5. stored' \in [whole : BOOLEAN, blocks : Seq(Nat)]
      BY <1>1, <2>2, <2>3, <2>4
    <2>6. marshalled' \in Seq(Nat)
      BY <1>1, <2>1
    <2> QED BY <2>5, <2>6
  <1>5. TypeOK'
    BY <1>1, <1>2, <1>3, <1>4 DEF TypeOK
  <1>6. HistoryInv'
    <2>1. stored'.blocks \in {stored.blocks, <<>>, marshalled}
      BY <1>1
    <2>2. IsHistory(<<>>) /\ Len(<<>>) <= Len(stats)
      BY DEF IsHistory, TypeOK
    <2>3. Len(stats) <= Len(stats)
      BY DEF TypeOK
    <2> QED BY <1>1, <2>1, <2>2, <2>3 DEF HistoryInv, IsHistory
  <1>7. stored' # stored /\ storageType = "s3" =>
          writing = "put" /\ stored' = [whole |-> TRUE, blocks |-> marshalled]
    BY DEF AttemptsInv
  <1>8. GrowsInv'
    <2> USE DEF GrowsInv
    <2>1. /\ RecordedLen(marshalled) \in Nat /\ RecordedLen(stored.blocks) \in Nat
          /\ RecordedLen(stats) \in Nat
      BY RecordedOfHistory DEF StoredStatsAssumption, TypeOK, HistoryInv, RecordedLen
    <2>2. RecordedLen(<<>>) = 0
      BY DEF RecordedLen, Recorded, HalfRecorded
    <2>3. RecordedLen(stats)' = RecordedLen(stats)
      BY <1>1 DEF RecordedLen, Recorded, HalfRecorded
    <2>4. /\ RecordedLen(marshalled)' = RecordedLen(marshalled')
          /\ RecordedLen(stored.blocks)' = RecordedLen(stored'.blocks)
      BY DEF RecordedLen, Recorded, HalfRecorded
    <2>5. /\ RecordedLen(marshalled)' <= RecordedLen(stats)
          /\ RecordedLen(stored.blocks)' <= RecordedLen(stats)
      BY <1>1, <2>1, <2>2, <2>4
    <2>6. ASSUME storageType' = "s3", writing' = "put"
          PROVE  RecordedLen(stored.blocks)' <= RecordedLen(marshalled)'
      <3>1. Marshal
        BY <2>6
      <3>2. stored' = stored /\ marshalled' = stats
        BY <3>1
      <3> QED BY <2>4, <3>2
    <2> QED BY <2>3, <2>5, <2>6
  <1> HIDE DEF BeginWrite, WriteStep, Marshal, GiveUp, TruncateFile, StoreResults,
      AttemptFails, MarkWritten
  <1> QED BY <1>1, <1>2, <1>5, <1>6, <1>7, <1>8

\* What the rest of the process does, cancelling and crashing included.
LEMMA OthersKeepInv ==
  ASSUME IInv, UNCHANGED statsVars, cancelled' \in BOOLEAN, crashed' \in BOOLEAN
  PROVE  IInv'
BY DEF statsVars, writeVars, IInv, TypeOK, HistoryInv, IsHistory, AttemptsInv, GrowsInv,
   RecordedLen, Recorded, HalfRecorded

\* No step breaks the invariant.
LEMMA InvStep == StoredStatsAssumption /\ IInv /\ [Next]_vars => IInv'
  <1> SUFFICES ASSUME StoredStatsAssumption, IInv, [Next]_vars PROVE IInv'
    OBVIOUS
  <1>1. CASE Record \/ RecordEnds
    BY <1>1, RecordKeepsInv DEF Record, RecordEnds
  <1>2. CASE BeginWrite \/ WriteStep
    BY <1>2, WriteKeepsInv
  <1>3. CASE Cancel \/ Crash \/ Terminated \/ UNCHANGED vars
    <2>1. UNCHANGED statsVars /\ cancelled' \in BOOLEAN /\ crashed' \in BOOLEAN
      BY <1>3 DEF Cancel, Crash, Terminated, vars, processVars, IInv, TypeOK
    <2> QED BY <2>1, OthersKeepInv
  <1> QED BY <1>1, <1>2, <1>3 DEF Next

\* An object on S3 is only ever replaced by one that has its recorded blocks.
LEMMA GrowsStep ==
  ASSUME StoredStatsAssumption, IInv, storageType = "s3",
         stored' = stored \/ (writing = "put"
                               /\ stored' = [whole |-> TRUE, blocks |-> marshalled])
  PROVE  IsPrefix(Recorded(stored.blocks), stored'.blocks)
  <1> USE DEF IInv
  <1>1. /\ CurrentNum \in Nat
        /\ stored.blocks \in Seq(Nat) /\ IsHistory(stored.blocks)
        /\ marshalled \in Seq(Nat) /\ IsHistory(marshalled)
    BY DEF StoredStatsAssumption, TypeOK, HistoryInv
  <1>2. RecordedLen(stored.blocks) <= RecordedLen(stored.blocks)
    BY <1>1, RecordedOfHistory DEF RecordedLen
  <1>3. CASE stored' = stored
    BY <1>1, <1>2, <1>3, HistoryPrefix
  <1>4. CASE writing = "put" /\ stored' = [whole |-> TRUE, blocks |-> marshalled]
    <2>1. RecordedLen(stored.blocks) <= RecordedLen(marshalled)
      BY <1>4 DEF GrowsInv
    <2> QED BY <1>1, <1>4, <2>1, HistoryPrefix
  <1> QED BY <1>3, <1>4

-----------------------------------------------------------------------------
(* Theorems                                                                 *)

\* The invariant holds throughout.
LEMMA Invariant == ASSUME StoredStatsAssumption PROVE Spec => []IInv
  <1>1. Init => IInv
    BY InvInit DEF Init
  <1>2. IInv /\ [Next]_vars => IInv'
    BY InvStep
  <1> QED BY <1>1, <1>2, PTL DEF Spec

\* The state keeps its shape; Write makes no more attempts than it may.
THEOREM TypeCorrect == ASSUME StoredStatsAssumption PROVE Spec => []TypeOK
  <1>1. IInv => TypeOK
    BY DEF IInv
  <1> QED BY Invariant, <1>1, PTL

\* However recording, writing, failed attempts, cancellation and crashes
\* interleave, what can be read back is the history from its first block on,
\* with at most its last block half recorded (storage.go, disk.go, s3.go).
THEOREM StoredHistory == ASSUME StoredStatsAssumption PROVE Spec => []StoredIsHistory
  <1>1. IInv => StoredIsHistory
    BY DEF IInv, TypeOK, HistoryInv, StoredIsHistory, Read, IsHistory
  <1> QED BY Invariant, <1>1, PTL

\* On S3 no write, whether it succeeds, fails, answers an error for what it has
\* stored or is retried after more has been recorded, takes back a block that
\* the object already has (s3.go, storage.go).
THEOREM StorageGrows == ASSUME StoredStatsAssumption PROVE Spec => StoredOnlyGrows
  <1> DEFINE Grows == storageType = "s3" => IsPrefix(Recorded(stored.blocks), stored'.blocks)
  <1>1. IInv /\ [Next]_vars => Grows
    <2> SUFFICES ASSUME IInv, [Next]_vars, storageType = "s3"
                 PROVE  IsPrefix(Recorded(stored.blocks), stored'.blocks)
      OBVIOUS
    <2>1. stored' = stored \/ (writing = "put"
                               /\ stored' = [whole |-> TRUE, blocks |-> marshalled])
      <3>1. CASE BeginWrite \/ WriteStep
        BY <3>1, WriteKeepsInv
      <3>2. CASE ~(BeginWrite \/ WriteStep)
        BY <3>2 DEF Next, Record, GrowStats, RecordEnds, FillStats, Cancel, Crash,
           Terminated, vars, statsVars
      <3> QED BY <3>1, <3>2
    <2> QED BY <2>1, GrowsStep
  <1> QED BY Invariant, <1>1, PTL DEF Spec, StoredOnlyGrows
=============================================================================
