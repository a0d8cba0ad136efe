---------------------------- MODULE StoredStats ----------------------------
(***************************************************************************)
(* The recorder of block statistics (packages/stats): one goroutine        *)
(* appends to it, another writes the whole history to disk or to S3, and   *)
(* nothing synchronises the two. A block's statistics are its number.      *)
(*                                                                         *)
(* append makes the new length visible before it fills the element, so a   *)
(* concurrent reader can meet an Unwritten one. Elements before the last   *)
(* never change: reading the slice at once, when the encoder takes it, has *)
(* every outcome that reading it element by element has.                   *)
(***************************************************************************)
EXTENDS Integers, Sequences, SequencesExt

CONSTANTS
  CurrentNum,     \* number of the block the benchmark starts on
  StartBlock,     \* the configured benchmark start block, 0 when not set
  LastBlock,      \* the last block recorded
  StorageTypes,   \* the storages the configuration may name
  Attempts,       \* attempts of one Write (3 in the code)
  Faults          \* what the environment may do: Pipeline's FaultKinds

Unwritten == 0

\* What holds of the constants. Whoever gives them values assumes it.
StoredStatsAssumption ==
  /\ CurrentNum \in Nat
  /\ StartBlock \in {0, CurrentNum}
  /\ LastBlock \in Nat
  /\ StorageTypes \subseteq {"disk", "s3"} /\ StorageTypes # {}
  /\ Attempts \in Nat \ {0}

VARIABLES
  stats,             \* the slice of statistics, in the order recorded
  lastBlockWritten,
  storageType,
  stored,            \* the file or object: what it holds, and whether all of it
  writing, attempts, \* Write: where it is, and how many attempts have failed
  marshalled,        \* Write: the encoded statistics of this attempt
  cancelled,         \* the context passed to Write is done
  crashed            \* the process is gone

writeVars == <<writing, attempts, marshalled>>
processVars == <<cancelled, crashed>>
statsVars == <<stats, lastBlockWritten, storageType, stored, writeVars>>
vars == <<statsVars, processVars>>

\* NewStorage and NewStoredStats. Nothing is stored under a new name.
InitStats ==
  /\ stats = <<>>
  /\ lastBlockWritten = StartBlock
  /\ storageType \in StorageTypes
  /\ stored = [whole |-> TRUE, blocks |-> <<>>]
  /\ writing = "idle" /\ attempts = 0 /\ marshalled = <<>>

Init == InitStats /\ cancelled = FALSE /\ crashed = FALSE

-----------------------------------------------------------------------------
(* RecordBlockStats, in two steps.                                          *)

HalfRecorded(blocks) == blocks # <<>> /\ Last(blocks) = Unwritten

Recording == HalfRecorded(stats)

GrowStats ==
  /\ ~crashed
  /\ ~Recording
  /\ stats' = Append(stats, Unwritten)
  /\ UNCHANGED <<lastBlockWritten, storageType, stored, writeVars, processVars>>

FillStats(block) ==
  /\ ~crashed
  /\ Recording
  /\ stats' = [stats EXCEPT ![Len(stats)] = block]
  /\ UNCHANGED <<lastBlockWritten, storageType, stored, writeVars, processVars>>

-----------------------------------------------------------------------------
(* Write: attempts until one succeeds, then lastBlockWritten.               *)

BeginWrite ==
  /\ ~crashed
  /\ writing = "idle"
  /\ writing' = "attempt"
  /\ attempts' = 0
  /\ UNCHANGED <<marshalled, stats, lastBlockWritten, storageType, stored, processVars>>

\* A bug: an attempt encodes only what has not been written yet.
MarshalNewOnly ==
  /\ ~crashed
  /\ writing = "attempt"
  /\ ~cancelled
  /\ marshalled' = SelectSeq(stats, LAMBDA block : block > lastBlockWritten)
  /\ writing' = "put"
  /\ UNCHANGED <<attempts, stats, lastBlockWritten, storageType, stored, processVars>>

\* Each attempt encodes what is recorded by then.
Marshal ==
  /\ ~crashed
  /\ writing = "attempt"
  /\ ~cancelled
  /\ marshalled' = stats
  /\ writing' = "put"
  /\ UNCHANGED <<attempts, stats, lastBlockWritten, storageType, stored, processVars>>

\* No attempt is made on a cancelled context.
GiveUp ==
  /\ ~crashed
  /\ writing = "attempt"
  /\ cancelled
  /\ writing' = "mark"
  /\ UNCHANGED <<attempts, marshalled, stats, lastBlockWritten, storageType, stored,
                 processVars>>

\* os.WriteFile empties the file before it writes. It ignores the context.
TruncateFile ==
  /\ ~crashed
  /\ writing = "put"
  /\ storageType = "disk"
  /\ stored' = [whole |-> FALSE, blocks |-> <<>>]
  /\ writing' = "truncated"
  /\ UNCHANGED <<attempts, marshalled, stats, lastBlockWritten, storageType, processVars>>

StoreResults ==
  /\ ~crashed
  /\ \/ storageType = "disk" /\ writing = "truncated"
     \/ storageType = "s3" /\ writing = "put"
  /\ stored' = [whole |-> TRUE, blocks |-> marshalled]
  /\ writing' = "mark"
  /\ UNCHANGED <<attempts, marshalled, stats, lastBlockWritten, storageType, processVars>>

\* A bug: a failed attempt is not counted.
AttemptFailsUncounted ==
  /\ ~crashed
  /\ writing \in {"put", "truncated"}
  /\ "storage" \in Faults
  /\ writing' = "attempt"
  /\ UNCHANGED <<attempts, stored, marshalled, stats, lastBlockWritten, storageType,
                 processVars>>

\* A bug: one attempt too many.
AttemptFailsOnceMore ==
  /\ ~crashed
  /\ writing \in {"put", "truncated"}
  /\ "storage" \in Faults
  /\ attempts' = attempts + 1
  /\ writing' = IF attempts = Attempts THEN "mark" ELSE "attempt"
  /\ UNCHANGED <<stored, marshalled, stats, lastBlockWritten, storageType, processVars>>

\* Encoding, opening or writing fails, or S3 does, which may answer an error
\* for an object it has stored. The last attempt's error is only logged.
AttemptFails ==
  /\ ~crashed
  /\ writing \in {"put", "truncated"}
  /\ "storage" \in Faults \/ (storageType = "s3" /\ cancelled)
  /\ attempts' = attempts + 1
  /\ writing' = IF attempts' = Attempts THEN "mark" ELSE "attempt"
  /\ \/ UNCHANGED stored
     \/ storageType = "s3" /\ stored' = [whole |-> TRUE, blocks |-> marshalled]
  /\ UNCHANGED <<marshalled, stats, lastBlockWritten, storageType, processVars>>

\* A bug: what was written is dropped from the history.
MarkWrittenAndFlush ==
  /\ ~crashed
  /\ writing = "mark"
  /\ writing' = "idle"
  /\ lastBlockWritten' = IF stats = <<>> THEN lastBlockWritten ELSE Last(stats)
  /\ stats' = <<>>
  /\ UNCHANGED <<attempts, marshalled, storageType, stored, processVars>>

\* However the attempts ended, and whatever has been recorded since.
MarkWritten ==
  /\ ~crashed
  /\ writing = "mark"
  /\ writing' = "idle"
  /\ lastBlockWritten' = IF stats = <<>> THEN lastBlockWritten ELSE Last(stats)
  /\ UNCHANGED <<attempts, marshalled, stats, storageType, stored, processVars>>

\* What is read back: of a file cut short nothing can be decoded, which Read
\* logs and does not report.
Read == IF stored.whole THEN stored.blocks ELSE <<>>

WriteStep == \/ Marshal \/ GiveUp \/ TruncateFile \/ StoreResults \/ AttemptFails
             \/ MarkWritten

-----------------------------------------------------------------------------
(* The recorder alone: a submitter records one block after the other, a     *)
(* monitor writes whenever it likes, and the process may be interrupted or  *)
(* go down.                                                                 *)

Record == GrowStats /\ CurrentNum + Len(stats) < LastBlock

RecordEnds == FillStats(CurrentNum + Len(stats))

Cancel ==
  /\ ~crashed /\ ~cancelled
  /\ "interrupt" \in Faults
  /\ cancelled' = TRUE
  /\ UNCHANGED <<crashed, statsVars>>

\* Another goroutine panics, or log.Crit exits.
Crash ==
  /\ ~crashed
  /\ cancelled \/ Faults \cap {"source", "strategy", "engine", "divergence"} # {}
  /\ crashed' = TRUE
  /\ UNCHANGED <<cancelled, statsVars>>

Terminated == crashed /\ UNCHANGED vars

Next == \/ Record \/ RecordEnds \/ BeginWrite \/ WriteStep
        \/ Cancel \/ Crash \/ Terminated

\* A goroutine inside Write keeps being scheduled; a call to storage is taken to return.
Fairness == WF_vars(WriteStep)

Spec == Init /\ [][Next]_vars /\ Fairness

-----------------------------------------------------------------------------
(* Properties                                                               *)

\* The state's shape, with the bound on attempts.
TypeOK ==
  /\ stats \in Seq(Nat)
  /\ lastBlockWritten \in Nat
  /\ storageType \in StorageTypes
  /\ stored \in [whole : BOOLEAN, blocks : Seq(Nat)]
  /\ writing \in {"idle", "attempt", "put", "truncated", "mark"}
  /\ attempts \in 0 .. Attempts
  /\ marshalled \in Seq(Nat)
  /\ cancelled \in BOOLEAN
  /\ crashed \in BOOLEAN

\* The blocks of a history that begins on CurrentNum + 1: none is missing,
\* repeated or out of order, and only the last can be caught half recorded.
IsHistory(blocks) ==
  \A k \in 1 .. Len(blocks) :
    \/ blocks[k] = CurrentNum + k
    \/ k = Len(blocks) /\ blocks[k] = Unwritten

\* Whatever was stored last is read back as the history from its first block,
\* although the writer reads the slice while the submitter appends to it.
StoredIsHistory == IsHistory(Read) /\ Len(Read) <= Len(stats)

Recorded(blocks) == IF HalfRecorded(blocks) THEN Front(blocks) ELSE blocks

\* On S3 a block once stored stays stored through every later write, failed or
\* interrupted, and through a crash: a retry of an old attempt or a late answer
\* never takes the object back to a shorter history.
StoredOnlyGrows ==
  [][storageType = "s3" => IsPrefix(Recorded(stored.blocks), stored'.blocks)]_vars

\* Write returns, however storage and the context behave.
WriteReturns == writing # "idle" ~> (writing = "idle" \/ crashed)

\* What saving the progress is for: when the process goes down, what an earlier
\* Write has stored can still be read.
CrashKeepsProgress == crashed /\ lastBlockWritten > CurrentNum => stored.whole

\* A block that Write has reported as written can be found in storage.
LastWrittenIsStored ==
  writing = "idle" /\ lastBlockWritten > CurrentNum =>
    \E k \in DOMAIN Read : Read[k] = lastBlockWritten
=============================================================================
