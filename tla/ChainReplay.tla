---------------------------- MODULE ChainReplay ----------------------------
(***************************************************************************)
(* What a benchmark promises, whatever its goroutines do: it extends the   *)
(* destination's chain one block at a time, never beyond the last block to *)
(* replay; a block is recorded before the next one is added; what has been *)
(* recorded is published, and publications are never taken back.           *)
(* It may stop at any point. The three numbers are block numbers.          *)
(***************************************************************************)
EXTENDS Integers

CONSTANTS First, Final   \* the block replay starts on, and the last to replay

VARIABLES replayed, recorded, published

vars == <<replayed, recorded, published>>

Init == replayed = First /\ recorded = First /\ published = First

Extend ==
  /\ replayed < Final
  /\ recorded = replayed
  /\ replayed' = replayed + 1
  /\ UNCHANGED <<recorded, published>>

Record ==
  /\ recorded < replayed
  /\ recorded' = recorded + 1
  /\ UNCHANGED <<replayed, published>>

Publish ==
  /\ published < recorded
  /\ published' \in (published + 1) .. recorded
  /\ UNCHANGED <<replayed, recorded>>

Next == Extend \/ Record \/ Publish

Spec == Init /\ [][Next]_vars
=============================================================================
