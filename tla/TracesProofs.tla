--------------------------- MODULE TracesProofs ---------------------------
(***************************************************************************)
(* Proofs about Traces for every block, every trace of an EVM and every    *)
(* storage.                                                                *)
(*                                                                         *)
(* traceReceipt sees of an instruction only its log and the next one. The  *)
(* invariant follows the EVM: while a log has no successor yet, ChargeInv  *)
(* says what its charge would be if the next instruction were logged now,  *)
(* so that it is right once there is one. Nothing wraps because what the   *)
(* frames still hold bounds what can be charged.                           *)
(***************************************************************************)
EXTENDS Traces, SequenceTheorems, FiniteSetTheorems, TLAPS

Frame == [left : 0 .. GasLimit, refund : Nat]
LogEntry == [op : OpNames, gas : Nat, cost : Nat, refund : Nat, depth : Nat]
OpCodeStats == [count : Nat, gas : 0 .. MaxUint64]

Tracing == phase \in {"running", "trace", "logs"}

TraceTypeOK ==
  /\ phase \in {"transaction", "running", "trace", "logs", "storage", "done", "uncounted"}
  /\ receipt \in 0 .. Receipts /\ (Tracing => receipt < Receipts)
  /\ frames \in Seq(Frame) /\ refund \in Nat
  /\ logs \in Seq(LogEntry) /\ Len(logs) <= MaxLogs
  /\ left \in Seq(0 .. GasLimit) /\ Len(left) = Len(logs)
  /\ idx \in 0 .. Len(logs) /\ gasRefund \in Nat
  /\ opCodes \in [AllNames -> OpCodeStats]
  /\ trueGas \in [AllNames -> Nat]
  /\ inexact \subseteq AllNames

\* Between two transactions nothing is remembered but the statistics.
IdleInv ==
  /\ ~Tracing => frames = <<>> /\ refund = 0 /\ logs = <<>> /\ left = <<>>
  /\ phase # "logs" => idx = 0 /\ gasRefund = 0

\* The frames share what the transaction has left, and every refund has been
\* paid for.
FrameInv ==
  Tracing =>
    /\ Depth \in 1 .. MaxDepth
    /\ phase # "running" \/ logs = <<>> => Depth = 1
    /\ \A d \in 1 .. Depth - 1 : frames[d].left <= frames[d + 1].left
    /\ \A d \in 1 .. Depth : frames[d].refund + AllLeft <= GasLimit
    /\ refund + AllLeft <= GasLimit
    /\ AllLeft = LeftAfter(Len(logs))

\* The charge of an instruction when the next one has that gas and depth.
Charge(log, gas, depth) ==
  IF log.depth < depth THEN log.cost - gas
  ELSE IF log.depth = depth THEN log.gas - gas
  ELSE log.cost

LogInv ==
  /\ logs # <<>> => logs[1].gas = GasLimit - Intrinsic
  /\ \A i \in 1 .. Len(logs) : LeftAfter(i) <= LeftAfter(i - 1)

ChargeInv ==
  /\ \A i \in 1 .. Len(logs) - 1 :
       logs[i].op \notin inexact => Own(i) = Charge(logs[i], logs[i + 1].gas, logs[i + 1].depth)
  /\ logs # <<>> /\ logs[Len(logs)].op \notin inexact =>
       Own(Len(logs)) = IF phase = "running" THEN Charge(logs[Len(logs)], GasLeft, Depth)
                                             ELSE logs[Len(logs)].cost

\* The last log shows the refund counter.
RefundInv ==
  /\ logs = <<>> => refund = 0
  /\ phase \in {"trace", "logs"} /\ logs # <<>> /\ "REFUND" \notin inexact =>
       refund = logs[Len(logs)].refund
  /\ gasRefund = IF idx = 0 THEN 0 ELSE logs[idx].refund

\* The gas of the receipts handled so far, and of the logs of this one.
GasHandled(op) ==
  receipt * GasLimit +
    IF phase = "logs" /\ op # "REFUND" THEN GasLimit - LeftAfter(idx) ELSE 0

GasInv ==
  /\ OpGasExact
  /\ phase = "transaction" \/ Tracing =>
       \A o \in AllNames \ inexact : trueGas[o] <= GasHandled(o)

\* The merged trace has every change of every transaction, but that of accounts
\* that destroyed themselves it has only part, and more of their slots than
\* changed.
DiffInv ==
  /\ storage \in [Locations -> Values]
  /\ trueLocations \subseteq Locations
  /\ pre.slots \subseteq Locations /\ post.slots \subseteq Locations
  /\ trueLocations \ SlotsOf(destroyed) \subseteq pre.slots \union post.slots
  /\ pre.slots \union post.slots \subseteq trueLocations \union SlotsOf(destroyed)
  /\ trueAccounts \subseteq Accounts /\ destroyed \subseteq Accounts
  /\ trueAccounts \ destroyed \subseteq post.accounts /\ post.accounts \subseteq trueAccounts
  /\ AccountsOf(pre.slots) \subseteq pre.accounts
  /\ AccountsOf(post.slots) \subseteq post.accounts

CountInv == SlotsExact /\ TriesExact

IInv == /\ TraceTypeOK /\ IdleInv /\ FrameInv /\ LogInv /\ ChargeInv /\ RefundInv
        /\ GasInv /\ DiffInv /\ CountInv

-----------------------------------------------------------------------------
(* Arithmetic.                                                              *)

\* The constants are numbers.
LEMMA Constants ==
  /\ GasLimit \in Nat /\ GasLimit >= 1 /\ Receipts \in Nat /\ MaxUint64 \in Nat
  /\ MaxLogs \in Nat /\ MaxDepth \in Nat /\ MaxDepth >= 1
  /\ Intrinsic = 1 /\ OwnCost = 1
BY TracesAssumption DEF Intrinsic, OwnCost

\* What all transactions together can use fits into an unsigned integer.
LEMMA Total ==
  ASSUME NEW r \in Nat, r < Receipts
  PROVE  /\ r * GasLimit \in Nat
         /\ (r + 1) * GasLimit = r * GasLimit + GasLimit
         /\ r * GasLimit + GasLimit <= MaxUint64
  <1>1. (r + 1) * GasLimit = r * GasLimit + GasLimit /\ r * GasLimit \in Nat
    BY Constants
  <1>2. \A k \in Nat : (r + 1 + k) * GasLimit = (r + 1) * GasLimit + k * GasLimit
                     /\ k * GasLimit \in Nat
    BY Constants
  <1>3. PICK k \in Nat : Receipts = r + 1 + k
    <2>1. Receipts - (r + 1) \in Nat /\ Receipts = r + 1 + (Receipts - (r + 1))
      BY Constants
    <2> QED BY <2>1
  <1>4. (r + 1) * GasLimit <= Receipts * GasLimit
    BY <1>1, <1>2, <1>3, Constants
  <1>5. Receipts * GasLimit <= MaxUint64
    BY TracesAssumption
  <1> QED BY <1>1, <1>4, <1>5, Constants

\* Unsigned numbers do not change.
LEMMA WrapIs ==
  /\ \A n \in Int : Wrap(n) \in 0 .. MaxUint64
  /\ \A n \in 0 .. MaxUint64 : Wrap(n) = n
BY Constants DEF Wrap

\* The innermost frame's own gas is part of what is left.
LEMMA GasLeftHere ==
  ASSUME IInv, Tracing
  PROVE  /\ Depth \in 1 .. MaxDepth /\ AllLeft \in 0 .. GasLimit
         /\ GasLeft \in 0 .. AllLeft
         /\ Depth = 1 => GasLeft = AllLeft
         /\ Depth > 1 => /\ frames[Depth - 1] \in Frame
                         /\ frames[Depth - 1].left = AllLeft - GasLeft
         /\ frames[Depth] \in Frame
  <1>1. Depth \in 1 .. MaxDepth /\ Depth = Len(frames)
    BY DEF IInv, FrameInv, Depth
  <1>2. frames[Depth] \in Frame /\ (Depth > 1 => frames[Depth - 1] \in Frame)
    BY <1>1, Constants DEF IInv, TraceTypeOK
  <1>3. AllLeft \in 0 .. GasLimit
    BY <1>2 DEF AllLeft, Frame
  <1>4. CASE Depth = 1
    BY <1>1, <1>2, <1>3, <1>4, Constants DEF GasLeft
  <1>5. CASE Depth > 1
    <2>1. frames[Depth - 1].left <= frames[Depth].left
      BY <1>1, <1>5, Constants DEF IInv, FrameInv
    <2>2. frames[Depth - 1].left \in 0 .. GasLimit
      BY <1>2, <1>5 DEF Frame
    <2>3. AllLeft = frames[Depth].left /\ GasLeft = AllLeft - frames[Depth - 1].left
      BY <1>5 DEF GasLeft, AllLeft
    <2>4. GasLeft \in 0 .. AllLeft /\ frames[Depth - 1].left = AllLeft - GasLeft
      <3>1. frames[Depth - 1].left \in Nat /\ AllLeft \in Nat
        BY <1>3, <2>2, Constants
      <3> QED BY <2>1, <2>3, <3>1
    <2> QED BY <1>1, <1>2, <1>3, <1>5, <2>4
  <1> QED BY <1>1, <1>4, <1>5, Constants

\* What the invariant says of each frame.
LEMMA FramesHere ==
  ASSUME IInv, Tracing
  PROVE  /\ frames \in Seq(Frame) /\ Depth = Len(frames) /\ AllLeft = frames[Depth].left
         /\ \A d \in 1 .. Depth :
              /\ frames[d] \in Frame
              /\ frames[d].left \in 0 .. GasLimit /\ frames[d].refund \in Nat
              /\ frames[d].refund + AllLeft <= GasLimit
         /\ \A d \in 1 .. Depth - 1 : frames[d].left <= frames[d + 1].left
         /\ refund \in Nat /\ refund + AllLeft <= GasLimit
  <1>1. frames \in Seq(Frame) /\ Depth = Len(frames) /\ refund \in Nat
    BY DEF IInv, TraceTypeOK, Depth
  <1>2. \A d \in 1 .. Depth : frames[d] \in Frame
    BY <1>1
  <1> QED BY <1>1, <1>2 DEF IInv, FrameInv, AllLeft, Frame

\* What is left after a log, and what the log has used.
LEMMA LeftType ==
  ASSUME IInv
  PROVE  /\ \A i \in 0 .. Len(logs) : LeftAfter(i) \in 0 .. GasLimit
         /\ \A i \in 1 .. Len(logs) : Own(i) \in 0 .. GasLimit
  <1>1. \A i \in 0 .. Len(logs) : LeftAfter(i) \in 0 .. GasLimit
    <2> SUFFICES ASSUME NEW i \in 0 .. Len(logs) PROVE LeftAfter(i) \in 0 .. GasLimit
      OBVIOUS
    <2>1. left \in Seq(0 .. GasLimit) /\ Len(left) = Len(logs)
      BY DEF IInv, TraceTypeOK
    <2>2. i # 0 => i \in 1 .. Len(left)
      BY <2>1, Constants
    <2>3. i # 0 => left[i] \in 0 .. GasLimit
      BY <2>1, <2>2, ElementOfSeq
    <2> QED BY <2>3, Constants DEF LeftAfter
  <1>2. ASSUME NEW i \in 1 .. Len(logs) PROVE Own(i) \in 0 .. GasLimit
    <2>1. Len(logs) \in Nat
      BY DEF IInv, TraceTypeOK
    <2>2. i - 1 \in 0 .. Len(logs) /\ i \in 0 .. Len(logs)
      BY <2>1
    <2>3. LeftAfter(i) <= LeftAfter(i - 1)
      BY DEF IInv, LogInv
    <2> QED BY <1>1, <2>2, <2>3, Constants DEF Own
  <1> QED BY <1>1, <1>2

\* A frame with something else left.
LEMMA WithLeft ==
  ASSUME NEW frame \in Frame, NEW n \in 0 .. GasLimit
  PROVE  /\ [frame EXCEPT !.left = n] \in Frame
         /\ [frame EXCEPT !.left = n].left = n
         /\ [frame EXCEPT !.left = n].refund = frame.refund
BY DEF Frame

\* The frames with another one in a place.
LEMMA WithFrame ==
  ASSUME NEW s \in Seq(Frame), NEW d \in 1 .. Len(s), NEW frame \in Frame
  PROVE  /\ [s EXCEPT ![d] = frame] \in Seq(Frame)
         /\ Len([s EXCEPT ![d] = frame]) = Len(s)
         /\ [s EXCEPT ![d] = frame][d] = frame
BY ExceptSeq

-----------------------------------------------------------------------------
(* The EVM's instructions.                                                  *)

\* The next log settles what the last one is charged with.
LEMMA ExecuteKeepsInv ==
  ASSUME IInv, Executing,
         NEW op \in OpNames, NEW cost \in Nat, NEW remaining \in Nat, remaining <= AllLeft,
         Execute(op, cost, remaining),
         inexact \subseteq inexact', inexact' \subseteq AllNames,
         refund' \in Nat, refund' + remaining <= GasLimit,
         frames' \in Seq(Frame), Depth' \in 1 .. MaxDepth, AllLeft' = remaining,
         \A d \in 1 .. Depth' - 1 : frames'[d].left <= frames'[d + 1].left,
         \A d \in 1 .. Depth' : frames'[d].refund + remaining <= GasLimit,
         phase' \in {"running", "trace"}, phase' = "trace" => Depth' = 1,
         phase' = "trace" /\ "REFUND" \notin inexact' => refund' = refund,
         op \notin inexact' =>
           AllLeft - remaining =
             IF phase' = "running"
             THEN Charge([op |-> op, gas |-> GasLeft, cost |-> cost, refund |-> refund,
                          depth |-> Depth], GasLeft', Depth')
             ELSE cost
  PROVE  IInv'
  <1> DEFINE entry == [op |-> op, gas |-> GasLeft, cost |-> cost, refund |-> refund,
                       depth |-> Depth]
  <1>0. PICK n \in Nat : n = Len(logs)
    BY DEF IInv, TraceTypeOK
  <1>1. /\ phase = "running" /\ Tracing /\ Tracing' /\ n < MaxLogs
        /\ logs' = Append(logs, entry) /\ left' = Append(left, remaining)
        /\ UNCHANGED <<options, receipt, opCodeVars, diffVars>>
    BY <1>0 DEF Executing, Execute, Tracing, IInv, TraceTypeOK
  <1>2. /\ Depth \in 1 .. MaxDepth /\ AllLeft \in 0 .. GasLimit /\ GasLeft \in 0 .. AllLeft
        /\ AllLeft = LeftAfter(n) /\ refund \in Nat
    BY <1>0, <1>1, GasLeftHere DEF IInv, FrameInv, TraceTypeOK
  <1>3. entry \in LogEntry /\ remaining \in 0 .. GasLimit
    BY <1>2, Constants DEF LogEntry
  <1>4. /\ logs' \in Seq(LogEntry) /\ left' \in Seq(0 .. GasLimit)
        /\ Len(logs') = n + 1 /\ Len(left') = n + 1
        /\ logs'[n + 1] = entry /\ left'[n + 1] = remaining
        /\ \A i \in 1 .. n : logs'[i] = logs[i] /\ left'[i] = left[i]
    BY <1>0, <1>1, <1>3 DEF IInv, TraceTypeOK
  <1>5. /\ LeftAfter(n + 1)' = remaining
        /\ \A i \in 0 .. n : LeftAfter(i)' = LeftAfter(i)
    BY <1>4 DEF LeftAfter
  <1>6. TraceTypeOK'
    <2>1. idx' \in 0 .. Len(logs') /\ gasRefund' \in Nat
      BY <1>0, <1>1, <1>4 DEF IInv, TraceTypeOK, opCodeVars
    <2>2. Len(logs') <= MaxLogs
      BY <1>1, <1>4, Constants
    <2> QED BY <1>1, <1>4, <2>1, <2>2 DEF IInv, TraceTypeOK, Tracing, opCodeVars
  <1>7. IdleInv'
    BY <1>1 DEF IInv, IdleInv, opCodeVars
  <1>8. FrameInv'
    <2>1. AllLeft' = LeftAfter(Len(logs))'
      BY <1>4, <1>5 DEF LeftAfter
    <2>2. logs' # <<>>
      BY <1>4
    <2>3. phase' # "running" \/ logs' = <<>> => Depth' = 1
      BY <2>2
    <2>4. \A d \in 1 .. Depth' : frames'[d].refund + AllLeft' <= GasLimit
      OBVIOUS
    <2> QED BY <2>1, <2>3, <2>4 DEF FrameInv
  <1>9. LogInv'
    <2>1. logs'[1].gas = GasLimit - Intrinsic
      <3>1. CASE n = 0
        <4>1. logs = <<>>
          <5>1. logs \in Seq(LogEntry) /\ Len(logs) = 0
            BY <1>0, <3>1 DEF IInv, TraceTypeOK
          <5> QED BY <5>1
        <4>2. Depth = 1
          BY <1>1, <4>1 DEF IInv, FrameInv
        <4>3. GasLeft = GasLimit - Intrinsic
          BY <1>1, <1>2, <3>1, <4>2, GasLeftHere DEF LeftAfter
        <4> QED BY <1>4, <3>1, <4>3
      <3>2. CASE n # 0
        BY <1>0, <1>1, <1>4, <3>2 DEF IInv, LogInv
      <3> QED BY <3>1, <3>2
    <2>2. \A i \in 1 .. n + 1 : LeftAfter(i)' <= LeftAfter(i - 1)'
      <3> SUFFICES ASSUME NEW i \in 1 .. n + 1 PROVE LeftAfter(i)' <= LeftAfter(i - 1)'
        OBVIOUS
      <3>1. LeftAfter(i - 1)' = LeftAfter(i - 1)
        BY <1>1, <1>5
      <3>2. CASE i = n + 1
        BY <1>1, <1>2, <1>5, <3>1, <3>2
      <3>3. CASE i \in 1 .. n
        BY <1>0, <1>1, <1>5, <3>1, <3>3 DEF IInv, LogInv
      <3> QED BY <1>1, <3>2, <3>3
    <2> QED BY <1>4, <2>1, <2>2 DEF LogInv
  <1>10. ChargeInv'
    <2>1. \A i \in 1 .. n : Own(i)' = Own(i)
      <3> SUFFICES ASSUME NEW i \in 1 .. n PROVE Own(i)' = Own(i)
        OBVIOUS
      <3>1. i \in 0 .. n /\ i - 1 \in 0 .. n
        OBVIOUS
      <3>2. LeftAfter(i)' = LeftAfter(i) /\ LeftAfter(i - 1)' = LeftAfter(i - 1)
        BY <1>5, <3>1
      <3> QED BY <3>2 DEF Own
    <2>2. Own(n + 1)' = AllLeft - remaining
      BY <1>1, <1>2, <1>5 DEF Own
    <2>3. ASSUME NEW i \in 1 .. n, logs'[i].op \notin inexact'
          PROVE  Own(i)' = Charge(logs'[i], logs'[i + 1].gas, logs'[i + 1].depth)
      <3>1. CASE i = n
        <4>1. Own(n) = Charge(logs[n], GasLeft, Depth)
          BY <1>0, <1>1, <1>4, <2>3, <3>1 DEF IInv, ChargeInv
        <4>2. logs'[i + 1].gas = GasLeft /\ logs'[i + 1].depth = Depth
          BY <1>4, <3>1
        <4> QED BY <1>4, <2>1, <3>1, <4>1, <4>2
      <3>2. CASE i \in 1 .. n - 1
        <4>1. i + 1 \in 1 .. n /\ logs'[i + 1] = logs[i + 1] /\ logs'[i] = logs[i]
          BY <1>1, <1>4, <3>2
        <4>2. Own(i) = Charge(logs[i], logs[i + 1].gas, logs[i + 1].depth)
          BY <1>0, <2>3, <3>2, <4>1 DEF IInv, ChargeInv
        <4> QED BY <2>1, <4>1, <4>2
      <3> QED BY <3>1, <3>2
    <2>4. ASSUME logs'[n + 1].op \notin inexact'
          PROVE  Own(n + 1)' = IF phase' = "running"
                               THEN Charge(logs'[n + 1], GasLeft', Depth')
                               ELSE logs'[n + 1].cost
      <3>1. op \notin inexact'
        BY <1>4, <2>4
      <3> QED BY <1>4, <2>2, <3>1
    <2>5. Len(logs') = n + 1 /\ Len(logs') - 1 = n
      BY <1>1, <1>4
    <2> QED BY <2>3, <2>4, <2>5 DEF ChargeInv, Charge
  <1>11. RefundInv'
    <2>1. logs' # <<>> /\ idx' = 0 /\ gasRefund' = 0
      BY <1>1, <1>4 DEF IInv, IdleInv, opCodeVars
    <2>2. logs'[Len(logs')].refund = refund
      BY <1>4
    <2> QED BY <2>1, <2>2 DEF RefundInv
  <1>12. GasInv'
    BY <1>1 DEF IInv, GasInv, OpGasExact, GasHandled, opCodeVars, Tracing
  <1>13. DiffInv' /\ CountInv'
    BY <1>1 DEF IInv, DiffInv, diffVars, mergedVars, CountInv, SlotsExact, TriesExact, Counted
  <1> QED BY <1>6, <1>7, <1>8, <1>9, <1>10, <1>11, <1>12, <1>13 DEF IInv

\* An instruction at the depth of the last one, paid for there.
LEMMA SpendKeepsInv ==
  ASSUME IInv, Executing,
         NEW op \in OpNames, NEW cost \in Nat, NEW gas \in Nat, gas <= GasLeft,
         Execute(op, cost, AllLeft - gas), Spend(gas),
         refund' \in Nat, refund' <= refund + gas,
         UNCHANGED <<phase, inexact>>
  PROVE  IInv'
  <1>1. phase = "running" /\ Tracing /\ inexact \subseteq AllNames /\ refund \in Nat
    BY DEF Executing, Tracing, IInv, TraceTypeOK
  <1> DEFINE remaining == AllLeft - gas
  <1>2. /\ Depth \in 1 .. MaxDepth /\ AllLeft \in 0 .. GasLimit /\ GasLeft \in 0 .. AllLeft
        /\ frames[Depth] \in Frame /\ frames \in Seq(Frame)
        /\ remaining \in Nat /\ remaining <= AllLeft
        /\ AllLeft = frames[Depth].left /\ Depth = Len(frames)
    <2>1. /\ Depth \in 1 .. MaxDepth /\ AllLeft \in 0 .. GasLimit /\ GasLeft \in 0 .. AllLeft
          /\ frames[Depth] \in Frame
      BY <1>1, GasLeftHere
    <2>2. frames \in Seq(Frame) /\ AllLeft = frames[Depth].left /\ Depth = Len(frames)
      BY <1>1, FramesHere
    <2>3. remaining \in Nat /\ remaining <= AllLeft
      <3> HIDE DEF remaining
      <3>1. AllLeft \in Nat /\ GasLeft \in Nat /\ GasLeft <= AllLeft /\ gas <= GasLeft
        BY <2>1, Constants
      <3> QED BY <3>1 DEF remaining
    <2> QED BY <2>1, <2>2, <2>3
  <1> DEFINE frame == [frames[Depth] EXCEPT !.left = remaining]
  <1>3. /\ frames' = [frames EXCEPT ![Depth] = frame]
        /\ frame \in Frame /\ frame.left = remaining /\ frame.refund = frames[Depth].refund
    <2>1. frames' = [frames EXCEPT ![Depth] = frame]
      BY <1>2 DEF Spend
    <2>2. remaining \in 0 .. GasLimit
      BY <1>2, Constants
    <2> QED BY <1>2, <2>1, <2>2, WithLeft
  <1>4. /\ frames' \in Seq(Frame) /\ Len(frames') = Len(frames)
        /\ frames'[Depth].left = remaining /\ frames'[Depth].refund = frames[Depth].refund
        /\ \A d \in 1 .. Depth - 1 : frames'[d] = frames[d]
    <2> HIDE DEF frame, remaining
    <2> QED BY <1>2, <1>3, Constants
  <1>5. Depth' = Depth /\ AllLeft' = remaining
    BY <1>4 DEF Depth, AllLeft
  <1>6. GasLeft' = GasLeft - gas
    <2>1. CASE Depth = 1
      BY <1>2, <1>5, <2>1 DEF GasLeft
    <2>2. CASE Depth # 1
      <3>1. Depth - 1 \in 1 .. Depth - 1 /\ frames[Depth - 1] \in Frame
        BY <1>2, <2>2, Constants
      <3>2. frames'[Depth - 1].left = frames[Depth - 1].left /\ frames[Depth - 1].left \in Nat
        BY <1>4, <3>1 DEF Frame
      <3>3. GasLeft = AllLeft - frames[Depth - 1].left
        BY <2>2 DEF GasLeft
      <3>4. GasLeft' = remaining - frames[Depth - 1].left
        <4>1. GasLeft' = AllLeft' - frames'[Depth - 1].left
          BY <1>5, <2>2 DEF GasLeft
        <4> QED BY <1>5, <3>2, <4>1
      <3>5. AllLeft \in Nat /\ frames[Depth - 1].left \in Nat
        BY <1>2, <3>2
      <3> QED BY <3>3, <3>4, <3>5
    <2> QED BY <2>1, <2>2
  <1>7. \A d \in 1 .. Depth' - 1 : frames'[d].left <= frames'[d + 1].left
    <2> SUFFICES ASSUME NEW d \in 1 .. Depth - 1 PROVE frames'[d].left <= frames'[d + 1].left
      BY <1>5
    <2>1. CASE d = Depth - 1
      <3>1. frames'[d].left = frames[Depth - 1].left /\ frames[Depth - 1] \in Frame
        <4>1. Depth - 1 \in 1 .. Depth
          BY <1>2, <2>1, Constants
        <4>2. frames[Depth - 1] \in Frame
          BY <1>1, <4>1, FramesHere
        <4> QED BY <1>4, <2>1, <4>2
      <3>2. frames[Depth - 1].left = AllLeft - GasLeft /\ frames'[d + 1].left = remaining
        <4>1. Depth > 1 /\ d + 1 = Depth
          BY <1>2, <2>1, Constants
        <4> QED BY <1>1, <1>4, <4>1, GasLeftHere
      <3> QED BY <1>2, <3>1, <3>2, Constants
    <2>2. CASE d # Depth - 1
      <3>1. d + 1 \in 1 .. Depth - 1 /\ frames[d].left <= frames[d + 1].left
        BY <1>1, <1>2, <2>2, FramesHere, Constants
      <3> QED BY <1>4, <3>1
    <2> QED BY <2>1, <2>2
  <1>8. \A d \in 1 .. Depth' : frames'[d].refund + remaining <= GasLimit
    <2> SUFFICES ASSUME NEW d \in 1 .. Depth PROVE frames'[d].refund + remaining <= GasLimit
      BY <1>5
    <2>1. frames'[d].refund = frames[d].refund
      <3>1. d = Depth \/ d \in 1 .. Depth - 1
        BY <1>2, Constants
      <3> QED BY <1>4, <3>1
    <2>2. frames[d].refund + AllLeft <= GasLimit /\ frames[d].refund \in Nat
      BY <1>1, FramesHere
    <2>3. remaining \in Nat /\ AllLeft \in Nat /\ remaining <= AllLeft /\ GasLimit \in Nat
      BY <1>2, Constants
    <2> HIDE DEF remaining
    <2> QED BY <2>1, <2>2, <2>3
  <1>9. refund' + remaining <= GasLimit
    <2>1. refund + AllLeft <= GasLimit
      BY <1>1, FramesHere
    <2>2. \A r, s, l \in Nat :
            r <= s + gas /\ s + l <= GasLimit => r + (l - gas) <= GasLimit
      BY Constants
    <2>3. AllLeft \in Nat /\ refund \in Nat /\ refund' \in Nat
      BY <1>1, <1>2
    <2> QED BY <2>1, <2>2, <2>3
  <1>10. AllLeft - remaining =
           Charge([op |-> op, gas |-> GasLeft, cost |-> cost, refund |-> refund,
                   depth |-> Depth], GasLeft', Depth')
    <2>1. AllLeft - remaining = gas /\ GasLeft - GasLeft' = gas
      <3>1. AllLeft \in Nat /\ GasLeft \in Nat
        BY <1>2, Constants
      <3> QED BY <1>6, <3>1
    <2>2. Depth' = Depth /\ Depth \in Nat
      BY <1>2, <1>5, Constants
    <2> HIDE DEF remaining
    <2> QED BY <2>1, <2>2 DEF Charge
  <1> HIDE DEF remaining
  <1>11. Execute(op, cost, remaining) /\ Depth' \in 1 .. MaxDepth
    BY <1>2, <1>5 DEF remaining
  <1>12. remaining \in Nat /\ remaining <= AllLeft /\ phase' = "running"
    BY <1>1, <1>2
  <1>13. /\ frames' \in Seq(Frame) /\ AllLeft' = remaining
         /\ inexact \subseteq inexact' /\ inexact' \subseteq AllNames
    BY <1>1, <1>4, <1>5
  <1> QED BY <1>7, <1>8, <1>9, <1>10, <1>11, <1>12, <1>13, ExecuteKeepsInv

\* A call or creation: what it passes on shows in its cost or it is inexact.
LEMMA BeginKeepsInv ==
  ASSUME IInv, Executing, Depth < MaxDepth,
         NEW op \in OpNames, NEW cost \in Nat, NEW passed \in Nat, NEW stipend \in 0 .. OwnCost,
         OwnCost + passed <= GasLeft,
         Execute(op, cost, AllLeft - OwnCost + stipend), BeginFrame(passed, stipend),
         inexact \subseteq inexact', inexact' \subseteq AllNames,
         op \notin inexact' => cost = OwnCost + passed,
         UNCHANGED <<phase, refund>>
  PROVE  IInv'
  <1>1. phase = "running" /\ Tracing /\ refund \in Nat
    BY DEF Executing, Tracing, IInv, TraceTypeOK
  <1> DEFINE remaining == AllLeft - OwnCost + stipend
             kept == AllLeft - (OwnCost + passed)
             caller == [frames[Depth] EXCEPT !.left = kept]
             callee == [left |-> remaining, refund |-> refund]
  <1>0. stipend \in Nat /\ stipend <= 1
    BY Constants
  <1>2. /\ Depth \in 1 .. MaxDepth /\ AllLeft \in 0 .. GasLimit /\ GasLeft \in 0 .. AllLeft
        /\ frames[Depth] \in Frame /\ frames \in Seq(Frame)
        /\ remaining \in 0 .. GasLimit /\ remaining <= AllLeft
        /\ kept \in 0 .. GasLimit /\ kept <= remaining /\ AllLeft - GasLeft <= kept
        /\ AllLeft = frames[Depth].left /\ Depth = Len(frames)
    <2>1. /\ Depth \in 1 .. MaxDepth /\ AllLeft \in 0 .. GasLimit /\ GasLeft \in 0 .. AllLeft
          /\ frames[Depth] \in Frame
      BY <1>1, GasLeftHere
    <2>2. frames \in Seq(Frame) /\ AllLeft = frames[Depth].left /\ Depth = Len(frames)
      BY <1>1, FramesHere
    <2>3. /\ AllLeft \in Nat /\ GasLeft \in Nat /\ GasLimit \in Nat
          /\ AllLeft <= GasLimit /\ GasLeft <= AllLeft
      BY <2>1, Constants
    <2>4. /\ remaining \in 0 .. GasLimit /\ remaining <= AllLeft
          /\ kept \in 0 .. GasLimit /\ kept <= remaining /\ AllLeft - GasLeft <= kept
      BY <1>0, <2>3, Constants
    <2> QED BY <2>1, <2>2, <2>4
  <1>3. /\ frames' = Append([frames EXCEPT ![Depth] = caller], callee)
        /\ caller \in Frame /\ callee \in Frame
        /\ caller.left = kept /\ caller.refund = frames[Depth].refund
        /\ callee.left = remaining /\ callee.refund = refund
    <2>1. frames' = Append([frames EXCEPT ![Depth] = caller], callee)
      BY <1>2 DEF BeginFrame
    <2>2. callee \in Frame
      BY <1>1, <1>2 DEF Frame
    <2> QED BY <1>2, <2>1, <2>2, WithLeft
  <1>4. /\ frames' \in Seq(Frame) /\ Len(frames') = Depth + 1
        /\ frames'[Depth] = caller /\ frames'[Depth + 1] = callee
        /\ \A d \in 1 .. Depth - 1 : frames'[d] = frames[d]
    <2> HIDE DEF caller, callee
    <2>1. Depth \in 1 .. Len(frames) /\ frames \in Seq(Frame) /\ Depth = Len(frames)
      BY <1>2, Constants
    <2> DEFINE paid == [frames EXCEPT ![Depth] = caller]
    <2>2. /\ paid \in Seq(Frame) /\ Len(paid) = Depth /\ paid[Depth] = caller
          /\ \A d \in 1 .. Depth - 1 : paid[d] = frames[d]
      BY <1>3, <2>1
    <2>3. frames' = Append(paid, callee) /\ callee \in Frame
      BY <1>3
    <2> HIDE DEF paid
    <2>4. /\ frames' \in Seq(Frame) /\ Len(frames') = Depth + 1
          /\ frames'[Depth + 1] = callee
          /\ \A d \in 1 .. Depth : frames'[d] = paid[d]
      BY <2>1, <2>2, <2>3
    <2> QED BY <2>1, <2>2, <2>4
  <1>5. /\ Depth' = Depth + 1 /\ AllLeft' = remaining
        /\ GasLeft' = remaining - kept
    <2> HIDE DEF remaining, kept, caller, callee
    <2>1. Depth' = Depth + 1 /\ Depth \in Nat /\ Depth >= 1
      BY <1>2, <1>4, Constants DEF Depth
    <2>2. AllLeft' = frames'[Depth + 1].left
      BY <2>1 DEF AllLeft
    <2>3. GasLeft' = AllLeft' - frames'[Depth].left
      <3>1. Depth' # 1 /\ Depth' - 1 = Depth
        BY <2>1
      <3> QED BY <3>1 DEF GasLeft
    <2> QED BY <1>3, <1>4, <2>1, <2>2, <2>3
  <1>6. remaining - kept = passed + stipend /\ AllLeft - remaining = OwnCost - stipend
    <2>1. AllLeft \in Nat
      BY <1>2
    <2> QED BY <1>0, <2>1, Constants
  <1> HIDE DEF caller, callee, kept, remaining
  <1>7. \A d \in 1 .. Depth' - 1 : frames'[d].left <= frames'[d + 1].left
    <2> SUFFICES ASSUME NEW d \in 1 .. Depth PROVE frames'[d].left <= frames'[d + 1].left
      <3>1. Depth' - 1 = Depth
        BY <1>2, <1>5
      <3> QED BY <3>1
    <2>1. CASE d = Depth
      BY <1>2, <1>3, <1>4, <2>1, Constants
    <2>2. CASE d = Depth - 1
      <3>1. frames'[d].left = frames[Depth - 1].left /\ frames[Depth - 1] \in Frame
        <4>1. Depth - 1 \in 1 .. Depth - 1 /\ Depth - 1 \in 1 .. Depth /\ d = Depth - 1
          BY <1>2, <2>2, Constants
        <4> QED BY <1>1, <1>4, <4>1, FramesHere
      <3>2. frames[Depth - 1].left = AllLeft - GasLeft /\ frames'[d + 1].left = kept
        <4>1. Depth > 1 /\ d + 1 = Depth
          BY <1>2, <2>2, Constants
        <4> QED BY <1>1, <1>3, <1>4, <4>1, GasLeftHere
      <3> QED BY <1>2, <3>1, <3>2, Constants
    <2>3. CASE d # Depth - 1 /\ d # Depth
      <3>1. d + 1 \in 1 .. Depth - 1 /\ d \in 1 .. Depth - 1
            /\ frames[d].left <= frames[d + 1].left
        <4>1. d + 1 \in 1 .. Depth - 1 /\ d \in 1 .. Depth - 1
          <5>1. Depth \in Nat
            BY <1>2, Constants
          <5> QED BY <2>3, <5>1
        <4> QED BY <1>1, <4>1, FramesHere
      <3> QED BY <1>4, <3>1
    <2> QED BY <2>1, <2>2, <2>3
  <1>8. refund' + remaining <= GasLimit
    <2>1. refund + AllLeft <= GasLimit /\ refund \in Nat
      BY <1>1, FramesHere
    <2>2. refund' = refund /\ remaining <= AllLeft /\ {remaining, AllLeft, GasLimit} \subseteq Int
      BY <1>1, <1>2, Constants
    <2> QED BY <2>1, <2>2
  <1>9. \A d \in 1 .. Depth' : frames'[d].refund + remaining <= GasLimit
    <2> SUFFICES ASSUME NEW d \in 1 .. Depth + 1 PROVE frames'[d].refund + remaining <= GasLimit
      BY <1>5
    <2>1. CASE d = Depth + 1
      BY <1>3, <1>4, <1>8, <2>1
    <2>2. CASE d # Depth + 1
      <3>1. frames'[d].refund = frames[d].refund /\ d \in 1 .. Depth
        <4>1. d \in 1 .. Depth
          BY <1>2, <2>2, Constants
        <4>2. CASE d = Depth
          BY <1>3, <1>4, <4>1, <4>2
        <4>3. CASE d # Depth
          <5>1. d \in 1 .. Depth - 1
            BY <1>2, <4>1, <4>3, Constants
          <5> QED BY <1>4, <4>1, <5>1
        <4> QED BY <4>1, <4>2, <4>3
      <3>2. /\ frames[d].refund + AllLeft <= GasLimit
            /\ frames[d].refund \in Nat
        BY <1>1, <3>1, FramesHere
      <3>3. frames'[d].refund + remaining <= frames[d].refund + AllLeft
        BY <1>2, <3>1, <3>2
      <3>4. remaining \in Nat /\ AllLeft \in Nat /\ GasLimit \in Nat
        BY <1>2, Constants
      <3> QED BY <3>1, <3>2, <3>3, <3>4
    <2> QED BY <2>1, <2>2
  <1>10. op \notin inexact' =>
          AllLeft - remaining =
            Charge([op |-> op, gas |-> GasLeft, cost |-> cost, refund |-> refund,
                    depth |-> Depth], GasLeft', Depth')
    <2>1. GasLeft' = passed + stipend /\ AllLeft - remaining = OwnCost - stipend
      BY <1>5, <1>6
    <2>2. Depth < Depth'
      BY <1>2, <1>5, Constants
    <2> QED BY <2>1, <2>2, Constants DEF Charge
  <1>11. Depth' \in 1 .. MaxDepth
    <2>1. Depth' = Depth + 1 /\ Depth \in Nat /\ Depth < MaxDepth /\ MaxDepth \in Nat
      BY <1>2, <1>5, Constants
    <2> QED BY <2>1
  <1>12. Execute(op, cost, remaining)
    BY DEF remaining
  <1>13. /\ remaining \in Nat /\ remaining <= AllLeft
         /\ refund' \in Nat /\ phase' = "running"
    BY <1>1, <1>2, Constants
  <1>14. frames' \in Seq(Frame) /\ AllLeft' = remaining
    BY <1>4, <1>5
  <1> QED BY <1>7, <1>8, <1>9, <1>10, <1>11, <1>12, <1>13, <1>14, ExecuteKeepsInv

\* The end of a frame: its instruction is charged with its cost.
LEMMA EndKeepsInv ==
  ASSUME IInv, Executing,
         NEW op \in OpNames, NEW cost \in Nat,
         NEW remaining \in {AllLeft, AllLeft - GasLeft},
         Execute(op, cost, remaining), EndFrame(remaining),
         inexact \subseteq inexact', inexact' \subseteq AllNames,
         refund' \in {refund, frames[Depth].refund},
         op \notin inexact' => cost = 0 /\ remaining = AllLeft,
         Depth = 1 /\ "REFUND" \notin inexact' => refund' = refund
  PROVE  IInv'
  <1>1. phase = "running" /\ Tracing /\ refund \in Nat
    BY DEF Executing, Tracing, IInv, TraceTypeOK
  <1>2. /\ Depth \in 1 .. MaxDepth /\ AllLeft \in 0 .. GasLimit /\ GasLeft \in 0 .. AllLeft
        /\ frames[Depth] \in Frame /\ frames \in Seq(Frame)
        /\ remaining \in 0 .. GasLimit /\ remaining <= AllLeft
        /\ Depth = Len(frames)
    <2>1. /\ Depth \in 1 .. MaxDepth /\ AllLeft \in 0 .. GasLimit /\ GasLeft \in 0 .. AllLeft
          /\ frames[Depth] \in Frame
      BY <1>1, GasLeftHere
    <2>2. frames \in Seq(Frame) /\ Depth = Len(frames)
      BY <1>1, FramesHere
    <2>3. remaining \in 0 .. GasLimit /\ remaining <= AllLeft
      <3>1. /\ AllLeft \in Nat /\ GasLeft \in Nat /\ GasLimit \in Nat
            /\ AllLeft <= GasLimit /\ GasLeft <= AllLeft
        BY <2>1, Constants
      <3> QED BY <3>1
    <2> QED BY <2>1, <2>2, <2>3
  <1>3. refund' \in Nat /\ refund' + remaining <= GasLimit
    <2>1. /\ refund + AllLeft <= GasLimit /\ frames[Depth].refund + AllLeft <= GasLimit
          /\ frames[Depth].refund \in Nat
      BY <1>1, <1>2, FramesHere
    <2>2. refund \in Nat /\ AllLeft \in Nat /\ remaining \in Nat /\ remaining <= AllLeft
          /\ GasLimit \in Nat
      BY <1>1, <1>2, Constants
    <2>3. refund' = refund \/ refund' = frames[Depth].refund
      OBVIOUS
    <2>4. CASE refund' = refund
      BY <2>1, <2>2, <2>4
    <2>5. CASE refund' = frames[Depth].refund
      BY <2>1, <2>2, <2>5
    <2> QED BY <2>3, <2>4, <2>5
  <1>4. ASSUME NEW d \in 1 .. Depth
        PROVE  /\ frames[d] \in Frame /\ frames[d].refund \in Nat
               /\ frames[d].refund + remaining <= GasLimit
    <2>1. frames[d].refund + AllLeft <= GasLimit /\ frames[d].refund \in Nat
          /\ frames[d] \in Frame
      BY <1>1, <1>4, FramesHere
    <2> QED BY <1>2, <2>1, Constants
  <1> DEFINE outer == IF Depth = 1 THEN 1 ELSE Depth - 1
             frame == [frames[outer] EXCEPT !.left = remaining]
  <1>5. /\ outer \in 1 .. Depth /\ frame \in Frame /\ frame.left = remaining
        /\ frame.refund = frames[outer].refund
    <2>1. outer \in 1 .. Depth
      BY <1>2, Constants
    <2> HIDE DEF outer
    <2> QED BY <1>2, <1>4, <2>1, WithLeft
  <1>6. /\ frames' \in Seq(Frame) /\ Len(frames') = outer
        /\ frames'[outer] = frame
        /\ \A d \in 1 .. outer - 1 : frames'[d] = frames[d]
    <2> HIDE DEF frame
    <2>1. CASE Depth = 1
      <3>1. frames' = [frames EXCEPT ![1] = frame]
        BY <2>1 DEF EndFrame, frame
      <3>2. 1 \in 1 .. Len(frames) /\ Len(frames) = 1 /\ outer = 1
        BY <1>2, <2>1
      <3>3. frames \in Seq(Frame) /\ frame \in Frame
        BY <1>2, <1>5
      <3> HIDE DEF outer
      <3>4. frames' \in Seq(Frame) /\ Len(frames') = 1 /\ frames'[1] = frame
        <4>1. /\ [frames EXCEPT ![1] = frame] \in Seq(Frame)
              /\ Len([frames EXCEPT ![1] = frame]) = Len(frames)
              /\ [frames EXCEPT ![1] = frame][1] = frame
          BY <3>2, <3>3, WithFrame
        <4> QED BY <3>1, <3>2, <4>1
      <3> QED BY <3>2, <3>4
    <2>2. CASE Depth # 1
      <3> DEFINE rest == SubSeq(frames, 1, Depth - 1)
      <3>1. /\ rest \in Seq(Frame) /\ Len(rest) = Depth - 1
            /\ \A d \in 1 .. Depth - 1 : rest[d] = frames[d]
        BY <1>2, <2>2, SubSeqProperties, Constants
      <3> HIDE DEF rest
      <3>2. frames' = [rest EXCEPT ![Depth - 1] = frame]
        <4>1. frames' = [rest EXCEPT ![Depth - 1] = [rest[Depth - 1] EXCEPT !.left = remaining]]
          BY <2>2 DEF EndFrame, rest
        <4>2. rest[Depth - 1] = frames[Depth - 1]
          <5>1. Depth - 1 \in 1 .. Depth - 1
            BY <1>2, <2>2, Constants
          <5> QED BY <3>1, <5>1
        <4> QED BY <2>2, <4>1, <4>2 DEF frame
      <3>3. outer = Depth - 1 /\ outer \in 1 .. Len(rest) /\ Len(rest) = outer
        BY <1>5, <2>2, <3>1
      <3>4. frame \in Frame /\ frames' = [rest EXCEPT ![outer] = frame]
        BY <1>5, <3>2, <3>3
      <3>5. rest \in Seq(Frame) /\ \A d \in 1 .. outer - 1 : rest[d] = frames[d]
        <4>1. outer - 1 < Depth - 1 /\ Depth \in Nat
          BY <1>2, <3>3, Constants
        <4> QED BY <3>1, <3>3, <4>1
      <3> HIDE DEF outer, frame
      <3> QED BY <3>3, <3>4, <3>5
    <2> QED BY <2>1, <2>2
  <1> HIDE DEF frame
  <1>7. Depth' = outer /\ AllLeft' = remaining
    BY <1>5, <1>6 DEF Depth, AllLeft
  <1>8. phase' = (IF Depth = 1 THEN "trace" ELSE "running")
    BY <1>1 DEF EndFrame
  <1>9. \A d \in 1 .. Depth' - 1 : frames'[d].left <= frames'[d + 1].left
    <2> SUFFICES ASSUME NEW d \in 1 .. outer - 1 PROVE frames'[d].left <= frames'[d + 1].left
      BY <1>7
    <2>1. outer = Depth - 1 /\ d \in 1 .. Depth - 2
      BY <1>2, Constants
    <2>2. frames[d].left <= frames[d + 1].left
      BY <1>1, <1>2, <2>1, Constants DEF IInv, FrameInv
    <2>3. CASE d + 1 = outer
      <3>1. frames[d + 1].left = AllLeft - GasLeft /\ frames[d + 1] \in Frame
        <4>1. Depth > 1 /\ d + 1 = Depth - 1
          BY <1>2, <2>1, <2>3, Constants
        <4> QED BY <1>1, <4>1, GasLeftHere
      <3>2. frames[d] \in Frame
        BY <1>2, <1>4, <2>1, Constants
      <3>3. frames'[d].left = frames[d].left /\ frames'[d + 1].left = remaining
        BY <1>5, <1>6, <2>3
      <3>4. frames[d].left \in Nat /\ frames[d + 1].left \in Nat
        BY <3>1, <3>2, Constants DEF Frame
      <3>5. frames[d + 1].left <= remaining /\ remaining \in Int
        BY <1>2, <3>1, Constants
      <3> QED BY <2>2, <3>3, <3>4, <3>5
    <2>4. CASE d + 1 # outer
      <3>1. d + 1 \in 1 .. outer - 1
        BY <1>2, <2>1, <2>4, Constants
      <3> QED BY <1>6, <2>2, <3>1
    <2> QED BY <2>3, <2>4
  <1>10. \A d \in 1 .. Depth' : frames'[d].refund + remaining <= GasLimit
    <2> SUFFICES ASSUME NEW d \in 1 .. outer PROVE frames'[d].refund + remaining <= GasLimit
      BY <1>7
    <2>1. frames'[d].refund = frames[d].refund
      <3>1. CASE d = outer
        BY <1>5, <1>6, <3>1
      <3>2. CASE d # outer
        <4>1. d \in 1 .. outer - 1
          <5>1. outer \in Nat
            BY <1>2, <1>5, Constants
          <5> HIDE DEF outer
          <5> QED BY <3>2, <5>1
        <4> QED BY <1>6, <4>1
      <3> QED BY <3>1, <3>2
    <2>2. d \in 1 .. Depth
      BY <1>2, <1>5, Constants
    <2> QED BY <1>4, <2>1, <2>2
  <1>11. op \notin inexact' =>
           AllLeft - remaining =
             IF phase' = "running"
             THEN Charge([op |-> op, gas |-> GasLeft, cost |-> cost, refund |-> refund,
                          depth |-> Depth], GasLeft', Depth')
             ELSE cost
    BY <1>2, <1>7, <1>8, Constants DEF Charge
  <1>12. /\ Depth' \in 1 .. MaxDepth /\ remaining \in Nat
         /\ phase' \in {"running", "trace"} /\ (phase' = "trace" => Depth' = 1)
         /\ phase' = "trace" /\ "REFUND" \notin inexact' => refund' = refund
    BY <1>2, <1>5, <1>7, <1>8, Constants
  <1> QED BY <1>1, <1>2, <1>3, <1>6, <1>7, <1>9, <1>10, <1>11, <1>12, ExecuteKeepsInv

\* Every instruction of the EVM.
LEMMA InstructionKeepsInv ==
  ASSUME IInv,
         \/ ClearSlot \/ Stop \/ OutOfGas
         \/ \E cost \in 1 .. 2 : Step(cost)
         \/ \E passed \in 1 .. 2, stipend \in 0 .. OwnCost : Call(passed, stipend)
         \/ \E passed \in 1 .. 2, used \in 0 .. 1 : CallPrecompile(passed, used)
         \/ \E passed \in 1 .. 2 : Create(passed)
  PROVE  IInv'
  <1>1. Executing
    BY DEF ClearSlot, Stop, OutOfGas, Step, Call, CallPrecompile, Create
  <1>2. /\ Tracing /\ refund \in Nat /\ inexact \subseteq AllNames
        /\ GasLeft \in Nat /\ AllLeft \in Nat /\ OpNames \subseteq AllNames
        /\ {"STEP", "SSTORE", "CALL", "CREATE", "STOP"} = OpNames
    BY <1>1, GasLeftHere, Constants DEF Executing, Tracing, IInv, TraceTypeOK, AllNames,
       OpNames
  <1>3. CASE ClearSlot
    BY <1>1, <1>2, <1>3, SpendKeepsInv DEF ClearSlot
  <1>4. CASE Stop
    <2>1. Execute("STOP", 0, AllLeft) /\ EndFrame(AllLeft) /\ UNCHANGED <<refund, inexact>>
      BY <1>4 DEF Stop
    <2> QED BY <1>1, <1>2, <2>1, EndKeepsInv
  <1>5. CASE OutOfGas
    <2>1. /\ Execute("STEP", GasLeft + 1, AllLeft - GasLeft) /\ EndFrame(AllLeft - GasLeft)
          /\ refund' = frames[Depth].refund
          /\ inexact' = inexact \union IF Depth = 1 THEN {"STEP", "REFUND"} ELSE {"STEP"}
      BY <1>5 DEF OutOfGas
    <2>2. inexact' \subseteq AllNames /\ "STEP" \in inexact' /\ inexact \subseteq inexact'
          /\ (Depth = 1 => "REFUND" \in inexact')
      BY <1>2, <2>1 DEF AllNames
    <2>3. GasLeft + 1 \in Nat
      BY <1>2
    <2> QED BY <1>1, <1>2, <2>1, <2>2, <2>3, EndKeepsInv
  <1>6. ASSUME NEW cost \in 1 .. 2, Step(cost) PROVE IInv'
    <2>1. /\ cost \in Nat /\ cost <= GasLeft /\ Execute("STEP", cost, AllLeft - cost)
          /\ Spend(cost) /\ UNCHANGED <<phase, refund, inexact>>
      BY <1>6 DEF Step
    <2>2. refund' \in Nat /\ refund' <= refund + cost
      BY <1>2, <2>1
    <2> QED BY <1>1, <1>2, <2>1, <2>2, SpendKeepsInv
  <1>7. ASSUME NEW passed \in 1 .. 2, NEW stipend \in 0 .. OwnCost, Call(passed, stipend)
        PROVE  IInv'
    <2>1. /\ passed \in Nat /\ Depth < MaxDepth /\ OwnCost + passed <= GasLeft
          /\ Execute("CALL", OwnCost + passed, AllLeft - OwnCost + stipend)
          /\ BeginFrame(passed, stipend) /\ UNCHANGED <<phase, refund, inexact>>
      BY <1>7 DEF Call
    <2>2. OwnCost + passed \in Nat
      BY <2>1, Constants
    <2> QED BY <1>1, <1>2, <2>1, <2>2, BeginKeepsInv
  <1>8. ASSUME NEW passed \in 1 .. 2, NEW used \in 0 .. 1, CallPrecompile(passed, used)
        PROVE  IInv'
    <2> DEFINE gas == OwnCost + used
               cost == OwnCost + passed
    <2>1. /\ cost <= GasLeft /\ used <= passed
          /\ Execute("CALL", cost, AllLeft - gas)
          /\ Spend(gas) /\ UNCHANGED <<phase, refund, inexact>>
      BY <1>8 DEF CallPrecompile
    <2>2. cost \in Nat /\ gas \in Nat /\ gas <= GasLeft
      BY <1>2, <2>1, Constants
    <2> HIDE DEF gas, cost
    <2>3. refund' \in Nat /\ refund' <= refund + gas
      BY <1>2, <2>1, <2>2
    <2> QED BY <1>1, <1>2, <2>1, <2>2, <2>3, SpendKeepsInv
  <1>9. ASSUME NEW passed \in 1 .. 2, Create(passed) PROVE IInv'
    <2>1. /\ passed \in Nat /\ Depth < MaxDepth /\ OwnCost + passed <= GasLeft
          /\ Execute("CREATE", OwnCost, AllLeft - OwnCost)
          /\ BeginFrame(passed, 0) /\ UNCHANGED <<phase, refund>>
          /\ inexact' = inexact \union {"CREATE"}
      BY <1>9 DEF Create
    <2>2. AllLeft - OwnCost = AllLeft - OwnCost + 0 /\ OwnCost \in Nat /\ 0 \in 0 .. OwnCost
      BY <1>2, Constants
    <2>3. inexact' \subseteq AllNames /\ "CREATE" \in inexact' /\ inexact \subseteq inexact'
      BY <1>2, <2>1
    <2>4. Execute("CREATE", OwnCost, AllLeft - OwnCost + 0)
      BY <2>1, <2>2
    <2> QED BY <1>1, <1>2, <2>1, <2>2, <2>3, <2>4, BeginKeepsInv
  <1> QED BY <1>3, <1>4, <1>5, <1>6, <1>7, <1>8, <1>9

-----------------------------------------------------------------------------
(* traceReceipt.                                                            *)

\* The lesser of two numbers.
LEMMA MinOfTwo ==
  ASSUME NEW a \in Nat, NEW b \in Nat
  PROVE  Min({a, b}) \in Nat /\ Min({a, b}) <= b
  <1>1. \E x \in {a, b} : \A y \in {a, b} : x <= y
    OBVIOUS
  <1>2. /\ Min({a, b}) \in {a, b}
        /\ \A y \in {a, b} : Min({a, b}) <= y
    BY <1>1 DEF Min
  <1> QED BY <1>2

\* A count and its reference grow alike.
LEMMA AddKeepsGas ==
  ASSUME IInv, Tracing, UNCHANGED inexact,
         NEW op \in AllNames, NEW gas \in Int, NEW used \in Nat,
         Add(op, gas), Used(op, used),
         op \notin inexact => gas = used /\ GasHandled(op) + used <= MaxUint64
  PROVE  /\ opCodes' \in [AllNames -> OpCodeStats] /\ trueGas' \in [AllNames -> Nat]
         /\ OpGasExact'
         /\ \A o \in AllNames \ inexact :
              trueGas'[o] <= GasHandled(o) + IF o = op THEN used ELSE 0
  <1>1. /\ opCodes \in [AllNames -> OpCodeStats] /\ trueGas \in [AllNames -> Nat]
        /\ opCodes[op].count \in Nat /\ opCodes[op].gas \in 0 .. MaxUint64
        /\ opCodes[op].gas + gas \in Int
    BY Constants DEF IInv, TraceTypeOK, OpCodeStats
  <1> DEFINE new == [count |-> opCodes[op].count + 1, gas |-> Wrap(opCodes[op].gas + gas)]
  <1>2. new \in OpCodeStats /\ new.gas = Wrap(opCodes[op].gas + gas)
    BY <1>1, WrapIs DEF OpCodeStats
  <1>3. opCodes' = [opCodes EXCEPT ![op] = new]
    BY DEF Add
  <1> HIDE DEF new
  <1>4. opCodes' \in [AllNames -> OpCodeStats] /\ trueGas' \in [AllNames -> Nat]
    BY <1>1, <1>2, <1>3 DEF Used
  <1>5. \A o \in AllNames : /\ opCodes'[o] = IF o = op THEN new ELSE opCodes[o]
                           /\ trueGas'[o] = IF o = op THEN trueGas[o] + used ELSE trueGas[o]
    BY <1>1, <1>3 DEF Used
  <1>6. ASSUME NEW o \in AllNames \ inexact
        PROVE  /\ opCodes[o].gas = trueGas[o] /\ trueGas[o] <= GasHandled(o)
               /\ trueGas[o] \in Nat
               /\ receipt * GasLimit \in Int /\ GasHandled(o) \in Int
    <2>1. opCodes[o].gas = trueGas[o] /\ trueGas[o] <= GasHandled(o) /\ trueGas[o] \in Nat
      BY <1>1, <1>6 DEF IInv, GasInv, OpGasExact
    <2>2. receipt \in Int /\ receipt * GasLimit \in Int
      BY Constants DEF IInv, TraceTypeOK
    <2>3. GasLimit - LeftAfter(idx) \in Int
      <3>1. LeftAfter(idx) \in 0 .. GasLimit
        BY LeftType DEF IInv, TraceTypeOK
      <3> QED BY <3>1, Constants
    <2> QED BY <2>1, <2>2, <2>3 DEF GasHandled
  <1>7. op \notin inexact => new.gas = trueGas[op] + used
    <2> SUFFICES ASSUME op \notin inexact PROVE new.gas = trueGas[op] + used
      OBVIOUS
    <2>1. /\ opCodes[op].gas = trueGas[op] /\ trueGas[op] <= GasHandled(op) /\ gas = used
          /\ trueGas[op] \in Nat /\ GasHandled(op) \in Int
          /\ GasHandled(op) + used <= MaxUint64
      BY <1>6
    <2>2. trueGas[op] + used \in 0 .. MaxUint64
      BY <2>1, Constants
    <2> QED BY <1>2, <2>1, <2>2, WrapIs
  <1>8. OpGasExact'
    BY <1>5, <1>6, <1>7 DEF OpGasExact
  <1>9. \A o \in AllNames \ inexact :
          trueGas'[o] <= GasHandled(o) + IF o = op THEN used ELSE 0
    BY <1>5, <1>6
  <1> QED BY <1>4, <1>8, <1>9

\* After its last step a receipt leaves only the statistics.
LEMMA NextReceiptKeepsInv ==
  ASSUME IInv, phase \in {"trace", "logs"}, phase = "logs" => idx = Len(logs), NextReceipt,
         NEW op \in {"UNKNOWN", "REFUND"}, NEW gas \in Int, NEW used \in 0 .. GasLimit,
         Add(op, gas), Used(op, used),
         op = "UNKNOWN" => phase = "trace",
         op \notin inexact => gas = used
  PROVE  IInv'
  <1>1. /\ Tracing /\ op \in AllNames /\ used \in Nat
        /\ receipt \in Nat /\ receipt < Receipts /\ receipt' = receipt + 1
    BY Constants DEF Tracing, AllNames, IInv, TraceTypeOK, NextReceipt
  <1>2. /\ receipt * GasLimit \in Nat
        /\ receipt' * GasLimit = receipt * GasLimit + GasLimit
        /\ receipt * GasLimit + GasLimit <= MaxUint64
    BY <1>1, Total
  <1>3. GasHandled(op) = receipt * GasLimit
    BY <1>2 DEF GasHandled
  <1>4. LeftAfter(idx) \in 0 .. GasLimit
    BY LeftType DEF IInv, TraceTypeOK
  <1>5. op \notin inexact => gas = used /\ GasHandled(op) + used <= MaxUint64
    BY <1>2, <1>3, Constants
  <1>6. /\ opCodes' \in [AllNames -> OpCodeStats] /\ trueGas' \in [AllNames -> Nat]
        /\ OpGasExact'
        /\ \A o \in AllNames \ inexact :
             trueGas'[o] <= GasHandled(o) + IF o = op THEN used ELSE 0
    <2>1. UNCHANGED inexact
      BY DEF NextReceipt
    <2> QED BY <1>1, <1>5, <2>1, AddKeepsGas
  <1>7. GasInv'
    <2> SUFFICES ASSUME NEW o \in AllNames \ inexact PROVE trueGas'[o] <= GasHandled(o)'
      BY <1>6 DEF GasInv, NextReceipt
    <2>1. GasHandled(o)' = receipt * GasLimit + GasLimit
      <3>1. GasHandled(o)' = receipt' * GasLimit + 0
        BY DEF GasHandled, NextReceipt
      <3> QED BY <1>2, <3>1, Constants
    <2>2. GasHandled(o) + (IF o = op THEN used ELSE 0) <= receipt * GasLimit + GasLimit
      BY <1>2, <1>3, <1>4, Constants DEF GasHandled
    <2>3. GasHandled(o) \in Int /\ trueGas'[o] \in Int
      BY <1>2, <1>4, <1>6, Constants DEF GasHandled
    <2> QED BY <1>2, <1>6, <2>1, <2>2, <2>3, Constants
  <1>8. TraceTypeOK'
    BY <1>1, <1>6, Constants DEF IInv, TraceTypeOK, NextReceipt, Tracing
  <1>9. IdleInv' /\ FrameInv' /\ RefundInv'
    BY DEF NextReceipt, IdleInv, FrameInv, RefundInv, Tracing
  <1>10. LogInv' /\ ChargeInv'
    BY DEF NextReceipt, LogInv, ChargeInv
  <1>11. DiffInv' /\ CountInv'
    BY DEF NextReceipt, diffVars, mergedVars, IInv, DiffInv, CountInv, SlotsExact, TriesExact, Counted
  <1> QED BY <1>7, <1>8, <1>9, <1>10, <1>11 DEF IInv

\* Before the logs: the transaction's own gas.
LEMMA TraceTransactionKeepsInv == IInv /\ TraceTransaction => IInv'
  <1> SUFFICES ASSUME IInv, TraceTransaction PROVE IInv'
    OBVIOUS
  <1>1. /\ phase = "trace" /\ phase' = "logs" /\ Tracing /\ Tracing'
        /\ Add("TRANSACTION", TransactionGas) /\ Used("TRANSACTION", Intrinsic)
        /\ UNCHANGED <<options, receipt, evmVars, idx, gasRefund, inexact, diffVars>>
        /\ idx = 0
    BY DEF TraceTransaction, Tracing, IInv, IdleInv
  <1>2. /\ "TRANSACTION" \in AllNames /\ Intrinsic \in Nat
        /\ receipt \in Nat /\ receipt < Receipts
    BY <1>1, Constants DEF AllNames, IInv, TraceTypeOK
  <1>3. TransactionGas = Intrinsic
    <2>1. CASE logs = <<>>
      <3>1. Depth = 1 /\ AllLeft = GasLimit - Intrinsic
        BY <1>1, <2>1 DEF IInv, FrameInv, LeftAfter
      <3> QED BY <2>1, <3>1, Constants DEF TransactionGas, TxGasUsed, AllLeft
    <2>2. CASE logs # <<>>
      <3>1. logs[1].gas = GasLimit - Intrinsic
        BY <2>2 DEF IInv, LogInv
      <3> QED BY <2>2, <3>1, Constants DEF TransactionGas
    <2> QED BY <2>1, <2>2
  <1>4. /\ receipt * GasLimit \in Nat /\ receipt * GasLimit + GasLimit <= MaxUint64
    BY <1>2, Total
  <1>5. \A o \in AllNames : GasHandled(o) = receipt * GasLimit
    BY <1>1, <1>4 DEF GasHandled
  <1>6. /\ opCodes' \in [AllNames -> OpCodeStats] /\ trueGas' \in [AllNames -> Nat]
        /\ OpGasExact'
        /\ \A o \in AllNames \ inexact :
             trueGas'[o] <= GasHandled(o) + IF o = "TRANSACTION" THEN Intrinsic ELSE 0
    <2>1. GasHandled("TRANSACTION") + Intrinsic <= MaxUint64
      BY <1>2, <1>4, <1>5, Constants
    <2>2. TransactionGas \in Int /\ inexact' = inexact
      BY <1>1, <1>3, Constants
    <2> QED BY <1>1, <1>2, <1>3, <2>1, <2>2, AddKeepsGas
  <1>7. GasInv'
    <2> SUFFICES ASSUME NEW o \in AllNames \ inexact PROVE trueGas'[o] <= GasHandled(o)'
      BY <1>1, <1>6 DEF GasInv
    <2>1. GasHandled(o)' = receipt * GasLimit + IF o # "REFUND" THEN Intrinsic ELSE 0
      BY <1>1, <1>4, Constants DEF GasHandled, LeftAfter
    <2>2. trueGas'[o] <= receipt * GasLimit + IF o = "TRANSACTION" THEN Intrinsic ELSE 0
      BY <1>5, <1>6
    <2>3. trueGas'[o] \in Nat
      BY <1>6
    <2> QED BY <1>4, <2>1, <2>2, <2>3, Constants
  <1>8. TraceTypeOK' /\ IdleInv'
    BY <1>1, <1>6 DEF IInv, TraceTypeOK, IdleInv, Tracing, evmVars
  <1>9. FrameInv' /\ LogInv' /\ RefundInv'
    BY <1>1 DEF IInv, FrameInv, LogInv, RefundInv, Tracing, evmVars, AllLeft, Depth, LeftAfter
  <1>10. ChargeInv'
    BY <1>1 DEF IInv, ChargeInv, evmVars, Own, LeftAfter, Charge
  <1>11. DiffInv' /\ CountInv'
    BY <1>1 DEF IInv, diffVars, mergedVars, DiffInv, CountInv, SlotsExact, TriesExact, Counted
  <1> QED BY <1>7, <1>8, <1>9, <1>10, <1>11 DEF IInv

\* A log is charged with what its instruction has used.
LEMMA ChargedExactly ==
  ASSUME IInv, phase = "logs", NEW i \in 1 .. Len(logs)
  PROVE  /\ OpGas(i) \in Int
         /\ logs[i].op \notin inexact => OpGas(i) = Own(i)
  <1>1. /\ logs \in Seq(LogEntry) /\ Len(logs) \in Nat
        /\ logs[i] \in LogEntry /\ Own(i) \in 0 .. GasLimit
    BY LeftType DEF IInv, TraceTypeOK
  <1>2. Own(i) \in 0 .. MaxUint64
    <2>1. receipt \in Nat /\ receipt < Receipts
      BY DEF IInv, TraceTypeOK, Tracing
    <2>2. GasLimit <= MaxUint64
      BY <2>1, Total, Constants
    <2> QED BY <1>1, <2>2, Constants
  <1>3. CASE i = Len(logs)
    <2>1. OpGas(i) = logs[i].cost
      BY <1>1, <1>3 DEF OpGas
    <2>2. logs # <<>>
      BY <1>1
    <2> QED BY <1>1, <1>3, <2>1, <2>2 DEF LogEntry, IInv, ChargeInv
  <1>4. CASE i # Len(logs)
    <2>1. /\ i \in 1 .. Len(logs) - 1 /\ i < Len(logs)
          /\ logs[i + 1] \in LogEntry
      BY <1>1, <1>4
    <2>2. /\ logs[i].depth \in Nat /\ logs[i + 1].depth \in Nat
          /\ logs[i].gas \in Nat /\ logs[i].cost \in Nat /\ logs[i + 1].gas \in Nat
      BY <1>1, <2>1 DEF LogEntry
    <2> DEFINE charge == Charge(logs[i], logs[i + 1].gas, logs[i + 1].depth)
    <2>3. logs[i].op \notin inexact => Own(i) = charge
      BY <2>1 DEF IInv, ChargeInv
    <2>4. OpGas(i) = IF logs[i].depth <= logs[i + 1].depth THEN Wrap(charge) ELSE charge
      BY <2>1, <2>2 DEF OpGas, Charge
    <2>5. charge \in Int
      BY <2>2 DEF Charge
    <2> HIDE DEF charge
    <2>6. OpGas(i) \in Int
      BY <2>4, <2>5, WrapIs, Constants
    <2> QED BY <1>2, <2>3, <2>4, <2>6, WrapIs
  <1> QED BY <1>3, <1>4

\* One log.
LEMMA TraceLogKeepsInv == IInv /\ TraceLog => IInv'
  <1> SUFFICES ASSUME IInv, TraceLog PROVE IInv'
    OBVIOUS
  <1>0. PICK i \in Nat : i = idx + 1
    BY DEF IInv, TraceTypeOK
  <1>1. /\ phase = "logs" /\ phase' = "logs" /\ Tracing /\ Tracing'
        /\ idx < Len(logs) /\ idx' = i /\ i \in 1 .. Len(logs) /\ i - 1 = idx
        /\ Add(logs[i].op, OpGas(i)) /\ Used(logs[i].op, Own(i))
        /\ gasRefund' = logs[i].refund
        /\ UNCHANGED <<options, phase, receipt, evmVars, inexact, diffVars>>
    BY <1>0 DEF TraceLog, Tracing, IInv, TraceTypeOK
  <1>2. /\ logs[i] \in LogEntry /\ logs[i].op \in OpNames /\ logs[i].refund \in Nat
        /\ receipt \in Nat /\ receipt < Receipts
    <2>1. logs \in Seq(LogEntry) /\ receipt \in Nat /\ receipt < Receipts
      BY <1>1 DEF IInv, TraceTypeOK
    <2>2. logs[i] \in LogEntry
      BY <1>1, <2>1, ElementOfSeq
    <2> QED BY <2>1, <2>2 DEF LogEntry
  <1>3. /\ LeftAfter(idx) \in 0 .. GasLimit /\ LeftAfter(i) \in 0 .. GasLimit
        /\ Own(i) \in 0 .. GasLimit /\ Own(i) = LeftAfter(idx) - LeftAfter(i)
    <2>1. idx \in 0 .. Len(logs) /\ i \in 0 .. Len(logs)
      BY <1>1 DEF IInv, TraceTypeOK
    <2> QED BY <1>1, <2>1, LeftType DEF Own
  <1> DEFINE op == logs[i].op
  <1>4. op \in AllNames /\ op # "REFUND"
    BY <1>2 DEF AllNames, OpNames
  <1>5. /\ receipt * GasLimit \in Nat /\ receipt * GasLimit + GasLimit <= MaxUint64
    BY <1>2, Total
  <1>6. /\ opCodes' \in [AllNames -> OpCodeStats] /\ trueGas' \in [AllNames -> Nat]
        /\ OpGasExact'
        /\ \A o \in AllNames \ inexact :
             trueGas'[o] <= GasHandled(o) + IF o = op THEN Own(i) ELSE 0
    <2>1. GasHandled(op) + Own(i) <= MaxUint64
      BY <1>1, <1>3, <1>4, <1>5, Constants DEF GasHandled
    <2>2. OpGas(i) \in Int /\ (op \notin inexact => OpGas(i) = Own(i)) /\ Own(i) \in Nat
      BY <1>1, <1>3, ChargedExactly, Constants
    <2> HIDE DEF op
    <2>3. Add(op, OpGas(i)) /\ Used(op, Own(i)) /\ inexact' = inexact
      BY <1>1 DEF op
    <2> QED BY <1>1, <1>4, <2>1, <2>2, <2>3, AddKeepsGas
  <1>7. GasInv'
    <2> SUFFICES ASSUME NEW o \in AllNames \ inexact PROVE trueGas'[o] <= GasHandled(o)'
      BY <1>1, <1>6 DEF GasInv
    <2>1. GasHandled(o)' = receipt * GasLimit + IF o # "REFUND" THEN GasLimit - LeftAfter(i) ELSE 0
      BY <1>1 DEF GasHandled, LeftAfter, evmVars
    <2>2. GasHandled(o) = receipt * GasLimit + IF o # "REFUND" THEN GasLimit - LeftAfter(idx) ELSE 0
      BY <1>1 DEF GasHandled
    <2>3. trueGas'[o] <= GasHandled(o) + IF o = op THEN Own(i) ELSE 0
      BY <1>6
    <2>4. trueGas'[o] \in Nat
      BY <1>6
    <2> HIDE DEF op
    <2>5. CASE o = "REFUND"
      BY <1>4, <1>5, <2>1, <2>2, <2>3, <2>4, <2>5
    <2>6. CASE o # "REFUND"
      BY <1>3, <1>5, <2>1, <2>2, <2>3, <2>4, <2>6, Constants
    <2> QED BY <2>5, <2>6
  <1>8. TraceTypeOK' /\ IdleInv'
    BY <1>1, <1>2, <1>6 DEF IInv, TraceTypeOK, IdleInv, Tracing, evmVars
  <1>9. FrameInv' /\ LogInv' /\ RefundInv'
    BY <1>1 DEF IInv, FrameInv, LogInv, RefundInv, Tracing, evmVars, AllLeft, Depth, LeftAfter
  <1>10. ChargeInv'
    BY <1>1 DEF IInv, ChargeInv, evmVars, Own, LeftAfter, Charge
  <1>11. DiffInv' /\ CountInv'
    BY <1>1 DEF IInv, diffVars, mergedVars, DiffInv, CountInv, SlotsExact, TriesExact, Counted
  <1> QED BY <1>7, <1>8, <1>9, <1>10, <1>11 DEF IInv

\* The last steps of a receipt, with its trace and without.
LEMMA ReceiptKeepsInv == IInv /\ (TraceRefund \/ TraceFails) => IInv'
  <1> SUFFICES ASSUME IInv, TraceRefund \/ TraceFails PROVE IInv'
    OBVIOUS
  <1>1. Tracing /\ refund \in Nat /\ gasRefund \in Nat
    BY DEF TraceRefund, TraceFails, Tracing, IInv, TraceTypeOK
  <1>2. refund \in 0 .. GasLimit
    BY <1>1, FramesHere, GasLeftHere, Constants
  <1>3. CASE TraceRefund
    <2>1. /\ phase = "logs" /\ idx = Len(logs) /\ NextReceipt
          /\ Add("REFUND", gasRefund) /\ Used("REFUND", refund)
      BY <1>3 DEF TraceRefund
    <2>2. "REFUND" \notin inexact => gasRefund = refund
      <3>1. logs \in Seq(LogEntry)
        BY DEF IInv, TraceTypeOK
      <3>2. CASE logs = <<>>
        BY <2>1, <3>2 DEF IInv, RefundInv
      <3>3. CASE logs # <<>>
        <4>1. idx # 0
          BY <2>1, <3>1, <3>3
        <4> QED BY <2>1, <3>3, <4>1 DEF IInv, RefundInv
      <3> QED BY <3>2, <3>3
    <2> QED BY <1>1, <1>2, <2>1, <2>2, NextReceiptKeepsInv
  <1>4. CASE TraceFails
    <2>1. /\ phase = "trace" /\ NextReceipt
          /\ Add("UNKNOWN", ReceiptGasUsed) /\ Used("UNKNOWN", ReceiptGasUsed)
      BY <1>4 DEF TraceFails
    <2>2. TxGasUsed \in 0 .. GasLimit
      <3>1. Depth = 1
        BY <1>1, <2>1 DEF IInv, FrameInv
      <3>2. frames[1].left \in 0 .. GasLimit
        BY <1>1, <3>1, FramesHere
      <3> QED BY <3>2, Constants DEF TxGasUsed
    <2>3. TxGasUsed \div 5 \in Nat /\ TxGasUsed \div 5 <= TxGasUsed
      BY <2>2, Constants
    <2>4. ReceiptGasUsed \in 0 .. GasLimit
      <3>1. /\ Min({refund, TxGasUsed \div 5}) \in Nat
            /\ Min({refund, TxGasUsed \div 5}) <= TxGasUsed \div 5
        BY <1>1, <2>3, MinOfTwo
      <3> QED BY <2>2, <2>3, <3>1, Constants DEF ReceiptGasUsed
    <2> QED BY <2>1, <2>4, Constants, NextReceiptKeepsInv
  <1> QED BY <1>3, <1>4

-----------------------------------------------------------------------------
(* computeTraceStats and recordStorageChanges.                              *)

\* The steps of neither trace.
LEMMA MoveKeepsInv ==
  IInv /\ (BeginTransaction \/ Transfer \/ ReceiptsTraced \/ StorageFails) => IInv'
  <1> SUFFICES ASSUME IInv, BeginTransaction \/ Transfer \/ ReceiptsTraced \/ StorageFails
               PROVE  IInv'
    OBVIOUS
  <1>1. CASE BeginTransaction
    <2> DEFINE first == [left |-> GasLimit - Intrinsic, refund |-> 0]
    <2>1. /\ phase = "transaction" /\ phase' = "running" /\ receipt < Receipts
          /\ frames' = <<first>> /\ ~Tracing /\ Tracing'
          /\ UNCHANGED <<options, receipt, refund, logs, left, opCodeVars, inexact, diffVars>>
      BY <1>1 DEF BeginTransaction, Tracing
    <2>2. /\ refund = 0 /\ logs = <<>> /\ left = <<>> /\ idx = 0 /\ gasRefund = 0
          /\ Len(logs) = 0
      BY <2>1 DEF IInv, IdleInv
    <2>3. first \in Frame /\ first.left = GasLimit - Intrinsic /\ first.refund = 0
      BY Constants DEF Frame
    <2> HIDE DEF first
    <2>4. frames' \in Seq(Frame) /\ Len(frames') = 1 /\ frames'[1] = first
      BY <2>1, <2>3
    <2>5. Depth' = 1 /\ AllLeft' = GasLimit - Intrinsic
      BY <2>3, <2>4 DEF Depth, AllLeft
    <2>6. TraceTypeOK' /\ IdleInv' /\ RefundInv'
      BY <2>1, <2>2, <2>4 DEF IInv, TraceTypeOK, IdleInv, RefundInv, Tracing, opCodeVars
    <2>7. FrameInv'
      <3>1. AllLeft' = LeftAfter(Len(logs))'
        BY <2>1, <2>2, <2>5 DEF LeftAfter
      <3>2. \A d \in 1 .. 1 : frames'[d].refund + AllLeft' <= GasLimit
        BY <2>3, <2>4, <2>5, Constants
      <3> QED BY <2>1, <2>2, <2>5, <3>1, <3>2, Constants DEF FrameInv
    <2>8. LogInv' /\ ChargeInv'
      BY <2>1, <2>2 DEF LogInv, ChargeInv
    <2>9. GasInv' /\ DiffInv' /\ CountInv'
      BY <2>1 DEF IInv, GasInv, OpGasExact, GasHandled, opCodeVars, Tracing, diffVars, mergedVars, DiffInv,
         CountInv, SlotsExact, TriesExact, Counted
    <2> QED BY <2>6, <2>7, <2>8, <2>9 DEF IInv
  <1>2. CASE Transfer
    <2>1. /\ phase = "running" /\ phase' = "trace" /\ logs = <<>> /\ Tracing /\ Tracing'
          /\ UNCHANGED <<options, receipt, evmVars, opCodeVars, inexact, diffVars>>
      BY <1>2 DEF Transfer, Tracing
    <2>2. TraceTypeOK' /\ IdleInv' /\ RefundInv' /\ LogInv'
      BY <2>1 DEF IInv, TraceTypeOK, IdleInv, RefundInv, LogInv, Tracing, evmVars, opCodeVars,
         LeftAfter
    <2>3. FrameInv' /\ ChargeInv'
      BY <2>1 DEF IInv, FrameInv, ChargeInv, AllLeft, Depth, LeftAfter, evmVars, Own, Charge,
         Tracing
    <2>4. GasInv' /\ DiffInv' /\ CountInv'
      BY <2>1 DEF IInv, GasInv, OpGasExact, GasHandled, opCodeVars, Tracing, diffVars, mergedVars, DiffInv,
         CountInv, SlotsExact, TriesExact, Counted
    <2> QED BY <2>2, <2>3, <2>4 DEF IInv
  <1>3. CASE ReceiptsTraced \/ StorageFails
    <2>1. /\ ~Tracing /\ ~Tracing' /\ phase # "logs"
          /\ phase' \in {"storage", "done", "uncounted"}
          /\ phase' = "done" => "storage" \notin options
          /\ receipt' \in 0 .. Receipts
          /\ UNCHANGED <<options, evmVars, opCodeVars, inexact, diffVars>>
      BY <1>3, Constants DEF ReceiptsTraced, StorageFails, Tracing, IInv, TraceTypeOK
    <2>2. TraceTypeOK' /\ IdleInv' /\ FrameInv' /\ RefundInv' /\ LogInv'
      BY <2>1 DEF IInv, TraceTypeOK, IdleInv, FrameInv, RefundInv, LogInv, Tracing, evmVars,
         opCodeVars, LeftAfter
    <2>3. ChargeInv' /\ GasInv' /\ DiffInv' /\ CountInv'
      BY <2>1 DEF IInv, IdleInv, ChargeInv, evmVars, GasInv, OpGasExact, opCodeVars, Tracing,
         diffVars, mergedVars, DiffInv, CountInv, SlotsExact, TriesExact, Counted
    <2> QED BY <2>2, <2>3 DEF IInv
  <1> QED BY <1>1, <1>2, <1>3

\* One more transaction of the storage traces: what it changed was there
\* before, is there after, or both.
LEMMA MergeKeepsInv == IInv /\ MergeTrace => IInv'
  <1> SUFFICES ASSUME IInv, MergeTrace PROVE IInv'
    OBVIOUS
  <1>1. /\ phase = "storage" /\ phase' = "storage" /\ ~Tracing /\ ~Tracing'
        /\ receipt' \in 0 .. Receipts
        /\ UNCHANGED <<options, evmVars, opCodeVars, inexact, changed>>
    BY Constants DEF MergeTrace, Tracing, IInv, TraceTypeOK
  <1>2. DiffInv'
    <2>1. PICK new \in [Locations -> Values], gone \in SUBSET Accounts :
            LET diff == {l \in Locations : new[l] # storage[l]}
                listed == diff \ SlotsOf(gone)
            IN \E looked \in SUBSET SlotsOf(gone),
                  others \in SUBSET (Accounts \ AccountsOf(diff)) :
                 LET modified == AccountsOf(diff) \union others
                     found == {l \in listed : storage[l] # 0} \union looked
                 IN /\ pre' = Merge(pre, AccountsOf(found), found)
                    /\ post' = Merge(post, modified \ gone, {l \in listed : new[l] # 0})
                    /\ trueLocations' = trueLocations \union diff
                    /\ trueAccounts' = trueAccounts \union modified
                    /\ destroyed' = destroyed \union gone
                    /\ storage' = new
      BY DEF MergeTrace
    <2> DEFINE diff == {l \in Locations : new[l] # storage[l]}
               listed == diff \ SlotsOf(gone)
    <2>2. PICK looked \in SUBSET SlotsOf(gone), others \in SUBSET (Accounts \ AccountsOf(diff)) :
            LET modified == AccountsOf(diff) \union others
                found == {l \in listed : storage[l] # 0} \union looked
            IN /\ pre' = Merge(pre, AccountsOf(found), found)
               /\ post' = Merge(post, modified \ gone, {l \in listed : new[l] # 0})
               /\ trueLocations' = trueLocations \union diff
               /\ trueAccounts' = trueAccounts \union modified
               /\ destroyed' = destroyed \union gone
               /\ storage' = new
      BY <2>1
    <2> DEFINE modified == AccountsOf(diff) \union others
               found == {l \in listed : storage[l] # 0} \union looked
               after == {l \in listed : new[l] # 0}
    <2>3. /\ pre'.accounts = pre.accounts \union AccountsOf(found)
          /\ pre'.slots = pre.slots \union found
          /\ post'.accounts = post.accounts \union (modified \ gone)
          /\ post'.slots = post.slots \union after
          /\ trueLocations' = trueLocations \union diff
          /\ trueAccounts' = trueAccounts \union modified
          /\ destroyed' = destroyed \union gone
          /\ storage' = new
      BY <2>2 DEF Merge
    <2>4. /\ diff \subseteq Locations /\ modified \subseteq Accounts /\ gone \subseteq Accounts
          /\ AccountsOf(diff) \subseteq Accounts
      BY DEF Accounts, AccountsOf
    <2>5. /\ diff \ SlotsOf(gone) \subseteq found \union after
          /\ found \subseteq diff \union SlotsOf(gone) /\ after \subseteq diff \ SlotsOf(gone)
          /\ found \subseteq Locations
      BY DEF SlotsOf
    <2>6. AccountsOf(after) \subseteq modified \ gone
      BY DEF AccountsOf, SlotsOf
    <2>7. new \in [Locations -> Values]
      BY <2>1
    <2> HIDE DEF diff, listed, modified, found, after
    <2>8. SlotsOf(destroyed') = SlotsOf(destroyed) \union SlotsOf(gone)
      BY <2>3 DEF SlotsOf
    <2>9. /\ trueLocations' \subseteq Locations
          /\ pre'.slots \subseteq Locations /\ post'.slots \subseteq Locations
      BY <2>3, <2>4, <2>5 DEF IInv, DiffInv
    <2>10. /\ trueLocations' \ SlotsOf(destroyed') \subseteq pre'.slots \union post'.slots
           /\ pre'.slots \union post'.slots \subseteq trueLocations' \union SlotsOf(destroyed')
      BY <2>3, <2>5, <2>8 DEF IInv, DiffInv
    <2>11. /\ trueAccounts' \subseteq Accounts /\ destroyed' \subseteq Accounts
           /\ trueAccounts' \ destroyed' \subseteq post'.accounts
           /\ post'.accounts \subseteq trueAccounts'
      BY <2>3, <2>4 DEF IInv, DiffInv
    <2>12. AccountsOf(pre'.slots) \subseteq pre'.accounts
      BY <2>3 DEF IInv, DiffInv, AccountsOf
    <2>13. AccountsOf(post'.slots) \subseteq post'.accounts
      BY <2>3, <2>6 DEF IInv, DiffInv, AccountsOf
    <2> QED BY <2>3, <2>7, <2>9, <2>10, <2>11, <2>12, <2>13 DEF DiffInv
  <1>3. TraceTypeOK' /\ IdleInv' /\ FrameInv' /\ RefundInv' /\ LogInv'
    BY <1>1 DEF IInv, TraceTypeOK, IdleInv, FrameInv, RefundInv, LogInv, Tracing, evmVars,
       opCodeVars, LeftAfter
  <1>4. ChargeInv' /\ GasInv' /\ CountInv'
    BY <1>1 DEF IInv, IdleInv, ChargeInv, evmVars, GasInv, OpGasExact, opCodeVars, Tracing,
       CountInv, SlotsExact, TriesExact, Counted
  <1> QED BY <1>2, <1>3, <1>4 DEF IInv

\* A set between two others has as many elements as is between theirs.
LEMMA Between ==
  ASSUME NEW L, NEW M, NEW U, IsFiniteSet(U), L \subseteq M, M \subseteq U
  PROVE  Cardinality(M) \in Cardinality(L) .. Cardinality(U)
  <1>1. IsFiniteSet(M) /\ IsFiniteSet(L)
    BY FS_Subset
  <1>2. Cardinality(L) <= Cardinality(M) /\ Cardinality(M) <= Cardinality(U)
    BY <1>1, FS_Subset
  <1>3. Cardinality(L) \in Nat /\ Cardinality(M) \in Nat /\ Cardinality(U) \in Nat
    BY <1>1, FS_CardinalityType
  <1> QED BY <1>2, <1>3

\* Two sets without a common element.
LEMMA Disjoint ==
  ASSUME NEW S, NEW T, IsFiniteSet(S), IsFiniteSet(T), S \intersect T = {}
  PROVE  /\ IsFiniteSet(S \union T)
         /\ Cardinality(S \union T) = Cardinality(S) + Cardinality(T)
  <1>1. /\ IsFiniteSet(S \union T)
        /\ Cardinality(S \union T) = Cardinality(S) + Cardinality(T) - Cardinality(S \intersect T)
    BY FS_Union
  <1>2. Cardinality(S) \in Nat /\ Cardinality(T) \in Nat /\ Cardinality(S \intersect T) = 0
    BY FS_CardinalityType, FS_EmptySet
  <1> DEFINE both == S \intersect T
             all == S \union T
  <1> HIDE DEF both, all
  <1>3. Cardinality(all) = Cardinality(S) + Cardinality(T) - Cardinality(both) /\ Cardinality(both) = 0
    BY <1>1, <1>2 DEF both, all
  <1>4. Cardinality(all) = Cardinality(S) + Cardinality(T)
    BY <1>2, <1>3
  <1> QED BY <1>1, <1>4 DEF all

\* There are finitely many accounts.
LEMMA FiniteAccounts == IsFiniteSet(Accounts)
  <1> DEFINE account == [l \in Locations |-> l[1]]
  <1>1. account \in Surjection(Locations, Accounts)
    BY DEF Surjection, Accounts, AccountsOf
  <1> QED BY <1>1, TracesAssumption, FS_Surjection

\* A location is counted as deleted or as left with a value, not both.
LEMMA CountKeepsInv == IInv /\ CountChanges => IInv'
  <1> SUFFICES ASSUME IInv, CountChanges PROVE IInv'
    OBVIOUS
  <1>1. /\ phase = "storage" /\ phase' = "done" /\ ~Tracing /\ ~Tracing'
        /\ UNCHANGED <<options, receipt, evmVars, opCodeVars, inexact, storage, pre, post,
                       trueLocations, trueAccounts, destroyed>>
        /\ changed' = [accounts |-> Cardinality(post.accounts),
                       slots |-> Cardinality(Deleted) + Cardinality(post.slots),
                       tries |-> Cardinality(AccountsOf(Deleted \union post.slots))]
    BY DEF CountChanges, Tracing, mergedVars
  <1> DEFINE certain == trueLocations \ SlotsOf(destroyed)
             all == Deleted \union post.slots
  <1>2. /\ certain \subseteq all /\ all \subseteq certain \union SlotsOf(destroyed)
        /\ all \subseteq trueLocations \union SlotsOf(destroyed)
        /\ Deleted \intersect post.slots = {} /\ certain \intersect SlotsOf(destroyed) = {}
    BY DEF IInv, DiffInv, Deleted
  <1>3. /\ IsFiniteSet(Deleted) /\ IsFiniteSet(post.slots) /\ IsFiniteSet(certain)
        /\ IsFiniteSet(SlotsOf(destroyed))
    <2>1. /\ Deleted \subseteq Locations /\ post.slots \subseteq Locations
          /\ certain \subseteq Locations /\ SlotsOf(destroyed) \subseteq Locations
      BY DEF IInv, DiffInv, Deleted, SlotsOf
    <2> QED BY <2>1, TracesAssumption, FS_Subset
  <1>4. Cardinality(all) = Cardinality(Deleted) + Cardinality(post.slots)
    BY <1>2, <1>3, Disjoint
  <1>5. Cardinality(all) \in
          Cardinality(certain) .. Cardinality(certain) + Cardinality(SlotsOf(destroyed))
    <2>1. /\ IsFiniteSet(certain \union SlotsOf(destroyed))
          /\ Cardinality(certain \union SlotsOf(destroyed)) =
               Cardinality(certain) + Cardinality(SlotsOf(destroyed))
      BY <1>2, <1>3, Disjoint
    <2>2. Cardinality(all) \in Cardinality(certain) .. Cardinality(certain \union SlotsOf(destroyed))
      BY <1>2, <2>1, Between
    <2> QED BY <2>1, <2>2
  <1>6. SlotsExact'
    BY <1>1, <1>4, <1>5 DEF SlotsExact, Counted
  <1>7. changed'.accounts \in Cardinality(trueAccounts \ destroyed) .. Cardinality(trueAccounts)
    <2>1. IsFiniteSet(trueAccounts)
      BY FiniteAccounts, FS_Subset DEF IInv, DiffInv
    <2>2. /\ trueAccounts \ destroyed \subseteq post.accounts
          /\ post.accounts \subseteq trueAccounts
      BY DEF IInv, DiffInv
    <2>3. Cardinality(post.accounts) \in
            Cardinality(trueAccounts \ destroyed) .. Cardinality(trueAccounts)
      BY <2>1, <2>2, Between
    <2> QED BY <1>1, <2>3
  <1>8. changed'.tries \in Cardinality(AccountsOf(trueLocations) \ destroyed)
                             .. Cardinality(AccountsOf(trueLocations) \union destroyed)
    <2>1. AccountsOf(trueLocations) \ destroyed \subseteq AccountsOf(all)
      BY <1>2 DEF AccountsOf, SlotsOf, IInv, DiffInv
    <2>2. AccountsOf(all) \subseteq AccountsOf(trueLocations) \union destroyed
      BY <1>2 DEF AccountsOf, SlotsOf
    <2>3. AccountsOf(trueLocations) \union destroyed \subseteq Accounts
      BY DEF IInv, DiffInv, Accounts, AccountsOf
    <2>4. IsFiniteSet(AccountsOf(trueLocations) \union destroyed)
      BY <2>3, FiniteAccounts, FS_Subset
    <2>5. Cardinality(AccountsOf(all)) \in Cardinality(AccountsOf(trueLocations) \ destroyed)
                                             .. Cardinality(AccountsOf(trueLocations) \union destroyed)
      BY <2>1, <2>2, <2>4, Between
    <2> QED BY <1>1, <2>5
  <1>9. TriesExact'
    BY <1>1, <1>7, <1>8 DEF TriesExact
  <1>10. CountInv' /\ DiffInv'
    BY <1>1, <1>6, <1>9 DEF IInv, DiffInv, CountInv
  <1>11. TraceTypeOK' /\ IdleInv' /\ FrameInv' /\ RefundInv' /\ LogInv'
    BY <1>1 DEF IInv, TraceTypeOK, IdleInv, FrameInv, RefundInv, LogInv, Tracing, evmVars,
       opCodeVars, LeftAfter
  <1>12. ChargeInv' /\ GasInv'
    BY <1>1 DEF IInv, IdleInv, ChargeInv, evmVars, GasInv, OpGasExact, opCodeVars, Tracing
  <1> QED BY <1>10, <1>11, <1>12 DEF IInv

-----------------------------------------------------------------------------
(* The invariant.                                                           *)

\* Before the first receipt nothing has been counted.
LEMMA InvInit == Init => IInv
  <1> SUFFICES ASSUME Init PROVE IInv
    OBVIOUS
  <1>1. ~Tracing /\ phase \in {"transaction", "storage"}
    BY DEF Init, Tracing
  <1>2. TraceTypeOK
    <2>1. NoStats \in [AllNames -> OpCodeStats] /\ NoGas \in [AllNames -> Nat]
      BY Constants DEF NoStats, NoGas, OpCodeStats
    <2> QED BY <1>1, <2>1, Constants DEF Init, TraceTypeOK
  <1>3. IdleInv /\ FrameInv /\ LogInv /\ ChargeInv /\ RefundInv
    BY <1>1 DEF Init, IdleInv, FrameInv, LogInv, ChargeInv, RefundInv
  <1>4. GasInv
    BY <1>1, Constants DEF Init, GasInv, OpGasExact, GasHandled, NoStats, NoGas
  <1>5. DiffInv
    <2>1. storage \in [Locations -> Values]
      BY TracesAssumption DEF Init
    <2> QED BY <2>1 DEF Init, DiffInv, NoDiff, AccountsOf, Accounts, SlotsOf
  <1>6. CountInv
    BY <1>1 DEF CountInv, SlotsExact, TriesExact, Counted
  <1> QED BY <1>2, <1>3, <1>4, <1>5, <1>6 DEF IInv

\* No step breaks the invariant.
LEMMA InvStep == IInv /\ [Next]_vars => IInv'
  <1> SUFFICES ASSUME IInv, [Next]_vars PROVE IInv'
    OBVIOUS
  <1>1. CASE UNCHANGED vars
    <2> USE <1>1 DEF vars, evmVars, opCodeVars, diffVars, mergedVars
    <2>1. TraceTypeOK' /\ IdleInv' /\ FrameInv' /\ LogInv'
      BY DEF IInv, TraceTypeOK, IdleInv, FrameInv, LogInv, Tracing, AllLeft, Depth, LeftAfter
    <2>2. ChargeInv' /\ RefundInv'
      BY DEF IInv, ChargeInv, RefundInv, Own, LeftAfter, GasLeft, AllLeft, Depth, Charge
    <2>3. GasInv' /\ DiffInv' /\ CountInv'
      BY DEF IInv, GasInv, OpGasExact, GasHandled, LeftAfter, Tracing, DiffInv, CountInv,
         SlotsExact, TriesExact, Counted
    <2> QED BY <2>1, <2>2, <2>3 DEF IInv
  <1>2. CASE \/ ClearSlot \/ Stop \/ OutOfGas
             \/ \E cost \in 1 .. 2 : Step(cost)
             \/ \E passed \in 1 .. 2, stipend \in 0 .. OwnCost : Call(passed, stipend)
             \/ \E passed \in 1 .. 2, used \in 0 .. 1 : CallPrecompile(passed, used)
             \/ \E passed \in 1 .. 2 : Create(passed)
    BY <1>2, InstructionKeepsInv
  <1>3. CASE BeginTransaction \/ Transfer \/ ReceiptsTraced \/ StorageFails
    BY <1>3, MoveKeepsInv
  <1>4. CASE TraceTransaction \/ TraceLog \/ TraceRefund \/ TraceFails
    BY <1>4, TraceTransactionKeepsInv, TraceLogKeepsInv, ReceiptKeepsInv
  <1>5. CASE MergeTrace \/ CountChanges
    BY <1>5, MergeKeepsInv, CountKeepsInv
  <1> QED BY <1>1, <1>2, <1>3, <1>4, <1>5 DEF Next, Terminated

\* The invariant holds throughout.
LEMMA Invariance == Spec => []IInv
BY InvInit, InvStep, PTL DEF Spec

-----------------------------------------------------------------------------
(* Theorems                                                                 *)

\* The state keeps its shape: unsigned gas stays unsigned, and every changed
\* slot belongs to a changed account.
THEOREM TracesTypeCorrect == Spec => []TypeOK
  <1>1. IInv => TypeOK
    <2> SUFFICES ASSUME IInv PROVE TypeOK
      OBVIOUS
    <2>1. Depth <= MaxDepth
      <3>1. CASE Tracing
        BY <3>1, Constants DEF IInv, FrameInv
      <3>2. CASE ~Tracing
        BY <3>2, Constants DEF IInv, IdleInv, Depth
      <3> QED BY <3>1, <3>2
    <2>2. \A o \in AllNames : opCodes[o].count \in Nat /\ opCodes[o].gas \in 0 .. MaxUint64
      BY DEF IInv, TraceTypeOK, OpCodeStats
    <2>3. \A d \in {pre, post} : d.slots \subseteq Locations /\ AccountsOf(d.slots) \subseteq d.accounts
      BY DEF IInv, DiffInv
    <2> QED BY <2>1, <2>2, <2>3 DEF IInv, TraceTypeOK, TypeOK
  <1> QED BY Invariance, <1>1, PTL

\* The statistics charge every opcode with exactly the gas it used for itself
\* (trace.go: the three cases of opGas), but for the ones that the logs cannot
\* tell.
THEOREM GasIsExact == Spec => []OpGasExact
  <1>1. IInv => OpGasExact
    BY DEF IInv, GasInv
  <1> QED BY Invariance, <1>1, PTL

\* Every changed location is counted once, but those of accounts that destroyed
\* themselves at most once (trace.go: recordStorageChanges).
THEOREM SlotsAreExact == Spec => []SlotsExact
  <1>1. IInv => SlotsExact
    BY DEF IInv, CountInv
  <1> QED BY Invariance, <1>1, PTL

\* Every changed account and its trie is counted, but of the accounts that
\* destroyed themselves only some: it is those after a transaction that are
\* counted (trace.go: AccountsChanged).
THEOREM TriesAreExact == Spec => []TriesExact
  <1>1. IInv => TriesExact
    BY DEF IInv, CountInv
  <1> QED BY Invariance, <1>1, PTL
=============================================================================
