------------------------------ MODULE Traces ------------------------------
(***************************************************************************)
(* The statistics taken from traces (packages/replayor/trace.go): for each *)
(* receipt of a block the gas of its instructions by opcode, and then the  *)
(* storage that the block's transactions changed.                          *)
(*                                                                         *)
(* The traces are the destination's (external): an EVM that executes a     *)
(* transaction and logs, before each instruction, its cost, the gas left,  *)
(* the refund so far and the depth; and the storage before and after each  *)
(* transaction, where they differ (of an account that destroyed itself,    *)
(* only what was before). What it knows of its own gas and storage is the  *)
(* reference for what is read off the traces.                              *)
(***************************************************************************)
EXTENDS Integers, Sequences, FiniteSets, FiniteSetsExt

CONSTANTS
  Options,        \* which of benchmarkOpcodes and diffStorage may be set
  Receipts,       \* how many transactions the block has
  GasLimit,       \* of each transaction
  MaxLogs,        \* bound on the instructions of a transaction
  MaxDepth,       \* bound on the depth of calls
  Locations,      \* the storage: pairs <<account, slot>>
  Values,         \* what a slot may hold, 0 when it is empty
  MaxUint64       \* where unsigned gas wraps

ASSUME TracesAssumption ==
  /\ Options \subseteq SUBSET {"opcodes", "storage"}
  /\ {Receipts, GasLimit, MaxLogs, MaxDepth, MaxUint64} \subseteq Nat \ {0}
  /\ Receipts * GasLimit <= MaxUint64
  /\ IsFiniteSet(Locations)
  /\ 0 \in Values

VARIABLES
  options,        \* benchmarkOpcodes, diffStorage
  phase,          \* computeTraceStats: where it is
  receipt,        \* the receipts handled so far
  frames,         \* the EVM: at each depth the gas left there and in the frames
                  \* above, and what the refund counter was when it began
  refund,         \* the EVM: the refund counter
  logs,           \* the trace of the transaction
  left,           \* the gas left to the transaction after each of its logs
  idx, gasRefund, \* traceReceipt: the logs handled so far, their last refund
  opCodes,        \* the statistics: count and gas by opcode
  trueGas,        \* what opCodes should say of the gas
  inexact,        \* the opcodes whose gas a creation or a halt has distorted
  storage,        \* the destination's storage
  pre, post,      \* mergedTrace: its accounts and its slots
  trueLocations,  \* the locations that some transaction changed
  trueAccounts,   \* the accounts that some transaction changed
  destroyed,      \* the accounts that destroyed themselves in some transaction
  changed         \* AccountsChanged, SlotsChanged, StorageTriesChanged

evmVars == <<frames, refund, logs, left>>
opCodeVars == <<idx, gasRefund, opCodes, trueGas>>
mergedVars == <<storage, pre, post, trueLocations, trueAccounts, destroyed>>
diffVars == <<mergedVars, changed>>
vars == <<options, phase, receipt, evmVars, opCodeVars, inexact, diffVars>>

Intrinsic == 1   \* gas of a transaction before its first instruction
OwnCost == 1     \* gas of a call or creation, apart from what it passes on
OpNames == {"STEP", "SSTORE", "CALL", "CREATE", "STOP"}
AllNames == OpNames \union {"TRANSACTION", "REFUND", "UNKNOWN"}
NoGas == [o \in AllNames |-> 0]
NoStats == [o \in AllNames |-> [count |-> 0, gas |-> 0]]
AccountsOf(locations) == {l[1] : l \in locations}
Accounts == AccountsOf(Locations)
SlotsOf(accounts) == {l \in Locations : l[1] \in accounts}
NoDiff == [accounts |-> {}, slots |-> {}]

Init ==
  /\ options \in Options
  /\ phase = IF "opcodes" \in options THEN "transaction" ELSE "storage"
  /\ receipt = 0
  /\ frames = <<>> /\ refund = 0 /\ logs = <<>> /\ left = <<>>
  /\ idx = 0 /\ gasRefund = 0
  /\ opCodes = NoStats /\ trueGas = NoGas
  /\ inexact = {}
  /\ storage \in IF "storage" \in options THEN [Locations -> Values]
                                          ELSE {[l \in Locations |-> 0]}
  /\ pre = NoDiff /\ post = NoDiff
  /\ trueLocations = {} /\ trueAccounts = {} /\ destroyed = {}
  /\ changed = [accounts |-> 0, slots |-> 0, tries |-> 0]

-----------------------------------------------------------------------------
(* The EVM (external).                                                      *)

Depth == Len(frames)
AllLeft == frames[Depth].left
GasLeft == AllLeft - IF Depth = 1 THEN 0 ELSE frames[Depth - 1].left

BeginTransaction ==
  /\ phase = "transaction" /\ receipt < Receipts
  /\ phase' = "running"
  /\ frames' = <<[left |-> GasLimit - Intrinsic, refund |-> 0]>>
  /\ UNCHANGED <<options, receipt, refund, logs, left, opCodeVars, inexact, diffVars>>

\* A transfer executes no instruction: nothing is logged.
Transfer ==
  /\ phase = "running" /\ logs = <<>>
  /\ phase' = "trace"
  /\ UNCHANGED <<options, receipt, evmVars, opCodeVars, inexact, diffVars>>

Executing == phase = "running" /\ Len(logs) < MaxLogs

\* An instruction is logged, executed and leaves that much to the transaction.
Execute(op, cost, remaining) ==
  /\ logs' = Append(logs, [op |-> op, gas |-> GasLeft, cost |-> cost,
                           refund |-> refund, depth |-> Depth])
  /\ left' = Append(left, remaining)
  /\ UNCHANGED <<options, receipt, opCodeVars, diffVars>>

Spend(gas) == frames' = [frames EXCEPT ![Depth].left = @ - gas]

\* A new innermost frame, with that gas from its caller and a stipend.
BeginFrame(passed, stipend) ==
  frames' = Append([frames EXCEPT ![Depth].left = @ - (OwnCost + passed)],
                   [left |-> AllLeft - OwnCost + stipend, refund |-> refund])

\* The innermost frame ends, and its caller gets what is left.
EndFrame(remaining) ==
  IF Depth = 1 THEN frames' = [frames EXCEPT ![1].left = remaining] /\ phase' = "trace"
  ELSE /\ frames' = [SubSeq(frames, 1, Depth - 1) EXCEPT ![Depth - 1].left = remaining]
       /\ UNCHANGED phase

Step(cost) ==
  /\ Executing /\ cost <= GasLeft
  /\ Execute("STEP", cost, AllLeft - cost)
  /\ Spend(cost)
  /\ UNCHANGED <<phase, refund, inexact>>

ClearSlot ==
  /\ Executing /\ GasLeft >= 1
  /\ Execute("SSTORE", 1, AllLeft - 1)
  /\ Spend(1)
  /\ refund' = refund + 1
  /\ UNCHANGED <<phase, inexact>>

\* The logged cost of a call includes the gas passed on; the stipend that comes
\* with a value does not.
Call(passed, stipend) ==
  /\ Executing /\ Depth < MaxDepth /\ OwnCost + passed <= GasLeft
  /\ Execute("CALL", OwnCost + passed, AllLeft - OwnCost + stipend)
  /\ BeginFrame(passed, stipend)
  /\ UNCHANGED <<phase, refund, inexact>>

\* A call of a precompile: what it uses is the call's own, and the rest of the
\* gas passed on is back before the next instruction.
CallPrecompile(passed, used) ==
  /\ Executing /\ OwnCost + passed <= GasLeft /\ used <= passed
  /\ Execute("CALL", OwnCost + passed, AllLeft - (OwnCost + used))
  /\ Spend(OwnCost + used)
  /\ UNCHANGED <<phase, refund, inexact>>

\* The logged cost of a creation does not include the gas passed on.
Create(passed) ==
  /\ Executing /\ Depth < MaxDepth /\ OwnCost + passed <= GasLeft
  /\ Execute("CREATE", OwnCost, AllLeft - OwnCost)
  /\ BeginFrame(passed, 0)
  /\ inexact' = inexact \union {"CREATE"}
  /\ UNCHANGED <<phase, refund>>

Stop ==
  /\ Executing
  /\ Execute("STOP", 0, AllLeft)
  /\ EndFrame(AllLeft)
  /\ UNCHANGED <<refund, inexact>>

\* An instruction that costs more than is left takes all of it, and the frame's
\* refunds are taken back. Out of the first frame, no log shows that.
OutOfGas ==
  /\ Executing
  /\ Execute("STEP", GasLeft + 1, AllLeft - GasLeft)
  /\ EndFrame(AllLeft - GasLeft)
  /\ refund' = frames[Depth].refund
  /\ inexact' = inexact \union IF Depth = 1 THEN {"STEP", "REFUND"} ELSE {"STEP"}

\* What an instruction has used for itself.
LeftAfter(i) == IF i = 0 THEN GasLimit - Intrinsic ELSE left[i]
Own(i) == LeftAfter(i - 1) - LeftAfter(i)

TxGasUsed == GasLimit - frames[1].left
ReceiptGasUsed == TxGasUsed - Min({refund, TxGasUsed \div 5})

-----------------------------------------------------------------------------
(* traceReceipt.                                                            *)

\* A bug: signed arithmetic.
WrapNot(n) == n

\* Unsigned arithmetic.
Wrap(n) == n % (MaxUint64 + 1)

\* A bug: a call is charged with the gas it passes on.
OpGasWithPassed(i) ==
  IF i < Len(logs) /\ logs[i].depth = logs[i + 1].depth
  THEN Wrap(logs[i].gas - logs[i + 1].gas)
  ELSE logs[i].cost

\* The gas of one instruction, from its log and the next one.
OpGas(i) ==
  CASE i < Len(logs) /\ logs[i].depth < logs[i + 1].depth ->
         Wrap(logs[i].cost - logs[i + 1].gas)
    [] i < Len(logs) /\ logs[i].depth = logs[i + 1].depth ->
         Wrap(logs[i].gas - logs[i + 1].gas)
    [] OTHER -> logs[i].cost

\* A trace without logs says itself how much gas was used.
TransactionGas == IF logs = <<>> THEN TxGasUsed ELSE GasLimit - logs[1].gas

Add(op, gas) ==
  opCodes' = [opCodes EXCEPT ![op] = [count |-> @.count + 1, gas |-> Wrap(@.gas + gas)]]

Used(op, gas) == trueGas' = [trueGas EXCEPT ![op] = @ + gas]

NextReceipt ==
  /\ receipt' = receipt + 1
  /\ phase' = "transaction"
  /\ frames' = <<>> /\ refund' = 0 /\ logs' = <<>> /\ left' = <<>>
  /\ idx' = 0 /\ gasRefund' = 0
  /\ UNCHANGED <<options, inexact, diffVars>>

\* The trace cannot be had: all goes to UNKNOWN.
TraceFails ==
  /\ phase = "trace"
  /\ Add("UNKNOWN", ReceiptGasUsed)
  /\ Used("UNKNOWN", ReceiptGasUsed)
  /\ NextReceipt

TraceTransaction ==
  /\ phase = "trace"
  /\ Add("TRANSACTION", TransactionGas)
  /\ Used("TRANSACTION", Intrinsic)
  /\ phase' = "logs"
  /\ UNCHANGED <<options, receipt, evmVars, idx, gasRefund, inexact, diffVars>>

TraceLog ==
  /\ phase = "logs" /\ idx < Len(logs)
  /\ idx' = idx + 1
  /\ Add(logs[idx'].op, OpGas(idx'))
  /\ Used(logs[idx'].op, Own(idx'))
  /\ gasRefund' = logs[idx'].refund
  /\ UNCHANGED <<options, phase, receipt, evmVars, inexact, diffVars>>

TraceRefund ==
  /\ phase = "logs" /\ idx = Len(logs)
  /\ Add("REFUND", gasRefund)
  /\ Used("REFUND", refund)
  /\ NextReceipt

ReceiptsTraced ==
  /\ phase = "transaction" /\ receipt = Receipts
  /\ phase' = IF "storage" \in options THEN "storage" ELSE "done"
  /\ receipt' = 0
  /\ UNCHANGED <<options, evmVars, opCodeVars, inexact, diffVars>>

-----------------------------------------------------------------------------
(* recordStorageChanges. Of the values only their presence is kept.         *)

\* A bug: an account's slots are replaced by the next transaction's.
MergeReplacing(diff, accounts, slots) ==
  [accounts |-> diff.accounts \union accounts,
   slots |-> {l \in diff.slots : l[1] \notin accounts} \union slots]

Merge(diff, accounts, slots) ==
  [accounts |-> diff.accounts \union accounts, slots |-> diff.slots \union slots]

\* One transaction's trace, with the changes it made to slots and, on some
\* other accounts, to something else. Of an account that destroyed itself the trace
\* has no state after it, and before it the slots that were looked up, changed
\* or not. (An account before it that is listed without slots counts nowhere:
\* it is left out.)
MergeTrace ==
  /\ phase = "storage" /\ receipt < Receipts
  /\ \E new \in [Locations -> Values], gone \in SUBSET Accounts :
       LET diff == {l \in Locations : new[l] # storage[l]}
           listed == diff \ SlotsOf(gone)
       IN \E looked \in SUBSET SlotsOf(gone), others \in SUBSET (Accounts \ AccountsOf(diff)) :
            LET modified == AccountsOf(diff) \union others
                found == {l \in listed : storage[l] # 0} \union looked
            IN /\ pre' = Merge(pre, AccountsOf(found), found)
               /\ post' = Merge(post, modified \ gone, {l \in listed : new[l] # 0})
               /\ trueLocations' = trueLocations \union diff
               /\ trueAccounts' = trueAccounts \union modified
               /\ destroyed' = destroyed \union gone
               /\ storage' = new
  /\ receipt' = receipt + 1
  /\ UNCHANGED <<options, phase, evmVars, opCodeVars, inexact, changed>>

\* Slots that some transaction found and none left with a value.
Deleted == pre.slots \ post.slots

\* A bug: deleted slots are left out.
CountChangesOfPost ==
  /\ phase = "storage" /\ receipt = Receipts
  /\ changed' = [accounts |-> Cardinality(post.accounts),
                 slots |-> Cardinality(post.slots),
                 tries |-> Cardinality(AccountsOf(post.slots))]
  /\ phase' = "done"
  /\ UNCHANGED <<options, receipt, evmVars, opCodeVars, inexact, mergedVars>>

CountChanges ==
  /\ phase = "storage" /\ receipt = Receipts
  /\ changed' = [accounts |-> Cardinality(post.accounts),
                 slots |-> Cardinality(Deleted) + Cardinality(post.slots),
                 tries |-> Cardinality(AccountsOf(Deleted \union post.slots))]
  /\ phase' = "done"
  /\ UNCHANGED <<options, receipt, evmVars, opCodeVars, inexact, mergedVars>>

\* The traces of the block cannot be had: nothing is counted.
StorageFails ==
  /\ phase = "storage" /\ receipt = 0
  /\ phase' = "uncounted"
  /\ UNCHANGED <<options, receipt, evmVars, opCodeVars, inexact, diffVars>>

\* An execution that MaxLogs cuts off is not traced.
CutOff == phase = "running" /\ Len(logs) = MaxLogs
Terminated == (CutOff \/ phase \in {"done", "uncounted"}) /\ UNCHANGED vars

Next ==
  \/ BeginTransaction \/ Transfer \/ ClearSlot \/ Stop \/ OutOfGas
  \/ \E cost \in 1 .. 2 : Step(cost)
  \/ \E passed \in 1 .. 2, stipend \in 0 .. OwnCost : Call(passed, stipend)
  \/ \E passed \in 1 .. 2, used \in 0 .. 1 : CallPrecompile(passed, used)
  \/ \E passed \in 1 .. 2 : Create(passed)
  \/ TraceFails \/ TraceTransaction \/ TraceLog \/ TraceRefund \/ ReceiptsTraced
  \/ MergeTrace \/ CountChanges \/ StorageFails
  \/ Terminated

Spec == Init /\ [][Next]_vars

-----------------------------------------------------------------------------
(* Properties                                                               *)

\* The state's shape.
TypeOK ==
  /\ phase \in {"transaction", "running", "trace", "logs", "storage", "done", "uncounted"}
  /\ receipt \in 0 .. Receipts
  /\ Len(logs) <= MaxLogs /\ Depth <= MaxDepth /\ idx \in 0 .. Len(logs)
  /\ \A o \in AllNames : opCodes[o].count \in Nat /\ opCodes[o].gas \in 0 .. MaxUint64
  /\ \A d \in {pre, post} : d.slots \subseteq Locations /\ AccountsOf(d.slots) \subseteq d.accounts

\* Across calls, stipends, precompiles, refunds and failing frames, the
\* statistics charge every opcode of the block with exactly the gas it used for
\* itself. Only a creation's own gas, that of an instruction that ran out, and
\* the refund of a transaction that failed as a whole are not to be had from
\* the logs, and they distort no other opcode.
OpGasExact ==
  \A o \in AllNames \ inexact : opCodes[o].gas = trueGas[o]

Counted == phase = "done" /\ "storage" \in options

\* The storage statistics count each location that some transaction changed
\* once, whether it was added, updated, deleted or all of these in turn. What
\* they say of accounts that destroyed themselves is not exact (changed slots may
\* be missing and unchanged ones counted), but it adds none twice and takes
\* nothing from what the others add.
SlotsExact ==
  Counted => LET certain == Cardinality(trueLocations \ SlotsOf(destroyed))
             IN changed.slots \in certain .. certain + Cardinality(SlotsOf(destroyed))

\* They count every account that was changed, and as changed tries those with a
\* changed slot, deletions included; of the accounts that destroyed themselves,
\* which the traces do not list among the accounts after a transaction, some.
TriesExact ==
  Counted =>
    /\ changed.accounts \in Cardinality(trueAccounts \ destroyed) .. Cardinality(trueAccounts)
    /\ changed.tries \in Cardinality(AccountsOf(trueLocations) \ destroyed)
                           .. Cardinality(AccountsOf(trueLocations) \union destroyed)
=============================================================================
