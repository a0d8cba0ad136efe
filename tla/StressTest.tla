---------------------------- MODULE StressTest ----------------------------
(***************************************************************************)
(* The stress strategy (packages/strategies/stress.go), under a            *)
(* configuration that packages/config/config.go lets through: it funds an  *)
(* account per block, deploys a contract in the first block, and then      *)
(* replaces the transactions of every block by calls of that contract.     *)
(* Nonces and the contract's address are worked out locally, by mapBlocks, *)
(* ahead of the destination that executes the blocks.                      *)
(*                                                                         *)
(* Blocks count from the start block. Gas and fees are in small units. The *)
(* destination is external: as the README says, it drops a transaction     *)
(* that fails and keeps the rest of the block. It goes by the base fee of  *)
(* its own blocks, while a transaction has a fixed fee cap and the tip of  *)
(* a transaction of the source's.                                          *)
(***************************************************************************)
EXTENDS Integers, Sequences, Config

CONSTANTS
  NumAddresses,   \* numAddresses, and the last funding block (10 in the code)
  BlockCount,     \* bound on the blocks that are mapped
  QueueCap,       \* how many mapped blocks can wait for their execution
  GasTargets, GasLimits,      \* values of the two options
  DepositGas,     \* the deposits of a block, the source's and the funding one
  DeployGas,      \* gas of the deployment (2_000_000 in the code)
  TransferGas,    \* gas of an ERC20 transfer (23_000)
  CallGas,        \* what a call of the storage contract uses (some 4_800_000)
  GasBuffer,      \* what a call of the precompile contract may leave (300_000)
  LowFeeCap,      \* of the deployment and a transfer (999_999_999_999)
  HighFeeCap,     \* of a call of the two others (a million times that)
  Mint,           \* what an account is funded with (10^26)
  DataFee,        \* what the destination charges for a transaction's data
  Tips, BaseFees  \* tips of the source's transactions, base fees of the
                  \* destination's blocks

ASSUME StressTestAssumption ==
  /\ NumAddresses \in Nat \ {0}
  /\ BlockCount \in Nat
  /\ QueueCap \in Nat \ {0}
  /\ GasTargets \subseteq Nat /\ GasLimits \subseteq Nat
  /\ DepositGas \in Nat /\ DeployGas \in Nat \ {0}
  /\ TransferGas \in Nat \ {0, 1} /\ CallGas \in Nat \ {0, 1}
  /\ GasBuffer \in Nat \ {0}
  /\ LowFeeCap \in Nat /\ HighFeeCap \in Nat
  /\ Mint \in Nat /\ DataFee \in Nat
  /\ Tips \subseteq Nat /\ BaseFees \subseteq Nat

VARIABLES
  cfg,            \* the configuration
  market,         \* the highest tip and the highest base fee there will be
  mapped,         \* BlockReceived: how many blocks it has seen
  nonces,         \* the next nonce of each account, as counted locally
  testContractAddress,
  panicked,       \* BlockReceived has taken the process down
  pending,        \* the blocks mapped and not yet executed
  executed,       \* how many blocks the destination has executed
  handled,        \* how many transactions of the next it has been through
  gasPool,        \* the gas left for more of them
  gasUsed,        \* what the strategy's of them have used
  chainNonces,    \* the next nonce of each account on the destination
  mints,          \* how often each account has been funded there
  balances,       \* what each account has there
  baseFee,        \* the base fee of the next block
  contracts,      \* the contracts there
  lastGasUsed     \* what the strategy's transactions used in its last block

strategyVars == <<mapped, nonces, testContractAddress>>
chainVars == <<executed, handled, gasPool, gasUsed, chainNonces, mints, balances,
               baseFee, contracts, lastGasUsed>>
vars == <<cfg, market, strategyVars, panicked, pending, chainVars>>

Accounts == 0 .. NumAddresses - 1
IntrinsicGas == 1   \* what a transaction uses at least
NoContract == <<>>
ContractAddress(from, nonce) == <<from, nonce>>
AtMost(values, bound) == {v \in values : v <= bound}

-----------------------------------------------------------------------------
(* The configuration.                                                       *)

Configurations ==
  [strategy : {"stress"},
   stressTestType : {"", "precompile", "storage", "erc20", "other"},
   stressTestFunction : {"", "known", "other"},
   gasTarget : GasTargets, gasLimit : GasLimits]

Init ==
  /\ cfg \in {c \in Configurations : GasOptionsValid(c) /\ StressOptionsValid(c)}
  /\ market \in [tip : Tips, baseFee : BaseFees]
  /\ mapped = 0
  /\ nonces = [a \in Accounts |-> 0]
  /\ testContractAddress = NoContract
  /\ panicked = FALSE
  /\ pending = <<>>
  /\ executed = 0 /\ handled = 0
  /\ gasPool = cfg.gasLimit /\ gasUsed = 0
  /\ chainNonces = [a \in Accounts |-> 0]
  /\ mints = [a \in Accounts |-> 0]
  /\ balances = [a \in Accounts |-> 0]
  /\ baseFee \in AtMost(BaseFees, market.baseFee)
  /\ contracts = {}
  /\ lastGasUsed = 0

-----------------------------------------------------------------------------
(* BlockReceived: the transactions added to a block.                        *)

Receiving == ~panicked /\ mapped < BlockCount /\ Len(pending) < QueueCap

Panics ==
  /\ panicked' = TRUE
  /\ UNCHANGED <<cfg, market, strategyVars, pending, chainVars>>

\* A block without transactions, or whose first does not parse as the L1 block's
\* data, takes the process down, wherever it is.
NotARollupBlock == Receiving /\ Panics

\* A bug: a block goes to the submitter twice.
HandTwice(transactions) ==
  /\ mapped' = mapped + 1
  /\ pending' = pending \o <<transactions, transactions>>
  /\ UNCHANGED <<cfg, market, panicked, chainVars>>

\* The block's transactions go to the submitter, and thence to the destination.
Hand(transactions) ==
  /\ mapped' = mapped + 1
  /\ pending' = Append(pending, transactions)
  /\ UNCHANGED <<cfg, market, panicked, chainVars>>

IsFundingBlock == mapped + 1 < NumAddresses + 1

\* A bug: the account's index is off by one.
DepositAccountOffByOne == mapped + 1

\* The account that the deposit of this block is for.
DepositAccount == mapped

\* A deposit has no nonce of its own, but moves its sender's.
Deposit == [kind |-> "deposit", from |-> DepositAccount, nonce |-> 0,
            gas |-> DepositGas, tip |-> 0, to |-> NoContract]

\* A bug: a deposit is taken not to move the nonce.
AfterDepositSameNonce == nonces

AfterDeposit == [nonces EXCEPT ![DepositAccount] = @ + 1]

Deployment(tip) == [kind |-> "deploy", from |-> 0, nonce |-> AfterDeposit[0],
                    gas |-> DeployGas, tip |-> tip, to |-> NoContract]

\* A bug: the address is derived from the nonce after the deployment's.
DeployFirstNextNonce(tip) ==
  /\ nonces' = [AfterDeposit EXCEPT ![0] = @ + 1]
  /\ testContractAddress' = ContractAddress(0, nonces'[0])
  /\ Hand(<<Deposit, Deployment(tip)>>)

\* The first block: the contract is deployed with the nonce after the
\* deposit's, and found by the nonce before the next.
DeployFirst(tip) ==
  /\ nonces' = [AfterDeposit EXCEPT ![0] = @ + 1]
  /\ testContractAddress' = ContractAddress(0, nonces'[0] - 1)
  /\ Hand(<<Deposit, Deployment(tip)>>)

\* The deployment takes its tip from the block's second transaction.
FirstBlock ==
  Receiving /\ mapped = 0 /\ \E tip \in AtMost(Tips, market.tip) : DeployFirst(tip)

\* There is no second transaction.
NoSecondTransaction == Receiving /\ mapped = 0 /\ Panics

FundingBlock ==
  /\ Receiving /\ mapped > 0 /\ IsFundingBlock
  /\ nonces' = AfterDeposit
  /\ Hand(<<Deposit>>)
  /\ UNCHANGED testContractAddress

\* packErc20Transfer, packPrecompileTargeter and packStorageStressor: how many
\* calls they pack, and the gas limit of each.
NumTxs ==
  CASE cfg.stressTestType = "erc20" -> cfg.gasTarget \div TransferGas
    [] cfg.stressTestType = "precompile" -> 1
    [] cfg.stressTestType = "storage" -> cfg.gasTarget \div CallGas

TxGas == IF cfg.stressTestType = "erc20" THEN TransferGas ELSE cfg.gasTarget

Calls(tip) ==
  [i \in 1 .. NumTxs |->
    [kind |-> "call", from |-> 0, nonce |-> nonces[0] + i - 1,
     gas |-> TxGas, tip |-> tip, to |-> testContractAddress]]

HasFunction == cfg.stressTestType = "erc20" \/ cfg.stressTestFunction = "known"

\* A bug: the nonce is counted once per block.
PackItUpOnce ==
  /\ Receiving /\ ~IsFundingBlock /\ HasFunction
  /\ nonces' = [nonces EXCEPT ![0] = @ + 1]
  /\ \E tip \in AtMost(Tips, market.tip) : Hand(Calls(tip))
  /\ UNCHANGED testContractAddress

\* The calls have the tip of the block's last transaction.
PackItUp ==
  /\ Receiving /\ ~IsFundingBlock /\ HasFunction
  /\ nonces' = [nonces EXCEPT ![0] = @ + NumTxs]
  /\ \E tip \in AtMost(Tips, market.tip) : Hand(Calls(tip))
  /\ UNCHANGED testContractAddress

\* The table has no function of that name.
InvalidFunction == Receiving /\ ~IsFundingBlock /\ ~HasFunction /\ Panics

-----------------------------------------------------------------------------
(* The destination (external): it goes through the transactions of a block, *)
(* and drops one that fails.                                                *)

\* What the destination goes through next.
NextTx == Head(pending)[handled + 1]

\* What a transaction may use. A call of no contract does nothing; a transfer
\* runs out of gas, the precompile contract until no more than its buffer is left
\* (and returning costs it some of that).
Cost(tx) ==
  CASE tx.kind # "call" -> IntrinsicGas .. tx.gas
    [] tx.kind = "call" /\ tx.to \notin contracts -> {IntrinsicGas}
    [] OTHER ->
         CASE cfg.stressTestType = "erc20" -> {tx.gas}
           [] cfg.stressTestType = "storage" -> {CallGas}
           [] cfg.stressTestType = "precompile" ->
                {c \in IntrinsicGas .. tx.gas : c > tx.gas - GasBuffer}

CallFeeCap == IF cfg.stressTestType = "erc20" THEN LowFeeCap ELSE HighFeeCap
FeeCap(tx) == IF tx.kind = "call" THEN CallFeeCap ELSE LowFeeCap

\* What a unit of gas costs in the end.
Price(tx) ==
  IF baseFee + tx.tip <= FeeCap(tx) THEN baseFee + tx.tip ELSE FeeCap(tx)

\* The sender has to cover its whole gas limit at its fee cap.
Executable(tx) ==
  /\ tx.gas >= IntrinsicGas /\ tx.gas <= gasPool
  /\ tx.tip <= FeeCap(tx) /\ baseFee <= FeeCap(tx)
  /\ balances[tx.from] >= tx.gas * FeeCap(tx) + DataFee
  /\ tx.nonce = chainNonces[tx.from]

Handle ==
  /\ ~panicked /\ pending # <<>> /\ handled < Len(Head(pending))
  /\ handled' = handled + 1
  /\ UNCHANGED <<cfg, market, strategyVars, panicked, pending, executed, baseFee,
                 lastGasUsed>>

MoveNonce == chainNonces' = [chainNonces EXCEPT ![NextTx.from] = @ + 1]

\* A deposit always goes in.
ExecuteDeposit ==
  /\ Handle /\ NextTx.kind = "deposit"
  /\ MoveNonce
  /\ mints' = [mints EXCEPT ![NextTx.from] = @ + 1]
  /\ balances' = [balances EXCEPT ![NextTx.from] = @ + Mint]
  /\ gasPool' = gasPool - NextTx.gas
  /\ UNCHANGED <<gasUsed, contracts>>

\* The gas a transaction does not use goes back to the block's pool.
ExecuteTransaction ==
  /\ Handle /\ NextTx.kind # "deposit"
  /\ Executable(NextTx)
  /\ MoveNonce
  /\ \E c \in Cost(NextTx) :
       /\ gasPool' = gasPool - c
       /\ gasUsed' = gasUsed + c
       /\ balances' = [balances EXCEPT ![NextTx.from] = @ - c * Price(NextTx) - DataFee]
  /\ contracts' = IF NextTx.kind = "deploy"
                  THEN contracts \union {ContractAddress(NextTx.from, NextTx.nonce)}
                  ELSE contracts
  /\ UNCHANGED mints

DropTransaction ==
  /\ Handle /\ NextTx.kind # "deposit"
  /\ ~Executable(NextTx)
  /\ UNCHANGED <<gasPool, gasUsed, chainNonces, mints, balances, contracts>>

\* A block without a funding deposit still has the source's own.
SealBlock ==
  /\ ~panicked /\ pending # <<>> /\ handled = Len(Head(pending))
  /\ executed' = executed + 1
  /\ pending' = Tail(pending)
  /\ handled' = 0
  /\ gasPool' = IF executed' < NumAddresses THEN cfg.gasLimit ELSE cfg.gasLimit - DepositGas
  /\ lastGasUsed' = gasUsed /\ gasUsed' = 0
  /\ baseFee' \in AtMost(BaseFees, market.baseFee)
  /\ UNCHANGED <<cfg, market, strategyVars, panicked, chainNonces, mints, balances,
                 contracts>>

Terminated == (panicked \/ executed = BlockCount) /\ UNCHANGED vars

Next == \/ NotARollupBlock \/ FirstBlock \/ NoSecondTransaction \/ FundingBlock
        \/ PackItUp \/ InvalidFunction
        \/ ExecuteDeposit \/ ExecuteTransaction \/ DropTransaction \/ SealBlock
        \/ Terminated

Spec == Init /\ [][Next]_vars

-----------------------------------------------------------------------------
(* Properties                                                               *)

\* The state's shape.
TypeOK ==
  /\ cfg \in Configurations
  /\ mapped \in 0 .. BlockCount /\ executed \in 0 .. mapped
  /\ Len(pending) = mapped - executed /\ Len(pending) <= QueueCap
  /\ handled \in Nat /\ (handled > 0 => pending # <<>> /\ handled <= Len(Head(pending)))
  /\ nonces \in [Accounts -> Nat] /\ chainNonces \in [Accounts -> Nat]
  /\ mints \in [Accounts -> Nat] /\ balances \in [Accounts -> Int]
  /\ market \in [tip : Tips, baseFee : BaseFees]
  /\ baseFee \in AtMost(BaseFees, market.baseFee)
  /\ panicked \in BOOLEAN
  /\ gasPool \in Int /\ {gasUsed, lastGasUsed} \subseteq 0 .. cfg.gasLimit

\* The gas that a packed block needs: each call must find its whole gas limit
\* in what the calls before it have left.
GasNeeded ==
  CASE cfg.stressTestType = "storage" /\ NumTxs > 0 -> (NumTxs - 1) * CallGas + cfg.gasTarget
    [] OTHER -> NumTxs * TxGas

\* The fee caps are fixed: no tip and no base fee of the run is above them.
CapsHold ==
  \A cap \in {LowFeeCap, CallFeeCap} : market.tip <= cap /\ market.baseFee <= cap

MaxPrice == market.tip + market.baseFee

\* What a call uses at most.
CallCost == IF cfg.stressTestType = "storage" THEN CallGas ELSE TxGas

\* What the deployment and a call cost at most.
DeployBill == DeployGas * MaxPrice + DataFee
CallBill == CallCost * MaxPrice + DataFee

\* The funding pays for the whole run, and leaves the last call what its sender
\* has to have.
FundingLasts ==
  /\ Mint >= DeployGas * LowFeeCap + DataFee
  /\ Mint >= DeployBill + BlockCount * NumTxs * CallBill + TxGas * CallFeeCap + DataFee

\* The configured limit leaves room for whatever the strategy adds, and the
\* fee caps and the funding are enough for it.
HasRoom ==
  /\ cfg.gasLimit >= DepositGas + DeployGas
  /\ cfg.gasLimit >= DepositGas + GasNeeded
  /\ TxGas >= IntrinsicGas
  /\ CapsHold /\ FundingLasts

\* With room no transaction is ever dropped: the destination comes to each one
\* with the very nonce that was worked out for it, blocks ahead, and in the end
\* to the nonces counted locally.
NoncesFollowChain ==
  HasRoom =>
    /\ pending # <<>> /\ handled < Len(Head(pending)) =>
         NextTx.kind = "deposit" \/ Executable(NextTx)
    /\ pending = <<>> => chainNonces = nonces

\* Under every configuration, no nonce is used for two transactions, on the
\* destination or under way.
NoncesNeverReused ==
  \A k \in DOMAIN pending : \A i \in DOMAIN pending[k] :
    LET tx == pending[k][i] IN
      tx.kind # "deposit" /\ (k = 1 => i > handled) =>
        /\ chainNonces[tx.from] <= tx.nonce /\ tx.nonce < nonces[tx.from]
        /\ \A l \in 1 .. k : \A j \in DOMAIN pending[l] :
             LET before == pending[l][j] IN
               l < k \/ j < i =>
                 before.kind = "deposit" \/ before.from # tx.from \/ before.nonce < tx.nonce

\* The destination mints for one account per funding block, each account once.
FundedOnce ==
  \A a \in Accounts :
    mints[a] = IF a < executed \/ (a = executed /\ handled > 0) THEN 1 ELSE 0

\* The smallest step in which a block can be filled, or what the call may leave.
Granularity ==
  CASE cfg.stressTestType = "erc20" -> TransferGas
    [] cfg.stressTestType = "storage" -> CallGas
    [] cfg.stressTestType = "precompile" -> GasBuffer

\* A packed block misses the gas target by less than one call, or by less than
\* the buffer of the precompile contract.
GasTargetReached ==
  executed > NumAddresses => lastGasUsed + Granularity > cfg.gasTarget

\* With room, every packed block reaches the gas target.
RoomReachesTarget == HasRoom => GasTargetReached
=============================================================================
