------------------------- MODULE StressTestProofs -------------------------
(***************************************************************************)
(* What StressTest's properties rest on. Nothing but the configuration and *)
(* two counters decides what the strategy has made of a block and what the *)
(* destination has made of it in turn: the inductive invariant IInv says   *)
(* so in closed form, for the local count (LocalInv), the destination's    *)
(* (ChainInv), its gas (GasInv), what the first account has paid (FundsInv)*)
(* and, when there is room, the course of every block (RoomInv).           *)
(***************************************************************************)
EXTENDS StressTest, SequenceTheorems, TLAPS

TestContract == ContractAddress(0, 1)

\* The nonce of the first call of block b, when n calls are packed per block.
FirstNonce(b, n) == 2 + (b - NumAddresses) * n

\* The first account's next nonce before block b.
Counted(b, n) ==
  IF b = 0 THEN 0 ELSE IF b < NumAddresses THEN 2 ELSE FirstNonce(b, n)

Transactions == [kind : {"deposit", "deploy", "call"}, from : Accounts, nonce : Nat,
                 gas : Nat, tip : Nat, to : {NoContract, TestContract}]

\* The tips that transactions have in this run.
RunTips == AtMost(Tips, market.tip)

\* The transactions of block b, when n calls of g gas are packed per block, with
\* the tip t.
DepositOf(b) == [kind |-> "deposit", from |-> b, nonce |-> 0,
                 gas |-> DepositGas, tip |-> 0, to |-> NoContract]
TheDeployment(t) == [kind |-> "deploy", from |-> 0, nonce |-> 1,
                     gas |-> DeployGas, tip |-> t, to |-> NoContract]
Call(b, i, n, g, t) == [kind |-> "call", from |-> 0, nonce |-> FirstNonce(b, n) + i - 1,
                        gas |-> g, tip |-> t, to |-> TestContract]
BlockTxs(b, n, g, t) ==
  IF b = 0 THEN <<DepositOf(0), TheDeployment(t)>>
  ELSE IF b < NumAddresses THEN <<DepositOf(b)>>
  ELSE [i \in 1 .. n |-> Call(b, i, n, g, t)]
BlockLength(b, n) == IF b = 0 THEN 2 ELSE IF b < NumAddresses THEN 1 ELSE n
IsBlock(txs, b, n, g, tips) == \E t \in tips : txs = BlockTxs(b, n, g, t)

\* The first account's next nonce on the destination when it has been through h
\* transactions of block b and has dropped none.
Reached(b, h, n) ==
  IF b = 0 THEN h ELSE IF b < NumAddresses THEN 2 ELSE FirstNonce(b, n) + h

\* What the first account has paid at most when its next nonce is m: for the
\* deployment, and for each call.
Bill(m, first, rest) == IF m < 2 THEN 0 ELSE first + (m - 2) * rest

\* What h calls of type t, of g gas and cost c have used, when they found their
\* contract.
Filled(used, h, t, g, c) ==
  IF t = "precompile" THEN h > 0 => used + GasBuffer > g ELSE used = h * c

-----------------------------------------------------------------------------
(* The inductive invariant                                                  *)

CfgInv == cfg \in Configurations /\ GasOptionsValid(cfg) /\ StressOptionsValid(cfg)

QueueInv ==
  /\ mapped \in 0 .. BlockCount /\ executed \in 0 .. mapped
  /\ pending \in Seq(Seq(Transactions))
  /\ Len(pending) = mapped - executed /\ Len(pending) <= QueueCap
  /\ \A k \in 1 .. Len(pending) : IsBlock(pending[k], executed + k - 1, NumTxs, TxGas, RunTips)
  /\ handled \in Nat
  /\ handled > 0 => pending # <<>> /\ handled <= Len(pending[1])

LocalInv ==
  /\ nonces = [a \in Accounts |-> IF a = 0 THEN Counted(mapped, NumTxs)
                                  ELSE IF a < mapped THEN 1 ELSE 0]
  /\ testContractAddress = IF mapped = 0 THEN NoContract ELSE TestContract

PanicInv ==
  /\ panicked \in BOOLEAN
  /\ mapped > NumAddresses => HasFunction

MintInv ==
  mints = [a \in Accounts |-> IF a < executed \/ (a = executed /\ handled > 0) THEN 1 ELSE 0]

ChainInv ==
  /\ chainNonces \in [Accounts -> Nat]
  /\ \A a \in Accounts \ {0} : chainNonces[a] = mints[a]
  /\ chainNonces[0] <= Reached(executed, handled, NumTxs)

GasInv ==
  /\ gasPool \in Int /\ gasUsed \in Nat /\ lastGasUsed \in 0 .. cfg.gasLimit
  /\ gasPool + gasUsed <= cfg.gasLimit
  /\ handled = 0 => gasUsed = 0
  /\ gasUsed > 0 => gasPool >= 0

MarketInv ==
  /\ market \in [tip : Tips, baseFee : BaseFees]
  /\ baseFee \in AtMost(BaseFees, market.baseFee)

FundsInv ==
  /\ balances \in [Accounts -> Int]
  /\ balances[0] >= (IF mints[0] = 0 THEN 0 ELSE Mint)
                      - Bill(chainNonces[0], DeployBill, CallBill)

RoomInv ==
  HasRoom =>
    /\ chainNonces[0] = Reached(executed, handled, NumTxs)
    /\ executed > 0 \/ handled > 1 => TestContract \in contracts
    /\ executed = 0 /\ handled = 1 => gasPool = cfg.gasLimit - DepositGas
    /\ executed = 0 /\ handled = 0 => gasPool = cfg.gasLimit
    /\ executed >= NumAddresses =>
         /\ gasPool >= cfg.gasLimit - DepositGas - handled * CallCost
         /\ Filled(gasUsed, handled, cfg.stressTestType, TxGas, CallCost)
    /\ executed > NumAddresses =>
         Filled(lastGasUsed, NumTxs, cfg.stressTestType, TxGas, CallCost)

IInv == /\ CfgInv /\ MarketInv /\ QueueInv /\ LocalInv /\ PanicInv
        /\ MintInv /\ ChainInv /\ GasInv /\ FundsInv /\ RoomInv

-----------------------------------------------------------------------------
(* The configuration and the closed forms                                   *)

\* What a valid configuration gives the strategy.
LEMMA CfgFacts ==
  CfgInv => /\ cfg.stressTestType \in {"erc20", "precompile", "storage"}
            /\ cfg.stressTestType # "erc20" => cfg.stressTestFunction \in {"", "known"}
            /\ cfg.gasTarget \in Nat /\ cfg.gasLimit \in Nat
            /\ cfg.gasTarget <= cfg.gasLimit
            /\ NumTxs \in Nat /\ TxGas \in Nat /\ CallCost \in Nat
<1> SUFFICES ASSUME CfgInv
             PROVE  /\ cfg.stressTestType \in {"erc20", "precompile", "storage"}
                    /\ cfg.stressTestType # "erc20" =>
                         cfg.stressTestFunction \in {"", "known"}
                    /\ cfg.gasTarget \in Nat /\ cfg.gasLimit \in Nat
                    /\ cfg.gasTarget <= cfg.gasLimit
                    /\ NumTxs \in Nat /\ TxGas \in Nat /\ CallCost \in Nat
  OBVIOUS
<1>1. /\ cfg.strategy = "stress"
      /\ cfg.stressTestType \in {"", "precompile", "storage", "erc20", "other"}
      /\ cfg.stressTestFunction \in {"", "known", "other"}
      /\ cfg.gasTarget \in Nat /\ cfg.gasLimit \in Nat
  BY StressTestAssumption DEF CfgInv, Configurations
<1>2. /\ cfg.stressTestType \in {"erc20", "precompile", "storage"}
      /\ cfg.stressTestType # "erc20" => cfg.stressTestFunction \in {"", "known"}
  BY <1>1 DEF CfgInv, StressOptionsValid
<1>3. cfg.gasTarget <= cfg.gasLimit
  <2>1. CliUint64(cfg.gasTarget) <= CliUint64(cfg.gasLimit)
    BY DEF CfgInv, GasOptionsValid
  <2>2. CliUint64(cfg.gasTarget) = cfg.gasTarget /\ CliUint64(cfg.gasLimit) = cfg.gasLimit
    <3>1. \A x \in Nat : CliUint64(x) = x
      BY DEF CliUint64
    <3> QED
      BY <1>1, <3>1
  <2> QED
    BY <2>1, <2>2
<1>4. cfg.gasTarget \div TransferGas \in Nat /\ cfg.gasTarget \div CallGas \in Nat
  <2>1. \A x \in Nat : \A c \in Nat \ {0} : x \div c \in Nat
    OBVIOUS
  <2> QED
    BY <1>1, <2>1, StressTestAssumption
<1>5. NumTxs \in Nat /\ TxGas \in Nat
  BY <1>1, <1>2, <1>4, StressTestAssumption DEF NumTxs, TxGas
<1>6. CallCost \in Nat
  BY <1>5, StressTestAssumption DEF CallCost
<1> QED
  BY <1>1, <1>2, <1>3, <1>5, <1>6

\* The tips and the base fee of a run are within what it is to see.
LEMMA MarketFacts ==
  MarketInv => /\ market.tip \in RunTips /\ RunTips \subseteq Nat
               /\ market.tip \in Nat /\ market.baseFee \in Nat
               /\ \A t \in RunTips : t <= market.tip
               /\ baseFee \in Nat /\ baseFee <= market.baseFee
<1> SUFFICES ASSUME MarketInv
             PROVE  /\ market.tip \in RunTips /\ RunTips \subseteq Nat
                    /\ market.tip \in Nat /\ market.baseFee \in Nat
                    /\ \A t \in RunTips : t <= market.tip
                    /\ baseFee \in Nat /\ baseFee <= market.baseFee
  OBVIOUS
<1>1. market.tip \in Tips /\ market.baseFee \in BaseFees
  BY DEF MarketInv
<1>2. market.tip \in Nat /\ market.baseFee \in Nat
  BY <1>1, StressTestAssumption
<1>3. market.tip <= market.tip
  BY <1>2
<1>4. baseFee \in BaseFees /\ baseFee <= market.baseFee
  BY DEF MarketInv, AtMost
<1> QED
  BY <1>1, <1>2, <1>3, <1>4, StressTestAssumption DEF RunTips, AtMost

\* Consecutive packed blocks use consecutive nonces.
LEMMA FirstNonceStep ==
  ASSUME NEW b \in Nat, NEW n \in Nat, b >= NumAddresses
  PROVE  /\ FirstNonce(b, n) \in Nat /\ FirstNonce(b, n) >= 2
         /\ FirstNonce(b + 1, n) = FirstNonce(b, n) + n
         /\ FirstNonce(NumAddresses, n) = 2
<1> DEFINE d == b - NumAddresses
<1>1. d \in Nat /\ d * n \in Nat /\ (d + 1) * n = d * n + n
  BY StressTestAssumption
<1>2. (b + 1) - NumAddresses = d + 1 /\ (NumAddresses - NumAddresses) * n = 0
  BY StressTestAssumption
<1> HIDE DEF d
<1>3. FirstNonce(b, n) = 2 + d * n /\ FirstNonce(b + 1, n) = 2 + (d + 1) * n
      /\ FirstNonce(NumAddresses, n) = 2
  BY <1>2 DEF FirstNonce, d
<1> QED
  BY <1>1, <1>3

\* A later block's nonces are all above an earlier one's.
LEMMA FirstNonceGrows ==
  ASSUME NEW b \in Nat, NEW c \in Nat, NEW n \in Nat, b >= NumAddresses, b < c
  PROVE  FirstNonce(b, n) + n <= FirstNonce(c, n)
<1>1. PICK d \in Nat : c = b + 1 + d
  <2>1. c - b - 1 \in Nat /\ c = b + 1 + (c - b - 1)
    OBVIOUS
  <2> QED
    BY <2>1
<1> DEFINE x == b - NumAddresses
<1>2. x \in Nat
  BY StressTestAssumption
<1>3. c - NumAddresses = x + 1 + d
  BY <1>1, StressTestAssumption
<1> HIDE DEF x
<1>4. (x + 1 + d) * n = x * n + n + d * n /\ d * n \in Nat /\ x * n \in Nat
  BY <1>1, <1>2
<1>5. FirstNonce(b, n) = 2 + x * n /\ FirstNonce(c, n) = 2 + (x + 1 + d) * n
  BY <1>3 DEF FirstNonce, x
<1> QED
  BY <1>4, <1>5

\* The content of a block is a sequence of transactions of known length.
LEMMA BlockTxsFacts ==
  ASSUME NEW b \in Nat, NEW n \in Nat, NEW g \in Nat, NEW t \in Nat
  PROVE  /\ BlockTxs(b, n, g, t) \in Seq(Transactions)
         /\ Len(BlockTxs(b, n, g, t)) = BlockLength(b, n)
<1>1. CASE b = 0
  <2>1. DepositOf(0) \in Transactions /\ TheDeployment(t) \in Transactions
    BY StressTestAssumption DEF DepositOf, TheDeployment, Transactions, Accounts
  <2> QED
    BY <1>1, <2>1 DEF BlockTxs, BlockLength
<1>2. CASE b # 0 /\ b < NumAddresses
  <2>1. DepositOf(b) \in Transactions
    BY <1>2, StressTestAssumption DEF DepositOf, Transactions, Accounts
  <2> QED
    BY <1>2, <2>1 DEF BlockTxs, BlockLength
<1>3. CASE b # 0 /\ ~(b < NumAddresses)
  <2>1. FirstNonce(b, n) \in Nat
    BY <1>3, FirstNonceStep, StressTestAssumption
  <2>2. \A i \in 1 .. n : Call(b, i, n, g, t) \in Transactions
    BY <2>1, StressTestAssumption DEF Call, Transactions, Accounts
  <2>3. BlockTxs(b, n, g, t) = [i \in 1 .. n |-> Call(b, i, n, g, t)]
    BY <1>3 DEF BlockTxs
  <2>4. BlockTxs(b, n, g, t) \in [1 .. n -> Transactions]
    BY <2>2, <2>3
  <2> QED
    BY <1>3, <2>3, <2>4 DEF BlockLength
<1> QED
  BY <1>1, <1>2, <1>3, StressTestAssumption

\* A packed block moves the count by the calls in it.
LEMMA CountedFacts ==
  ASSUME NEW b \in Nat, NEW n \in Nat
  PROVE  /\ Counted(b, n) \in Nat
         /\ b > 0 => Counted(b, n) >= 2
         /\ Counted(b + 1, n) = IF b = 0 THEN 2 ELSE IF b < NumAddresses
                                THEN Counted(b, n) ELSE Counted(b, n) + n
         /\ b >= NumAddresses => Counted(b, n) = FirstNonce(b, n)
<1>1. CASE b < NumAddresses
  <2>1. b + 1 = NumAddresses \/ b + 1 < NumAddresses
    BY <1>1, StressTestAssumption
  <2>2. FirstNonce(NumAddresses, n) = 2
    BY FirstNonceStep, StressTestAssumption
  <2> QED
    BY <1>1, <2>1, <2>2, StressTestAssumption DEF Counted
<1>2. CASE b >= NumAddresses
  <2>1. b # 0 /\ b + 1 # 0 /\ ~(b < NumAddresses) /\ ~(b + 1 < NumAddresses)
    BY <1>2, StressTestAssumption
  <2>2. FirstNonce(b, n) \in Nat /\ FirstNonce(b, n) >= 2
        /\ FirstNonce(b + 1, n) = FirstNonce(b, n) + n
    BY <1>2, FirstNonceStep
  <2> QED
    BY <2>1, <2>2, <1>2 DEF Counted
<1> QED
  BY <1>1, <1>2, StressTestAssumption

-----------------------------------------------------------------------------
(* The actions in closed form                                               *)

\* The configuration is read at the start and kept.
LEMMA CfgKept ==
  [Next]_vars => /\ cfg' = cfg /\ market' = market /\ RunTips' = RunTips
                 /\ NumTxs' = NumTxs /\ TxGas' = TxGas /\ CallCost' = CallCost
                 /\ HasFunction' = HasFunction /\ HasRoom' = HasRoom
<1>1. [Next]_vars => cfg' = cfg /\ market' = market
  BY DEF Next, vars, NotARollupBlock, FirstBlock, DeployFirst, NoSecondTransaction,
         FundingBlock, PackItUp, InvalidFunction, Panics, ExecuteDeposit,
         ExecuteTransaction, DropTransaction, Handle, SealBlock, Terminated, Hand
<1>2. cfg' = cfg => NumTxs' = NumTxs /\ TxGas' = TxGas
  BY DEF NumTxs, TxGas
<1>3. cfg' = cfg => CallCost' = CallCost /\ HasFunction' = HasFunction
  BY <1>2 DEF CallCost, HasFunction
<1>4. cfg' = cfg /\ market' = market => HasRoom' = HasRoom
  <2> SUFFICES ASSUME cfg' = cfg, market' = market
               PROVE  HasRoom' = HasRoom
    OBVIOUS
  <2>1. GasNeeded' = GasNeeded
    BY <1>2 DEF GasNeeded
  <2>2. CapsHold' = CapsHold
    BY DEF CapsHold, CallFeeCap
  <2>3. FundingLasts' = FundingLasts
    BY <1>2, <1>3 DEF FundingLasts, DeployBill, CallBill, MaxPrice, CallFeeCap
  <2> QED
    BY <1>2, <2>1, <2>2, <2>3 DEF HasRoom
<1>5. market' = market => RunTips' = RunTips
  BY DEF RunTips
<1> QED
  BY <1>1, <1>2, <1>3, <1>4, <1>5

\* What BlockReceived does to a block, whichever it is.
LEMMA MapStep ==
  IInv /\ (FirstBlock \/ FundingBlock \/ PackItUp) =>
    /\ mapped' = mapped + 1 /\ mapped < BlockCount
    /\ Len(pending) < QueueCap
    /\ \E t \in RunTips : pending' = Append(pending, BlockTxs(mapped, NumTxs, TxGas, t))
    /\ mapped >= NumAddresses => HasFunction
    /\ ~panicked /\ UNCHANGED <<cfg, market, panicked, chainVars>>
    /\ LocalInv'
<1> SUFFICES ASSUME IInv, FirstBlock \/ FundingBlock \/ PackItUp
             PROVE  /\ mapped' = mapped + 1 /\ mapped < BlockCount
                    /\ Len(pending) < QueueCap
                    /\ \E t \in RunTips :
                         pending' = Append(pending, BlockTxs(mapped, NumTxs, TxGas, t))
                    /\ mapped >= NumAddresses => HasFunction
                    /\ ~panicked /\ UNCHANGED <<cfg, market, panicked, chainVars>>
                    /\ LocalInv'
  OBVIOUS
<1>1. /\ mapped' = mapped + 1 /\ mapped < BlockCount /\ Len(pending) < QueueCap
      /\ ~panicked /\ UNCHANGED <<cfg, market, panicked, chainVars>>
  BY DEF FirstBlock, DeployFirst, FundingBlock, PackItUp, Hand, Receiving
<1>2. /\ mapped \in Nat /\ NumTxs \in Nat /\ TxGas \in Nat /\ NumTxs' = NumTxs
  <2>1. NumTxs \in Nat /\ TxGas \in Nat
    BY CfgFacts DEF IInv
  <2>2. NumTxs' = NumTxs
    BY <1>1 DEF NumTxs
  <2>3. mapped \in Nat
    BY StressTestAssumption DEF IInv, QueueInv
  <2> QED
    BY <2>1, <2>2, <2>3
<1>3. nonces = [a \in Accounts |-> IF a = 0 THEN Counted(mapped, NumTxs)
                                   ELSE IF a < mapped THEN 1 ELSE 0]
  BY DEF IInv, LocalInv
<1>4. 0 \in Accounts /\ \A a \in Accounts : a \in Nat /\ a < NumAddresses
  BY StressTestAssumption DEF Accounts
<1>5. /\ Counted(mapped, NumTxs) \in Nat
      /\ Counted(mapped + 1, NumTxs) =
           IF mapped = 0 THEN 2 ELSE IF mapped < NumAddresses
           THEN Counted(mapped, NumTxs) ELSE Counted(mapped, NumTxs) + NumTxs
      /\ mapped >= NumAddresses => Counted(mapped, NumTxs) = FirstNonce(mapped, NumTxs)
  BY <1>2, CountedFacts
<1>6. CASE FirstBlock
  <2>1. mapped = 0 /\ nonces[0] = 0 /\ Counted(1, NumTxs) = 2
    BY <1>3, <1>4, <1>5, <1>6 DEF FirstBlock, Counted
  <2>2. AfterDeposit = [nonces EXCEPT ![0] = nonces[0] + 1]
    BY <2>1 DEF AfterDeposit, DepositAccount
  <2>3. AfterDeposit[0] = 1
    BY <1>3, <1>4, <2>1, <2>2
  <2>4. PICK t \in RunTips :
          /\ nonces' = [AfterDeposit EXCEPT ![0] = AfterDeposit[0] + 1]
          /\ testContractAddress' = ContractAddress(0, nonces'[0] - 1)
          /\ pending' = Append(pending, <<Deposit, Deployment(t)>>)
    BY <1>6 DEF FirstBlock, DeployFirst, Hand, RunTips
  <2>5. nonces' = [a \in Accounts |-> IF a = 0 THEN 2 ELSE 0] /\ nonces'[0] = 2
    BY <1>3, <1>4, <2>1, <2>2, <2>3, <2>4
  <2>6. testContractAddress' = TestContract
    BY <2>4, <2>5 DEF TestContract
  <2>7. LocalInv'
    <3>1. \A a \in Accounts : a # 0 => ~(a < 1)
      BY <1>4
    <3>2. nonces' = [a \in Accounts |-> IF a = 0 THEN Counted(mapped', NumTxs')
                                        ELSE IF a < mapped' THEN 1 ELSE 0]
      BY <3>1, <2>1, <2>5, <1>1, <1>2
    <3> QED
      BY <3>2, <2>1, <2>6, <1>1 DEF LocalInv
  <2>8. Deposit = DepositOf(0) /\ Deployment(t) = TheDeployment(t)
    BY <2>1, <2>3 DEF Deposit, DepositOf, Deployment, TheDeployment, DepositAccount
  <2>9. ~(mapped >= NumAddresses)
    BY <2>1, StressTestAssumption
  <2>10. pending' = Append(pending, BlockTxs(mapped, NumTxs, TxGas, t))
    BY <2>1, <2>4, <2>8 DEF BlockTxs
  <2> QED
    BY <1>1, <2>7, <2>9, <2>10
<1>7. CASE FundingBlock
  <2>1. mapped > 0 /\ mapped < NumAddresses /\ mapped \in Accounts /\ mapped # 0
    BY <1>2, <1>7, StressTestAssumption DEF FundingBlock, IsFundingBlock, Accounts
  <2>2. nonces' = [nonces EXCEPT ![mapped] = nonces[mapped] + 1]
        /\ pending' = Append(pending, <<Deposit>>)
        /\ testContractAddress' = testContractAddress
    BY <1>7 DEF FundingBlock, AfterDeposit, Hand, DepositAccount
  <2>3. LocalInv'
    <3>1. nonces[mapped] = 0
      BY <1>2, <1>3, <2>1
    <3>2. \A a \in Accounts : a < mapped + 1 <=> a < mapped \/ a = mapped
      BY <1>2, <1>4
    <3>3. Counted(mapped + 1, NumTxs) = Counted(mapped, NumTxs)
      BY <1>5, <2>1
    <3>4. nonces' = [a \in Accounts |-> IF a = 0 THEN Counted(mapped + 1, NumTxs)
                                        ELSE IF a < mapped + 1 THEN 1 ELSE 0]
      BY <3>1, <3>2, <3>3, <2>1, <2>2, <1>3
    <3>5. testContractAddress' = TestContract /\ mapped' # 0
      BY <1>1, <1>2, <2>1, <2>2 DEF IInv, LocalInv
    <3> QED
      BY <3>4, <3>5, <1>1, <1>2 DEF LocalInv
  <2>4. Deposit = DepositOf(mapped)
    BY DEF Deposit, DepositOf, DepositAccount
  <2>5. ~(mapped >= NumAddresses)
    BY <1>2, <2>1, StressTestAssumption
  <2>6. pending' = Append(pending, BlockTxs(mapped, NumTxs, TxGas, market.tip))
    BY <2>1, <2>2, <2>4 DEF BlockTxs
  <2>7. market.tip \in RunTips
    BY MarketFacts DEF IInv
  <2> QED
    BY <1>1, <2>3, <2>5, <2>6, <2>7
<1>8. CASE PackItUp
  <2>1. mapped >= NumAddresses /\ mapped # 0 /\ ~(mapped < NumAddresses) /\ HasFunction
    BY <1>2, <1>8, StressTestAssumption DEF PackItUp, IsFundingBlock
  <2>2. PICK t \in RunTips :
          /\ nonces' = [nonces EXCEPT ![0] = nonces[0] + NumTxs]
          /\ pending' = Append(pending, Calls(t))
          /\ testContractAddress' = testContractAddress
    BY <1>8 DEF PackItUp, Hand, RunTips
  <2>3. nonces[0] = Counted(mapped, NumTxs) /\ nonces[0] = FirstNonce(mapped, NumTxs)
    BY <1>3, <1>4, <1>5, <2>1
  <2>4. testContractAddress = TestContract
    BY <2>1 DEF IInv, LocalInv
  <2>5. LocalInv'
    <3>1. \A a \in Accounts : a < mapped /\ a < mapped + 1
      BY <1>2, <1>4, <2>1, StressTestAssumption
    <3>2. Counted(mapped + 1, NumTxs) = Counted(mapped, NumTxs) + NumTxs
      BY <1>5, <2>1
    <3>3. nonces' = [a \in Accounts |-> IF a = 0 THEN Counted(mapped + 1, NumTxs)
                                        ELSE IF a < mapped + 1 THEN 1 ELSE 0]
      BY <3>1, <3>2, <2>2, <2>3, <1>3, <1>4
    <3>4. testContractAddress' = TestContract /\ mapped' # 0
      BY <1>1, <1>2, <2>2, <2>4
    <3> QED
      BY <3>3, <3>4, <1>1, <1>2 DEF LocalInv
  <2>6. Calls(t) = [i \in 1 .. NumTxs |-> Call(mapped, i, NumTxs, TxGas, t)]
    BY <2>3, <2>4 DEF Calls, Call
  <2>7. BlockTxs(mapped, NumTxs, TxGas, t) = Calls(t)
    BY <2>1, <2>6 DEF BlockTxs
  <2> QED
    BY <1>1, <2>1, <2>2, <2>5, <2>7
<1> QED
  BY <1>6, <1>7, <1>8

\* Where the destination is: which block it is going through, and at which of
\* its transactions.
LEMMA HeadFacts ==
  IInv /\ pending # <<>> =>
    /\ executed < mapped /\ executed \in Nat
    /\ Len(Head(pending)) =
         IF executed = 0 THEN 2 ELSE IF executed < NumAddresses THEN 1 ELSE NumTxs
    /\ handled < Len(Head(pending)) =>
         \/ executed < NumAddresses /\ handled = 0 /\ NextTx = DepositOf(executed)
         \/ /\ executed = 0 /\ handled = 1 /\ NextTx.tip \in RunTips
            /\ NextTx = TheDeployment(NextTx.tip)
         \/ /\ executed >= NumAddresses /\ handled < NumTxs /\ NextTx.tip \in RunTips
            /\ NextTx = Call(executed, handled + 1, NumTxs, TxGas, NextTx.tip)
<1> SUFFICES ASSUME IInv, pending # <<>>
             PROVE  /\ executed < mapped /\ executed \in Nat
                    /\ Len(Head(pending)) =
                         IF executed = 0 THEN 2
                         ELSE IF executed < NumAddresses THEN 1 ELSE NumTxs
                    /\ handled < Len(Head(pending)) =>
                         \/ /\ executed < NumAddresses /\ handled = 0
                            /\ NextTx = DepositOf(executed)
                         \/ /\ executed = 0 /\ handled = 1 /\ NextTx.tip \in RunTips
                            /\ NextTx = TheDeployment(NextTx.tip)
                         \/ /\ executed >= NumAddresses /\ handled < NumTxs
                            /\ NextTx.tip \in RunTips
                            /\ NextTx =
                                 Call(executed, handled + 1, NumTxs, TxGas, NextTx.tip)
  OBVIOUS
<1>1. /\ executed \in Nat /\ mapped \in Nat /\ Len(pending) \in Nat /\ Len(pending) > 0
      /\ Len(pending) = mapped - executed /\ handled \in Nat
      /\ \A k \in 1 .. Len(pending) :
           IsBlock(pending[k], executed + k - 1, NumTxs, TxGas, RunTips)
      /\ Head(pending) = pending[1]
  BY StressTestAssumption DEF IInv, QueueInv
<1>2. executed < mapped /\ 1 \in 1 .. Len(pending) /\ executed + 1 - 1 = executed
  BY <1>1
<1>3. PICK t \in RunTips : Head(pending) = BlockTxs(executed, NumTxs, TxGas, t)
  <2>1. IsBlock(pending[1], executed, NumTxs, TxGas, RunTips)
    BY <1>1, <1>2
  <2> QED
    BY <1>1, <2>1 DEF IsBlock
<1>4. NumTxs \in Nat /\ TxGas \in Nat /\ t \in Nat
  BY CfgFacts, MarketFacts DEF IInv
<1>5. Len(Head(pending)) =
        IF executed = 0 THEN 2 ELSE IF executed < NumAddresses THEN 1 ELSE NumTxs
  <2>1. executed \in Nat /\ NumTxs \in Nat /\ TxGas \in Nat /\ t \in Nat
    BY <1>1, <1>4
  <2>2. Len(BlockTxs(executed, NumTxs, TxGas, t)) = BlockLength(executed, NumTxs)
    BY <2>1, BlockTxsFacts
  <2> QED
    BY <1>3, <2>2 DEF BlockLength
<1>6. ASSUME handled < Len(Head(pending))
      PROVE  \/ executed < NumAddresses /\ handled = 0 /\ NextTx = DepositOf(executed)
             \/ /\ executed = 0 /\ handled = 1 /\ NextTx.tip = t
                /\ NextTx = TheDeployment(t)
             \/ /\ executed >= NumAddresses /\ handled < NumTxs /\ NextTx.tip = t
                /\ NextTx = Call(executed, handled + 1, NumTxs, TxGas, t)
  <2>1. NextTx = BlockTxs(executed, NumTxs, TxGas, t)[handled + 1]
    BY <1>3 DEF NextTx
  <2>2. CASE executed = 0
    <3>1. handled < 2
      BY <1>5, <1>6, <2>2
    <3>2. handled = 0 \/ handled = 1
      BY <1>1, <3>1
    <3>3. NextTx = <<DepositOf(0), TheDeployment(t)>>[handled + 1]
      BY <2>1, <2>2 DEF BlockTxs
    <3>4. TheDeployment(t).tip = t
      BY DEF TheDeployment
    <3> QED
      BY <3>2, <3>3, <3>4, <2>2, StressTestAssumption
  <2>3. CASE executed # 0 /\ executed < NumAddresses
    <3>1. handled < 1
      BY <1>5, <1>6, <2>3
    <3>2. handled = 0
      BY <1>1, <3>1
    <3>3. NextTx = <<DepositOf(executed)>>[1]
      BY <2>1, <2>3, <3>2 DEF BlockTxs
    <3> QED
      BY <3>2, <3>3, <2>3
  <2>4. CASE executed # 0 /\ ~(executed < NumAddresses)
    <3>1. handled < NumTxs /\ handled + 1 \in 1 .. NumTxs /\ executed >= NumAddresses
      BY <1>1, <1>4, <1>5, <1>6, <2>4, StressTestAssumption
    <3>2. BlockTxs(executed, NumTxs, TxGas, t) =
            [i \in 1 .. NumTxs |-> Call(executed, i, NumTxs, TxGas, t)]
      BY <2>4 DEF BlockTxs
    <3>3. NextTx = Call(executed, handled + 1, NumTxs, TxGas, t)
      BY <2>1, <3>1, <3>2
    <3> QED
      BY <3>1, <3>3 DEF Call
  <2> QED
    BY <2>2, <2>3, <2>4
<1> QED
  BY <1>1, <1>2, <1>3, <1>5, <1>6

\* Any step is one of these: a block is mapped, BlockReceived panics, the
\* destination handles a transaction or seals a block, or nothing changes.
LEMMA StepCases ==
  ASSUME [Next]_vars
  PROVE  \/ FirstBlock \/ FundingBlock \/ PackItUp
         \/ Panics
         \/ ExecuteDeposit \/ ExecuteTransaction \/ DropTransaction
         \/ SealBlock
         \/ UNCHANGED vars
BY DEF Next, NotARollupBlock, NoSecondTransaction, InvalidFunction, Terminated

\* The destination's count does not go back, and sealing a block leaves it
\* where the next block's nonces begin.
LEMMA ReachedFacts ==
  ASSUME NEW b \in Nat, NEW h \in Nat, NEW n \in Nat
  PROVE  /\ Reached(b, h, n) \in Nat
         /\ Reached(b, h, n) <= Reached(b, h + 1, n)
         /\ h = (IF b = 0 THEN 2 ELSE IF b < NumAddresses THEN 1 ELSE n) =>
              Reached(b + 1, 0, n) = Reached(b, h, n)
<1>1. CASE b = 0
  <2>1. Reached(1, 0, n) = 2
    <3>1. CASE NumAddresses = 1
      BY <3>1, FirstNonceStep, StressTestAssumption DEF Reached
    <3>2. CASE NumAddresses # 1
      BY <3>2, StressTestAssumption DEF Reached
    <3> QED
      BY <3>1, <3>2
  <2> QED
    BY <1>1, <2>1 DEF Reached
<1>2. CASE b # 0 /\ b < NumAddresses
  <2>1. Reached(b + 1, 0, n) = 2
    <3>1. CASE b + 1 = NumAddresses
      <4>1. FirstNonce(b + 1, n) = 2
        BY <3>1, FirstNonceStep, StressTestAssumption
      <4> QED
        BY <3>1, <4>1, StressTestAssumption DEF Reached
    <3>2. CASE b + 1 # NumAddresses
      BY <1>2, <3>2, StressTestAssumption DEF Reached
    <3> QED
      BY <3>1, <3>2
  <2> QED
    BY <1>2, <2>1 DEF Reached
<1>3. CASE b # 0 /\ ~(b < NumAddresses)
  <2>1. FirstNonce(b, n) \in Nat /\ FirstNonce(b + 1, n) = FirstNonce(b, n) + n
    BY <1>3, FirstNonceStep, StressTestAssumption
  <2>2. /\ Reached(b, h, n) = FirstNonce(b, n) + h
        /\ Reached(b, h + 1, n) = FirstNonce(b, n) + (h + 1)
    BY <1>3 DEF Reached
  <2>3. Reached(b + 1, 0, n) = FirstNonce(b + 1, n) + 0
    BY <1>3, StressTestAssumption DEF Reached
  <2> QED
    BY <1>3, <2>1, <2>2, <2>3
<1> QED
  BY <1>1, <1>2, <1>3

\* Products grow with their factors.
LEMMA TimesGrows ==
  ASSUME NEW a \in Nat, NEW b \in Nat, NEW c \in Nat, NEW d \in Nat, a <= b, c <= d
  PROVE  a * c <= b * d /\ a * c \in Nat /\ b * d \in Nat
<1>1. PICK x \in Nat : b = a + x
  <2>1. b - a \in Nat /\ b = a + (b - a)
    OBVIOUS
  <2> QED
    BY <2>1
<1>2. PICK y \in Nat : d = c + y
  <2>1. d - c \in Nat /\ d = c + (d - c)
    OBVIOUS
  <2> QED
    BY <2>1
<1>3. (a + x) * (c + y) = a * c + (a * y + x * c + x * y)
  BY <1>1, <1>2
<1>4. a * c \in Nat /\ a * y \in Nat /\ x * c \in Nat /\ x * y \in Nat
  BY <1>1, <1>2
<1>5. b * d = a * c + (a * y + x * c + x * y)
  BY <1>1, <1>2, <1>3
<1> QED
  BY <1>4, <1>5

\* A transaction that goes in uses no more gas than it may, and so no more than
\* the block has left; a call that finds its contract, what it is meant to use.
LEMMA CostFacts ==
  ASSUME IInv, Handle, NextTx.kind # "deposit", Executable(NextTx), NEW c \in Cost(NextTx)
  PROVE  /\ c \in Nat /\ c <= gasPool
         /\ executed = 0 /\ handled = 1 => c <= DeployGas
         /\ executed >= NumAddresses => c <= CallCost
         /\ executed >= NumAddresses /\ TestContract \in contracts =>
              IF cfg.stressTestType = "precompile" THEN c + GasBuffer > TxGas
              ELSE c = CallCost
<1>1. /\ NextTx.gas <= gasPool /\ NextTx.gas >= 1 /\ gasPool \in Int
  BY DEF Executable, IInv, GasInv, IntrinsicGas
<1>2. \/ executed = 0 /\ NextTx = TheDeployment(NextTx.tip)
      \/ /\ executed >= NumAddresses /\ handled < NumTxs
         /\ NextTx = Call(executed, handled + 1, NumTxs, TxGas, NextTx.tip)
  BY HeadFacts DEF Handle, DepositOf
<1>3. CASE executed = 0 /\ NextTx = TheDeployment(NextTx.tip)
  <2>1. NextTx.kind = "deploy" /\ NextTx.gas = DeployGas
    BY <1>3 DEF TheDeployment
  <2>2. c \in 1 .. DeployGas
    BY <2>1 DEF Cost, IntrinsicGas
  <2>3. ~(executed >= NumAddresses)
    BY <1>3, StressTestAssumption
  <2>4. c \in Nat /\ c <= DeployGas
    BY <2>2, StressTestAssumption
  <2> QED
    BY <1>1, <2>1, <2>3, <2>4, StressTestAssumption
<1>4. CASE /\ executed >= NumAddresses /\ handled < NumTxs
           /\ NextTx = Call(executed, handled + 1, NumTxs, TxGas, NextTx.tip)
  <2>1. NextTx.gas = TxGas /\ NextTx.kind = "call" /\ NextTx.to = TestContract
    BY <1>4 DEF Call
  <2>2. /\ TxGas \in Nat /\ NumTxs \in Nat /\ handled \in Nat /\ cfg.gasTarget \in Nat
        /\ cfg.stressTestType \in {"erc20", "precompile", "storage"}
    BY CfgFacts DEF IInv, QueueInv
  <2>3. NumTxs # 0
    BY <1>4, <2>2
  <2>4. cfg.stressTestType = "storage" => CallGas <= TxGas
    <3>1. ASSUME cfg.stressTestType = "storage"
          PROVE  CallGas <= TxGas
      <4>1. NumTxs = cfg.gasTarget \div CallGas /\ TxGas = cfg.gasTarget
        BY <3>1 DEF NumTxs, TxGas
      <4>2. \A x \in Nat : \A d \in Nat \ {0} : x \div d # 0 => d <= x
        OBVIOUS
      <4> QED
        BY <2>2, <2>3, <4>1, <4>2, StressTestAssumption
    <3> QED
      BY <3>1
  <2>5. ~(executed = 0)
    BY <1>4, StressTestAssumption
  <2>6. CASE TestContract \notin contracts
    <3>1. c = 1
      BY <2>1, <2>6 DEF Cost, IntrinsicGas
    <3>2. 1 <= CallCost /\ 1 <= TxGas
      BY <1>1, <2>1, <2>2, StressTestAssumption DEF CallCost
    <3>3. c \in Nat /\ c <= CallCost
      BY <3>1, <3>2
    <3>4. c <= gasPool
      BY <1>1, <2>1, <2>2, <3>1
    <3> QED
      BY <2>5, <2>6, <3>3, <3>4
  <2>7. CASE TestContract \in contracts /\ cfg.stressTestType = "precompile"
    <3>1. Cost(NextTx) = {x \in 1 .. TxGas : x > TxGas - GasBuffer}
      BY <2>1, <2>7 DEF Cost, IntrinsicGas
    <3>2. c \in Nat /\ c <= TxGas /\ c > TxGas - GasBuffer
      BY <2>2, <3>1
    <3>3. CallCost = TxGas
      BY <2>7 DEF CallCost
    <3>4. c + GasBuffer > TxGas
      BY <2>2, <3>2, StressTestAssumption
    <3> QED
      BY <1>1, <2>1, <2>2, <2>5, <2>7, <3>2, <3>3, <3>4
  <2>8. CASE TestContract \in contracts /\ cfg.stressTestType # "precompile"
    <3>1. c = CallCost
      BY <2>1, <2>2, <2>8 DEF Cost, CallCost
    <3>2. CallCost \in Nat /\ CallCost <= TxGas
      BY <2>2, <2>4, StressTestAssumption DEF CallCost
    <3> QED
      BY <1>1, <2>1, <2>2, <2>5, <2>8, <3>1, <3>2
  <2> QED
    BY <2>6, <2>7, <2>8
<1> QED
  BY <1>2, <1>3, <1>4

\* What the deployment and a call can cost is a number.
LEMMA BillFacts ==
  CfgInv /\ MarketInv =>
    /\ MaxPrice \in Nat /\ DeployBill \in Nat /\ CallBill \in Nat /\ DataFee \in Nat
    /\ \A m \in Nat : Bill(m, DeployBill, CallBill) \in Nat
<1> SUFFICES ASSUME CfgInv, MarketInv
             PROVE  /\ MaxPrice \in Nat /\ DeployBill \in Nat /\ CallBill \in Nat
                    /\ DataFee \in Nat
                    /\ \A m \in Nat : Bill(m, DeployBill, CallBill) \in Nat
  OBVIOUS
<1>1. MaxPrice \in Nat /\ DataFee \in Nat /\ DeployGas \in Nat /\ CallCost \in Nat
  <2>1. market.tip \in Nat /\ market.baseFee \in Nat
    BY MarketFacts
  <2>2. CallCost \in Nat
    BY CfgFacts
  <2>3. MaxPrice \in Nat
    BY <2>1 DEF MaxPrice
  <2> QED
    BY <2>2, <2>3, StressTestAssumption
<1>2. \A x, y \in Nat : x * y \in Nat
  OBVIOUS
<1>3. DeployBill \in Nat /\ CallBill \in Nat
  <2>1. DeployGas * MaxPrice \in Nat /\ CallCost * MaxPrice \in Nat
    BY <1>1, <1>2
  <2> QED
    BY <1>1, <2>1 DEF DeployBill, CallBill
<1>4. ASSUME NEW m \in Nat
      PROVE  Bill(m, DeployBill, CallBill) \in Nat
  <2>1. CASE m < 2
    BY <2>1 DEF Bill
  <2>2. CASE ~(m < 2)
    <3>1. m - 2 \in Nat
      BY <2>2
    <3>2. (m - 2) * CallBill \in Nat
      BY <1>2, <1>3, <3>1
    <3> QED
      BY <1>3, <2>2, <3>2 DEF Bill
  <2> QED
    BY <2>1, <2>2
<1> QED
  BY <1>1, <1>3, <1>4

\* What a transaction that goes in takes from its sender is within the bill for
\* the next nonce.
LEMMA PaidFacts ==
  ASSUME IInv, Handle, NextTx.kind # "deposit", Executable(NextTx), NEW c \in Cost(NextTx)
  PROVE  /\ NextTx.from = 0 /\ c * Price(NextTx) \in Nat
         /\ Bill(chainNonces[0], DeployBill, CallBill) + (c * Price(NextTx) + DataFee)
              <= Bill(chainNonces[0] + 1, DeployBill, CallBill)
<1> DEFINE n == chainNonces[0]
           price == Price(NextTx)
<1>1. /\ NextTx.from = 0 /\ NextTx.tip \in RunTips /\ NextTx.nonce = n
      /\ \/ executed = 0 /\ handled = 1 /\ NextTx = TheDeployment(NextTx.tip)
         \/ /\ executed >= NumAddresses
            /\ NextTx = Call(executed, handled + 1, NumTxs, TxGas, NextTx.tip)
  <2>1. \/ /\ executed = 0 /\ handled = 1 /\ NextTx = TheDeployment(NextTx.tip)
           /\ NextTx.tip \in RunTips
        \/ /\ executed >= NumAddresses /\ NextTx.tip \in RunTips
           /\ NextTx = Call(executed, handled + 1, NumTxs, TxGas, NextTx.tip)
    BY HeadFacts DEF Handle, DepositOf
  <2>2. NextTx.from = 0
    BY <2>1 DEF TheDeployment, Call
  <2> QED
    BY <2>1, <2>2 DEF Executable
<1>2. /\ c \in Nat
      /\ executed = 0 /\ handled = 1 => c <= DeployGas
      /\ executed >= NumAddresses => c <= CallCost
  BY CostFacts
<1>3. /\ n \in Nat /\ executed \in Nat /\ handled \in Nat /\ NumTxs \in Nat
      /\ CallCost \in Nat /\ DeployGas \in Nat
  <2>1. n \in Nat
    <3>1. 0 \in Accounts
      BY StressTestAssumption DEF Accounts
    <3> QED
      BY <3>1 DEF IInv, ChainInv
  <2>2. NumTxs \in Nat /\ CallCost \in Nat
    BY CfgFacts DEF IInv
  <2>3. executed \in Nat /\ handled \in Nat
    BY StressTestAssumption DEF IInv, QueueInv
  <2> QED
    BY <2>1, <2>2, <2>3, StressTestAssumption
<1>4. /\ MaxPrice \in Nat /\ DeployBill \in Nat /\ CallBill \in Nat /\ DataFee \in Nat
      /\ Bill(n, DeployBill, CallBill) \in Nat
  BY <1>3, BillFacts DEF IInv
<1>5. price \in Nat /\ price <= MaxPrice
  <2>1. /\ NextTx.tip \in Nat /\ NextTx.tip <= market.tip /\ market.tip \in Nat
        /\ baseFee \in Nat /\ baseFee <= market.baseFee /\ market.baseFee \in Nat
    BY <1>1, MarketFacts DEF IInv
  <2>2. FeeCap(NextTx) \in Nat
    BY StressTestAssumption DEF FeeCap, CallFeeCap
  <2> QED
    BY <2>1, <2>2 DEF Price, MaxPrice
<1> HIDE DEF n, price
<1>6. CASE executed = 0 /\ handled = 1 /\ NextTx = TheDeployment(NextTx.tip)
  <2>1. n = 1
    BY <1>1, <1>6 DEF TheDeployment
  <2>2. c * price <= DeployGas * MaxPrice /\ c * price \in Nat
        /\ DeployGas * MaxPrice \in Nat
    BY <1>2, <1>3, <1>4, <1>5, <1>6, TimesGrows
  <2>3. Bill(n, DeployBill, CallBill) = 0 /\ Bill(n + 1, DeployBill, CallBill) = DeployBill
    <3>1. Bill(1, DeployBill, CallBill) = 0
      BY DEF Bill
    <3>2. Bill(1 + 1, DeployBill, CallBill) = DeployBill + 0 * CallBill
      BY DEF Bill
    <3>3. DeployBill + 0 * CallBill = DeployBill
      BY <1>4
    <3> QED
      BY <2>1, <3>1, <3>2, <3>3
  <2>4. c * price + DataFee <= DeployBill
    BY <1>4, <2>2 DEF DeployBill
  <2> QED
    BY <1>1, <1>4, <2>2, <2>3, <2>4 DEF n, price
<1>7. CASE /\ executed >= NumAddresses
           /\ NextTx = Call(executed, handled + 1, NumTxs, TxGas, NextTx.tip)
  <2>1. n >= 2
    <3>1. FirstNonce(executed, NumTxs) \in Nat /\ FirstNonce(executed, NumTxs) >= 2
      BY <1>3, <1>7, FirstNonceStep
    <3>2. n = FirstNonce(executed, NumTxs) + (handled + 1) - 1
      BY <1>1, <1>7 DEF Call
    <3> QED
      BY <1>3, <3>1, <3>2
  <2>2. c * price <= CallCost * MaxPrice /\ c * price \in Nat
        /\ CallCost * MaxPrice \in Nat
    BY <1>2, <1>3, <1>4, <1>5, <1>7, TimesGrows
  <2>3. Bill(n + 1, DeployBill, CallBill) = Bill(n, DeployBill, CallBill) + CallBill
    <3>1. PICK d \in Nat : n = d + 2
      <4>1. n - 2 \in Nat /\ n = (n - 2) + 2
        BY <1>3, <2>1
      <4> QED
        BY <4>1
    <3>2. n - 2 = d /\ (n + 1) - 2 = d + 1 /\ ~(n < 2) /\ ~(n + 1 < 2)
      BY <3>1
    <3>3. /\ Bill(n, DeployBill, CallBill) = DeployBill + d * CallBill
          /\ Bill(n + 1, DeployBill, CallBill) = DeployBill + (d + 1) * CallBill
      BY <3>2 DEF Bill
    <3>4. (d + 1) * CallBill = d * CallBill + CallBill /\ d * CallBill \in Nat
      BY <1>4, <3>1
    <3> QED
      BY <1>4, <3>3, <3>4
  <2>4. c * price + DataFee <= CallBill
    BY <1>4, <2>2 DEF CallBill
  <2> QED
    BY <1>1, <1>4, <2>2, <2>3, <2>4 DEF n, price
<1> QED
  BY <1>1, <1>6, <1>7

-----------------------------------------------------------------------------
(* The steps of the invariant                                               *)

\* The initial state.
LEMMA InvInit == Init => IInv
<1> SUFFICES ASSUME Init
             PROVE  IInv
  OBVIOUS
<1>1. CfgInv
  BY DEF Init, CfgInv
<1>2. cfg.gasLimit \in Nat /\ 0 \in Accounts
  <2>1. cfg.gasLimit \in Nat
    BY <1>1, CfgFacts
  <2> QED
    BY <2>1, StressTestAssumption DEF Accounts
<1>3. QueueInv
  BY StressTestAssumption DEF Init, QueueInv
<1>4. \A a \in Accounts : ~(a < 0)
  BY StressTestAssumption DEF Accounts
<1>5. LocalInv
  BY <1>4 DEF Init, LocalInv, Counted
<1>6. PanicInv
  <2>1. panicked = FALSE /\ mapped = 0
    BY DEF Init
  <2>2. ~(mapped > NumAddresses)
    BY <2>1, StressTestAssumption
  <2> QED
    BY <2>1, <2>2, Zenon DEF PanicInv
<1>7. MintInv
  BY <1>4 DEF Init, MintInv
<1>8. ChainInv
  BY <1>2 DEF Init, ChainInv, Reached
<1>9. GasInv
  BY <1>2 DEF Init, GasInv
<1>10. RoomInv
  BY <1>2, StressTestAssumption DEF Init, RoomInv, Reached
<1>11. MarketInv
  BY DEF Init, MarketInv
<1>12. FundsInv
  <2>1. balances = [a \in Accounts |-> 0] /\ mints[0] = 0 /\ chainNonces[0] = 0
    BY <1>2 DEF Init
  <2>2. Bill(0, DeployBill, CallBill) = 0
    BY DEF Bill
  <2> QED
    BY <1>2, <2>1, <2>2 DEF FundsInv
<1> QED
  BY <1>1, <1>3, <1>5, <1>6, <1>7, <1>8, <1>9, <1>10, <1>11, <1>12 DEF IInv

\* Every step keeps the configuration.
LEMMA CfgStep == IInv /\ [Next]_vars => CfgInv'
<1>1. [Next]_vars => cfg' = cfg
  BY CfgKept
<1> QED
  BY <1>1 DEF IInv, CfgInv

\* Tips and base fees stay within what the run is to see.
LEMMA MarketStep == IInv /\ [Next]_vars => MarketInv'
<1> SUFFICES ASSUME IInv, [Next]_vars
             PROVE  MarketInv'
  OBVIOUS
<1>1. market' = market
  BY CfgKept
<1>2. CASE SealBlock
  BY <1>1, <1>2 DEF SealBlock, IInv, MarketInv
<1>3. CASE ~SealBlock
  <2>1. baseFee' = baseFee
    <3>1. CASE FirstBlock \/ FundingBlock \/ PackItUp
      BY <3>1, MapStep DEF chainVars
    <3>2. CASE ~(FirstBlock \/ FundingBlock \/ PackItUp)
      BY <1>3, <3>2, StepCases DEF Panics, ExecuteDeposit, ExecuteTransaction,
         DropTransaction, Handle, vars, chainVars
    <3> QED
      BY <3>1, <3>2
  <2> QED
    BY <1>1, <2>1 DEF IInv, MarketInv
<1> QED
  BY <1>2, <1>3

\* What is under way is the content of the blocks mapped and not executed.
LEMMA QueueStep == IInv /\ [Next]_vars => QueueInv'
<1> SUFFICES ASSUME IInv, [Next]_vars
             PROVE  QueueInv'
  OBVIOUS
<1>1. /\ mapped \in Nat /\ executed \in Nat /\ mapped <= BlockCount /\ executed <= mapped
      /\ pending \in Seq(Seq(Transactions)) /\ Len(pending) \in Nat
      /\ Len(pending) = mapped - executed /\ Len(pending) <= QueueCap
      /\ \A k \in 1 .. Len(pending) :
           IsBlock(pending[k], executed + k - 1, NumTxs, TxGas, RunTips)
      /\ handled \in Nat
      /\ handled > 0 => pending # <<>> /\ handled <= Len(pending[1])
  BY StressTestAssumption DEF IInv, QueueInv
<1>2. /\ NumTxs' = NumTxs /\ TxGas' = TxGas /\ RunTips' = RunTips
      /\ NumTxs \in Nat /\ TxGas \in Nat
  BY CfgKept, CfgFacts DEF IInv
<1>3. CASE FirstBlock \/ FundingBlock \/ PackItUp
  <2>0. PICK t \in RunTips : pending' = Append(pending, BlockTxs(mapped, NumTxs, TxGas, t))
    BY <1>3, MapStep
  <2> DEFINE txs == BlockTxs(mapped, NumTxs, TxGas, t)
  <2>1. /\ mapped' = mapped + 1 /\ mapped < BlockCount /\ Len(pending) < QueueCap
        /\ pending' = Append(pending, txs) /\ executed' = executed /\ handled' = handled
    BY <1>3, <2>0, MapStep DEF chainVars
  <2>2. txs \in Seq(Transactions)
    <3>1. t \in Nat
      BY MarketFacts DEF IInv
    <3> QED
      BY <1>1, <1>2, <3>1, BlockTxsFacts
  <2>3. IsBlock(txs, executed + (Len(pending) + 1) - 1, NumTxs, TxGas, RunTips)
    <3>1. mapped = executed + (Len(pending) + 1) - 1
      BY <1>1
    <3>2. IsBlock(txs, mapped, NumTxs, TxGas, RunTips)
      BY DEF IsBlock
    <3> QED
      BY <3>1, <3>2
  <2> HIDE DEF txs
  <2>4. /\ pending' \in Seq(Seq(Transactions)) /\ Len(pending') = Len(pending) + 1
        /\ \A k \in 1 .. Len(pending) : pending'[k] = pending[k]
        /\ pending'[Len(pending) + 1] = txs
    <3>1. /\ Append(pending, txs) \in Seq(Seq(Transactions))
          /\ Len(Append(pending, txs)) = Len(pending) + 1
          /\ \A k \in 1 .. Len(pending) : Append(pending, txs)[k] = pending[k]
          /\ Append(pending, txs)[Len(pending) + 1] = txs
      <4> DEFINE S == Seq(Transactions)
      <4>1. pending \in Seq(S) /\ txs \in S
        BY <1>1, <2>2
      <4> HIDE DEF S
      <4>2. /\ Append(pending, txs) \in Seq(S)
            /\ Len(Append(pending, txs)) = Len(pending) + 1
            /\ \A k \in 1 .. Len(pending) : Append(pending, txs)[k] = pending[k]
            /\ Append(pending, txs)[Len(pending) + 1] = txs
        BY <4>1, AppendProperties
      <4> QED
        BY <4>2 DEF S
    <3> QED
      BY <2>1, <3>1
  <2>5. \A k \in 1 .. Len(pending') : k \in 1 .. Len(pending) \/ k = Len(pending) + 1
    BY <1>1, <2>4
  <2>6. \A k \in 1 .. Len(pending') :
          IsBlock(pending'[k], executed + k - 1, NumTxs, TxGas, RunTips)
    BY <1>1, <2>3, <2>4, <2>5
  <2>7. handled > 0 => pending' # <<>> /\ handled <= Len(pending'[1])
    <3>1. ASSUME handled > 0
          PROVE  pending' # <<>> /\ handled <= Len(pending'[1])
      <4>1. pending # <<>> /\ handled <= Len(pending[1])
        BY <1>1, <3>1
      <4>2. 1 \in 1 .. Len(pending) /\ Len(pending') # 0
        BY <1>1, <2>4, <4>1
      <4>3. pending'[1] = pending[1] /\ pending' # <<>>
        BY <2>4, <4>2
      <4> QED
        BY <4>1, <4>3
    <3> QED
      BY <3>1
  <2>8. /\ mapped' \in 0 .. BlockCount /\ executed' \in 0 .. mapped'
        /\ Len(pending') = mapped' - executed' /\ Len(pending') <= QueueCap
    BY <1>1, <2>1, <2>4, StressTestAssumption
  <2> QED
    BY <1>1, <1>2, <2>1, <2>4, <2>6, <2>7, <2>8 DEF QueueInv
<1>4. CASE ExecuteDeposit \/ ExecuteTransaction \/ DropTransaction
  <2>1. /\ handled' = handled + 1 /\ pending' = pending /\ mapped' = mapped
        /\ executed' = executed /\ pending # <<>> /\ handled < Len(Head(pending))
    BY <1>4 DEF ExecuteDeposit, ExecuteTransaction, DropTransaction, Handle, strategyVars
  <2>2. handled < Len(pending[1]) /\ Len(pending[1]) \in Nat
    <3>1. 1 \in 1 .. Len(pending)
      BY <1>1, <2>1
    <3>2. pending[1] \in Seq(Transactions)
      BY <1>1, <3>1, ElementOfSeq
    <3> QED
      BY <2>1, <3>2
  <2>3. handled' \in Nat /\ handled' <= Len(pending[1])
    BY <1>1, <2>1, <2>2
  <2> QED
    BY <1>2, <2>1, <2>3 DEF IInv, QueueInv
<1>5. CASE SealBlock
  <2>1. /\ executed' = executed + 1 /\ pending' = Tail(pending) /\ handled' = 0
        /\ mapped' = mapped /\ pending # <<>>
    BY <1>5 DEF SealBlock, strategyVars
  <2>2. /\ pending' \in Seq(Seq(Transactions)) /\ Len(pending') = Len(pending) - 1
        /\ \A k \in 1 .. Len(pending') : pending'[k] = pending[k + 1]
        /\ Len(pending) > 0
    BY <1>1, <2>1, HeadTailProperties
  <2>3. \A k \in 1 .. Len(pending') :
          k \in Nat /\ k + 1 \in 1 .. Len(pending)
          /\ executed + (k + 1) - 1 = (executed + 1) + k - 1
    BY <1>1, <2>2
  <2>4. \A k \in 1 .. Len(pending') :
          IsBlock(pending'[k], (executed + 1) + k - 1, NumTxs, TxGas, RunTips)
    BY <1>1, <2>2, <2>3
  <2>5. /\ mapped' \in 0 .. BlockCount /\ executed' \in 0 .. mapped'
        /\ Len(pending') = mapped' - executed' /\ Len(pending') <= QueueCap
    BY <1>1, <2>1, <2>2, StressTestAssumption
  <2> QED
    BY <1>2, <2>1, <2>2, <2>4, <2>5 DEF QueueInv
<1>6. CASE Panics \/ UNCHANGED vars
  BY <1>2, <1>6 DEF IInv, QueueInv, Panics, vars,
                    strategyVars, chainVars
<1> QED
  BY <1>3, <1>4, <1>5, <1>6, StepCases

\* The local count moves with the blocks that are mapped, and with nothing else.
LEMMA LocalStep == IInv /\ [Next]_vars => LocalInv'
<1> SUFFICES ASSUME IInv, [Next]_vars
             PROVE  LocalInv'
  OBVIOUS
<1>1. CASE FirstBlock \/ FundingBlock \/ PackItUp
  BY <1>1, MapStep
<1>2. CASE ~(FirstBlock \/ FundingBlock \/ PackItUp)
  <2>1. UNCHANGED strategyVars
    BY <1>2, StepCases DEF Panics, ExecuteDeposit,
       ExecuteTransaction, DropTransaction, Handle, SealBlock, vars
  <2>2. NumTxs' = NumTxs
    BY CfgKept
  <2> QED
    BY <2>1, <2>2 DEF IInv, LocalInv, strategyVars
<1> QED
  BY <1>1, <1>2

\* A function that BlockReceived has packed with once, it has for good.
LEMMA PanicStep == IInv /\ [Next]_vars => PanicInv'
<1> SUFFICES ASSUME IInv, [Next]_vars
             PROVE  PanicInv'
  OBVIOUS
<1>1. HasFunction' <=> HasFunction
  BY CfgKept
<1>2. panicked \in BOOLEAN /\ (mapped > NumAddresses => HasFunction)
  BY DEF IInv, PanicInv
<1>3. NumAddresses \in Nat /\ mapped \in Nat
  BY StressTestAssumption DEF IInv, QueueInv
<1>4. CASE FirstBlock \/ FundingBlock \/ PackItUp
  <2>1. /\ mapped' = mapped + 1 /\ panicked' = panicked
        /\ mapped >= NumAddresses => HasFunction
    BY <1>4, MapStep
  <2>2. mapped' > NumAddresses => mapped >= NumAddresses
    <3>1. mapped' = mapped + 1
      BY <2>1
    <3> QED
      BY <1>3, <3>1
  <2> QED
    BY <1>1, <1>2, <2>1, <2>2, Zenon DEF PanicInv
<1>5. CASE Panics
  <2>1. panicked' = TRUE /\ mapped' = mapped
    BY <1>5 DEF Panics, strategyVars
  <2> QED
    BY <1>1, <1>2, <2>1, Zenon DEF PanicInv
<1>6. CASE ExecuteDeposit \/ ExecuteTransaction \/ DropTransaction \/ SealBlock
           \/ UNCHANGED vars
  <2>1. mapped' = mapped /\ panicked' = panicked
    BY <1>6 DEF ExecuteDeposit, ExecuteTransaction, DropTransaction, Handle, SealBlock,
                vars, strategyVars
  <2> QED
    BY <1>1, <1>2, <2>1, Zenon DEF PanicInv
<1> QED
  BY <1>4, <1>5, <1>6, StepCases

\* An account is funded by the first transaction of its block, and by no other.
LEMMA MintStep == IInv /\ [Next]_vars => MintInv'
<1> SUFFICES ASSUME IInv, [Next]_vars
             PROVE  MintInv'
  OBVIOUS
<1>1. /\ mints = [a \in Accounts |->
                   IF a < executed \/ (a = executed /\ handled > 0) THEN 1 ELSE 0]
      /\ executed \in Nat /\ handled \in Nat
  BY StressTestAssumption DEF IInv, MintInv, QueueInv
<1>2. \A a \in Accounts : a \in Nat /\ a < NumAddresses
  BY StressTestAssumption DEF Accounts
<1>3. CASE UNCHANGED <<executed, handled, mints>>
  BY <1>1, <1>3 DEF MintInv
<1>4. CASE ExecuteDeposit
  <2>1. /\ pending # <<>> /\ handled < Len(Head(pending)) /\ NextTx.kind = "deposit"
        /\ handled' = handled + 1 /\ executed' = executed
        /\ mints' = [mints EXCEPT ![NextTx.from] = mints[NextTx.from] + 1]
    BY <1>4 DEF ExecuteDeposit, Handle
  <2>2. executed < NumAddresses /\ handled = 0 /\ NextTx = DepositOf(executed)
    BY <2>1, HeadFacts DEF TheDeployment, Call
  <2>3. NextTx.from = executed /\ executed \in Accounts /\ handled' = 1
    BY <1>1, <2>1, <2>2, StressTestAssumption DEF DepositOf, Accounts
  <2>4. mints[executed] = 0
    BY <1>1, <2>2, <2>3
  <2>5. mints' = [a \in Accounts |->
                   IF a < executed \/ (a = executed /\ 1 > 0) THEN 1 ELSE 0]
    BY <1>1, <2>1, <2>2, <2>3, <2>4
  <2> QED
    BY <2>1, <2>3, <2>5 DEF MintInv
<1>5. CASE ExecuteTransaction \/ DropTransaction
  <2>1. /\ pending # <<>> /\ handled < Len(Head(pending)) /\ NextTx.kind # "deposit"
        /\ handled' = handled + 1 /\ executed' = executed /\ mints' = mints
    BY <1>5 DEF ExecuteTransaction, DropTransaction, Handle
  <2>2. (executed = 0 /\ handled = 1) \/ executed >= NumAddresses
    BY <2>1, HeadFacts DEF DepositOf
  <2>3. \A a \in Accounts : (a < executed \/ (a = executed /\ handled > 0))
                              <=> (a < executed \/ (a = executed /\ handled + 1 > 0))
    BY <1>1, <1>2, <2>2, StressTestAssumption
  <2> QED
    BY <1>1, <2>1, <2>3 DEF MintInv
<1>6. CASE SealBlock
  <2>1. /\ pending # <<>> /\ handled = Len(Head(pending))
        /\ handled' = 0 /\ executed' = executed + 1 /\ mints' = mints
    BY <1>6 DEF SealBlock
  <2>2. executed < NumAddresses => handled > 0
    BY <1>1, <2>1, HeadFacts
  <2>3. \A a \in Accounts : (a < executed \/ (a = executed /\ handled > 0))
                              <=> (a < executed + 1 \/ (a = executed + 1 /\ 0 > 0))
    BY <1>1, <1>2, <2>2, StressTestAssumption
  <2> QED
    BY <1>1, <2>1, <2>3 DEF MintInv
<1>7. CASE FirstBlock \/ FundingBlock \/ PackItUp \/ Panics
           \/ UNCHANGED vars
  <2>1. UNCHANGED chainVars
    BY <1>7, MapStep DEF Panics, vars
  <2> QED
    BY <1>3, <2>1 DEF chainVars
<1> QED
  BY <1>4, <1>5, <1>6, <1>7, StepCases

\* The destination's nonces are those of the deposits, and never past those
\* that the strategy gave to what has been handled.
LEMMA ChainStep == IInv /\ [Next]_vars => ChainInv'
<1> SUFFICES ASSUME IInv, [Next]_vars
             PROVE  ChainInv'
  OBVIOUS
<1>1. /\ executed \in Nat /\ handled \in Nat /\ NumTxs \in Nat /\ NumTxs' = NumTxs
  <2>1. NumTxs \in Nat /\ NumTxs' = NumTxs
    BY CfgFacts, CfgKept DEF IInv
  <2> QED
    BY <2>1, StressTestAssumption DEF IInv, QueueInv
<1>2. /\ chainNonces \in [Accounts -> Nat]
      /\ \A a \in Accounts \ {0} : chainNonces[a] = mints[a]
      /\ chainNonces[0] <= Reached(executed, handled, NumTxs)
  BY DEF IInv, ChainInv
<1>3. 0 \in Accounts /\ chainNonces[0] \in Nat
  BY <1>2, StressTestAssumption DEF Accounts
<1>4. /\ Reached(executed, handled, NumTxs) \in Nat
      /\ Reached(executed, handled + 1, NumTxs) \in Nat
      /\ Reached(executed, handled, NumTxs) <= Reached(executed, handled + 1, NumTxs)
  BY <1>1, ReachedFacts
<1>5. CASE ExecuteDeposit
  <2>1. /\ pending # <<>> /\ handled < Len(Head(pending)) /\ NextTx.kind = "deposit"
        /\ handled' = handled + 1 /\ executed' = executed
        /\ mints' = [mints EXCEPT ![NextTx.from] = mints[NextTx.from] + 1]
        /\ chainNonces' = [chainNonces EXCEPT ![NextTx.from] = chainNonces[NextTx.from] + 1]
    BY <1>5 DEF ExecuteDeposit, Handle, MoveNonce
  <2>2. executed < NumAddresses /\ handled = 0 /\ NextTx = DepositOf(executed)
    BY <2>1, HeadFacts DEF TheDeployment, Call
  <2>3. NextTx.from = executed /\ executed \in Accounts
    BY <1>1, <2>2, StressTestAssumption DEF DepositOf, Accounts
  <2>4. chainNonces' \in [Accounts -> Nat]
    BY <1>2, <2>1, <2>3
  <2>5. \A a \in Accounts \ {0} : chainNonces'[a] = mints'[a]
    <3>1. mints \in [Accounts -> {0, 1}]
      BY DEF IInv, MintInv
    <3> QED
      BY <1>2, <2>1, <2>3, <3>1
  <2>6. chainNonces'[0] <= Reached(executed, handled + 1, NumTxs)
    <3>1. CASE executed = 0
      <4>1. Reached(executed, handled, NumTxs) = 0 /\ Reached(executed, handled + 1, NumTxs) = 1
        BY <2>2, <3>1 DEF Reached
      <4>2. chainNonces'[0] = chainNonces[0] + 1
        BY <1>2, <1>3, <2>1, <2>3, <3>1
      <4> QED
        BY <1>2, <1>3, <4>1, <4>2
    <3>2. CASE executed # 0
      <4>1. chainNonces'[0] = chainNonces[0]
        BY <1>2, <1>3, <2>1, <2>3, <3>2
      <4> QED
        BY <1>2, <1>3, <1>4, <4>1
    <3> QED
      BY <3>1, <3>2
  <2> QED
    BY <1>1, <2>1, <2>4, <2>5, <2>6 DEF ChainInv
<1>6. CASE ExecuteTransaction
  <2>1. /\ pending # <<>> /\ handled < Len(Head(pending)) /\ NextTx.kind # "deposit"
        /\ handled' = handled + 1 /\ executed' = executed /\ mints' = mints
        /\ chainNonces' = [chainNonces EXCEPT ![NextTx.from] = chainNonces[NextTx.from] + 1]
        /\ NextTx.nonce = chainNonces[NextTx.from]
    BY <1>6 DEF ExecuteTransaction, Handle, MoveNonce, Executable
  <2>2. \/ executed = 0 /\ handled = 1 /\ NextTx = TheDeployment(NextTx.tip)
        \/ executed >= NumAddresses /\ NextTx = Call(executed, handled + 1, NumTxs, TxGas, NextTx.tip)
    BY <2>1, HeadFacts DEF DepositOf
  <2>3. NextTx.from = 0
    BY <2>2 DEF TheDeployment, Call
  <2>4. NextTx.nonce + 1 = Reached(executed, handled + 1, NumTxs)
    <3>1. CASE executed = 0 /\ handled = 1 /\ NextTx = TheDeployment(NextTx.tip)
      BY <3>1 DEF TheDeployment, Reached
    <3>2. CASE executed >= NumAddresses /\ NextTx = Call(executed, handled + 1, NumTxs, TxGas, NextTx.tip)
      <4>1. executed # 0 /\ ~(executed < NumAddresses)
        BY <1>1, <3>2, StressTestAssumption
      <4>2. FirstNonce(executed, NumTxs) \in Nat
        BY <1>1, <3>2, FirstNonceStep
      <4>3. NextTx.nonce = FirstNonce(executed, NumTxs) + (handled + 1) - 1
        BY <3>2 DEF Call
      <4>4. Reached(executed, handled + 1, NumTxs) = FirstNonce(executed, NumTxs) + (handled + 1)
        BY <4>1 DEF Reached
      <4> QED
        BY <1>1, <4>2, <4>3, <4>4
    <3> QED
      BY <2>2, <3>1, <3>2
  <2>5. chainNonces'[0] = Reached(executed, handled + 1, NumTxs)
    BY <1>2, <1>3, <2>1, <2>3, <2>4
  <2>6. chainNonces' \in [Accounts -> Nat]
        /\ \A a \in Accounts \ {0} : chainNonces'[a] = mints'[a]
    BY <1>2, <1>3, <2>1, <2>3
  <2> QED
    BY <1>1, <1>4, <2>1, <2>5, <2>6 DEF ChainInv
<1>7. CASE DropTransaction
  <2>1. /\ handled' = handled + 1 /\ executed' = executed
        /\ mints' = mints /\ chainNonces' = chainNonces
    BY <1>7 DEF DropTransaction, Handle
  <2>2. chainNonces[0] <= Reached(executed, handled + 1, NumTxs)
    BY <1>2, <1>3, <1>4
  <2> QED
    BY <1>1, <1>2, <2>1, <2>2 DEF ChainInv
<1>8. CASE SealBlock
  <2>1. /\ pending # <<>> /\ handled = Len(Head(pending))
        /\ handled' = 0 /\ executed' = executed + 1
        /\ mints' = mints /\ chainNonces' = chainNonces
    BY <1>8 DEF SealBlock
  <2>2. Reached(executed + 1, 0, NumTxs) = Reached(executed, handled, NumTxs)
    <3>1. handled = IF executed = 0 THEN 2 ELSE IF executed < NumAddresses THEN 1 ELSE NumTxs
      BY <2>1, HeadFacts
    <3> QED
      BY <1>1, <3>1, ReachedFacts
  <2> QED
    BY <1>1, <1>2, <2>1, <2>2 DEF ChainInv
<1>9. CASE FirstBlock \/ FundingBlock \/ PackItUp \/ Panics
           \/ UNCHANGED vars
  <2>1. UNCHANGED chainVars
    BY <1>9, MapStep DEF Panics, vars
  <2> QED
    BY <1>1, <1>2, <2>1 DEF chainVars, ChainInv
<1> QED
  BY <1>5, <1>6, <1>7, <1>8, <1>9, StepCases

\* What the strategy's transactions have used and what is left of the block's
\* gas stay within the configured limit.
LEMMA GasStep == IInv /\ [Next]_vars => GasInv'
<1> SUFFICES ASSUME IInv, [Next]_vars
             PROVE  GasInv'
  OBVIOUS
<1>1. /\ handled \in Nat /\ cfg.gasLimit \in Nat /\ cfg' = cfg
  BY CfgFacts, CfgKept DEF IInv, QueueInv
<1>2. /\ gasPool \in Int /\ gasUsed \in Nat
      /\ lastGasUsed \in Nat /\ lastGasUsed <= cfg.gasLimit
      /\ gasPool + gasUsed <= cfg.gasLimit
      /\ handled = 0 => gasUsed = 0
      /\ gasUsed > 0 => gasPool >= 0
  BY <1>1 DEF IInv, GasInv
<1>3. CASE ExecuteDeposit
  <2>1. /\ pending # <<>> /\ handled < Len(Head(pending)) /\ NextTx.kind = "deposit"
        /\ handled' = handled + 1 /\ gasPool' = gasPool - NextTx.gas
        /\ gasUsed' = gasUsed /\ lastGasUsed' = lastGasUsed
    BY <1>3 DEF ExecuteDeposit, Handle
  <2>2. handled = 0 /\ NextTx.gas = DepositGas
    BY <2>1, HeadFacts DEF TheDeployment, Call, DepositOf
  <2> QED
    BY <1>1, <1>2, <2>1, <2>2, StressTestAssumption DEF GasInv
<1>4. CASE ExecuteTransaction
  <2>1. PICK c \in Cost(NextTx) :
          /\ handled' = handled + 1 /\ gasPool' = gasPool - c
          /\ gasUsed' = gasUsed + c /\ lastGasUsed' = lastGasUsed
    BY <1>4 DEF ExecuteTransaction, Handle
  <2>2. c \in Nat /\ c <= gasPool
    BY <1>4, CostFacts DEF ExecuteTransaction
  <2> QED
    BY <1>1, <1>2, <2>1, <2>2 DEF GasInv
<1>5. CASE DropTransaction
  <2>1. /\ handled' = handled + 1 /\ gasPool' = gasPool
        /\ gasUsed' = gasUsed /\ lastGasUsed' = lastGasUsed
    BY <1>5 DEF DropTransaction, Handle
  <2> QED
    BY <1>1, <1>2, <2>1 DEF GasInv
<1>6. CASE SealBlock
  <2>1. /\ handled' = 0 /\ gasUsed' = 0 /\ lastGasUsed' = gasUsed
        /\ gasPool' = cfg.gasLimit \/ gasPool' = cfg.gasLimit - DepositGas
    BY <1>6 DEF SealBlock
  <2>2. gasUsed <= cfg.gasLimit
    BY <1>1, <1>2
  <2> QED
    BY <1>1, <1>2, <2>1, <2>2, StressTestAssumption DEF GasInv
<1>7. CASE FirstBlock \/ FundingBlock \/ PackItUp \/ Panics
           \/ UNCHANGED vars
  <2>1. UNCHANGED chainVars
    BY <1>7, MapStep DEF Panics, vars
  <2> QED
    BY <1>1, <1>2, <2>1 DEF chainVars, GasInv
<1> QED
  BY <1>3, <1>4, <1>5, <1>6, <1>7, StepCases

\* The first account's balance keeps up with the bill, whatever is dropped.
LEMMA FundsStep == IInv /\ [Next]_vars => FundsInv'
<1> SUFFICES ASSUME IInv, [Next]_vars
             PROVE  FundsInv'
  OBVIOUS
<1> DEFINE funded == IF mints[0] = 0 THEN 0 ELSE Mint
<1>1. /\ 0 \in Accounts /\ chainNonces \in [Accounts -> Nat] /\ chainNonces[0] \in Nat
      /\ mints \in [Accounts -> {0, 1}] /\ mints[0] \in Nat
      /\ balances \in [Accounts -> Int] /\ balances[0] \in Int
      /\ balances[0] >= funded - Bill(chainNonces[0], DeployBill, CallBill)
      /\ Mint \in Nat /\ DataFee \in Nat /\ funded \in Nat
  <2>1. 0 \in Accounts
    BY StressTestAssumption DEF Accounts
  <2>2. mints \in [Accounts -> {0, 1}]
    BY DEF IInv, MintInv
  <2> QED
    BY <2>1, <2>2, StressTestAssumption DEF IInv, ChainInv, FundsInv
<1>2. /\ DeployBill' = DeployBill /\ CallBill' = CallBill
      /\ \A m \in Nat : Bill(m, DeployBill, CallBill) \in Nat
  <2>1. market' = market /\ CallCost' = CallCost
    BY CfgKept
  <2>2. DeployBill' = DeployBill /\ CallBill' = CallBill
    BY <2>1 DEF DeployBill, CallBill, MaxPrice
  <2> QED
    BY <2>2, BillFacts DEF IInv
<1>3. CASE UNCHANGED <<balances, mints, chainNonces>>
  <2>1. Bill(chainNonces'[0], DeployBill', CallBill')
          = Bill(chainNonces[0], DeployBill, CallBill)
    BY <1>1, <1>2, <1>3
  <2> QED
    BY <1>1, <1>3, <2>1 DEF FundsInv
<1>4. CASE ExecuteDeposit
  <2>1. /\ pending # <<>> /\ handled < Len(Head(pending)) /\ NextTx.kind = "deposit"
        /\ mints' = [mints EXCEPT ![NextTx.from] = mints[NextTx.from] + 1]
        /\ balances' = [balances EXCEPT ![NextTx.from] = balances[NextTx.from] + Mint]
        /\ chainNonces' = [chainNonces EXCEPT ![NextTx.from] = chainNonces[NextTx.from] + 1]
    BY <1>4 DEF ExecuteDeposit, Handle, MoveNonce
  <2>2. executed < NumAddresses /\ handled = 0 /\ NextTx.from = executed
        /\ executed \in Nat
    BY <2>1, HeadFacts DEF TheDeployment, Call, DepositOf
  <2>3. executed \in Accounts
    BY <2>2, StressTestAssumption DEF Accounts
  <2>4. balances' \in [Accounts -> Int]
    BY <1>1, <2>1, <2>2, <2>3
  <2>5. CASE executed = 0
    <3>1. mints[0] = 0
      BY <1>1, <2>2, <2>5 DEF IInv, MintInv
    <3>2. chainNonces[0] = 0
      BY <1>1, <2>2, <2>5 DEF IInv, ChainInv, Reached
    <3>3. /\ balances'[0] = balances[0] + Mint /\ mints'[0] = 1 /\ chainNonces'[0] = 1
      BY <1>1, <2>1, <2>2, <2>5, <3>1, <3>2
    <3>4. Bill(0, DeployBill, CallBill) = 0 /\ Bill(1, DeployBill, CallBill) = 0
      BY DEF Bill
    <3>5. balances[0] >= 0
      BY <1>1, <3>1, <3>2, <3>4
    <3>6. Bill(chainNonces'[0], DeployBill', CallBill') = 0
      BY <1>2, <3>3, <3>4
    <3>7. balances'[0] >= Mint - 0 /\ mints'[0] # 0
      BY <1>1, <3>3, <3>5
    <3> QED
      BY <2>4, <3>6, <3>7 DEF FundsInv
  <2>6. CASE executed # 0
    <3>1. balances'[0] = balances[0] /\ mints'[0] = mints[0] /\ chainNonces'[0] = chainNonces[0]
      BY <1>1, <2>1, <2>2, <2>3, <2>6
    <3>2. Bill(chainNonces'[0], DeployBill', CallBill')
            = Bill(chainNonces[0], DeployBill, CallBill)
      BY <1>1, <1>2, <3>1
    <3> QED
      BY <1>1, <2>4, <3>1, <3>2 DEF FundsInv
  <2> QED
    BY <2>5, <2>6
<1>5. CASE ExecuteTransaction
  <2>1. PICK c \in Cost(NextTx) :
          /\ mints' = mints
          /\ balances' = [balances EXCEPT ![NextTx.from] =
                            balances[NextTx.from] - c * Price(NextTx) - DataFee]
          /\ chainNonces' = [chainNonces EXCEPT ![NextTx.from] = chainNonces[NextTx.from] + 1]
    BY <1>5 DEF ExecuteTransaction, MoveNonce
  <2> DEFINE paid == c * Price(NextTx)
  <2>2. /\ NextTx.from = 0 /\ paid \in Nat
        /\ Bill(chainNonces[0], DeployBill, CallBill) + (paid + DataFee)
             <= Bill(chainNonces[0] + 1, DeployBill, CallBill)
    BY <1>5, PaidFacts DEF ExecuteTransaction
  <2>3. /\ balances'[0] = balances[0] - paid - DataFee
        /\ chainNonces'[0] = chainNonces[0] + 1 /\ mints'[0] = mints[0]
    BY <1>1, <2>1, <2>2
  <2>4. balances' \in [Accounts -> Int]
    <3>1. balances[0] - paid - DataFee \in Int
      BY <1>1, <2>2
    <3> QED
      BY <1>1, <2>1, <2>2, <3>1
  <2>5. Bill(chainNonces'[0], DeployBill', CallBill') = Bill(chainNonces[0] + 1, DeployBill, CallBill)
        /\ Bill(chainNonces[0] + 1, DeployBill, CallBill) \in Nat /\ Bill(chainNonces[0], DeployBill, CallBill) \in Nat
    <3>1. chainNonces[0] + 1 \in Nat
      BY <1>1
    <3> QED
      BY <1>1, <1>2, <2>3, <3>1
  <2> HIDE DEF paid, funded
  <2>6. balances'[0] >= funded - Bill(chainNonces[0] + 1, DeployBill, CallBill)
    BY <1>1, <2>2, <2>3, <2>5
  <2> QED
    BY <2>3, <2>4, <2>5, <2>6 DEF FundsInv, funded
<1>6. CASE DropTransaction \/ SealBlock
  BY <1>3, <1>6 DEF DropTransaction, SealBlock
<1>7. CASE FirstBlock \/ FundingBlock \/ PackItUp \/ Panics
           \/ UNCHANGED vars
  <2>1. UNCHANGED chainVars
    BY <1>7, MapStep DEF Panics, vars
  <2> QED
    BY <1>3, <2>1 DEF chainVars
<1> QED
  BY <1>4, <1>5, <1>6, <1>7, StepCases

\* With room, the first account can still pay when its next call comes.
LEMMA BillCovered ==
  ASSUME IInv, HasRoom, executed >= NumAddresses, executed < mapped, handled < NumTxs
  PROVE  Mint - Bill(FirstNonce(executed, NumTxs) + handled, DeployBill, CallBill) >= TxGas * CallFeeCap + DataFee
<1> DEFINE d == executed - NumAddresses
           m == FirstNonce(executed, NumTxs) + handled
<1>1. /\ d \in Nat /\ handled \in Nat /\ NumTxs \in Nat /\ TxGas \in Nat /\ BlockCount \in Nat
      /\ d + 1 <= BlockCount
  <2>1. executed \in Nat /\ mapped \in Nat /\ mapped <= BlockCount /\ handled \in Nat
    BY StressTestAssumption DEF IInv, QueueInv
  <2>2. NumTxs \in Nat /\ TxGas \in Nat
    BY CfgFacts DEF IInv
  <2>3. NumAddresses \in Nat /\ BlockCount \in Nat
    BY StressTestAssumption
  <2> QED
    BY <2>1, <2>2, <2>3
<1>2. m = d * NumTxs + handled + 2
  <2>1. d * NumTxs \in Nat
    BY <1>1
  <2>2. m = 2 + d * NumTxs + handled
    BY DEF FirstNonce
  <2> HIDE DEF m
  <2> QED
    BY <1>1, <2>1, <2>2
<1> HIDE DEF d, m
<1> DEFINE calls == d * NumTxs + handled
<1>3. calls \in Nat /\ calls <= BlockCount * NumTxs /\ BlockCount * NumTxs \in Nat
  <2>1. d * NumTxs \in Nat /\ (d + 1) * NumTxs = d * NumTxs + NumTxs
    BY <1>1
  <2>2. (d + 1) * NumTxs <= BlockCount * NumTxs /\ BlockCount * NumTxs \in Nat
    <3>1. d + 1 \in Nat /\ NumTxs <= NumTxs
      BY <1>1
    <3> QED
      BY <1>1, <3>1, TimesGrows
  <2> QED
    BY <1>1, <2>1, <2>2
<1>4. DeployBill \in Nat /\ CallBill \in Nat /\ DataFee \in Nat /\ Mint \in Nat
  BY BillFacts, StressTestAssumption DEF IInv
<1>5. Bill(m, DeployBill, CallBill) = DeployBill + calls * CallBill
  <2>1. m - 2 = calls /\ ~(m < 2)
    BY <1>2, <1>3
  <2> QED
    BY <2>1 DEF Bill
<1> HIDE DEF calls
<1>6. calls * CallBill <= (BlockCount * NumTxs) * CallBill /\ calls * CallBill \in Nat
      /\ (BlockCount * NumTxs) * CallBill \in Nat
  <2>1. CallBill <= CallBill
    BY <1>4
  <2> QED
    BY <1>3, <1>4, <2>1, TimesGrows
<1>7. TxGas * CallFeeCap \in Nat
  <2>1. CallFeeCap \in Nat
    BY StressTestAssumption DEF CallFeeCap
  <2> QED
    BY <1>1, <2>1
<1>8. Mint >= DeployBill + (BlockCount * NumTxs) * CallBill + TxGas * CallFeeCap + DataFee
  BY DEF HasRoom, FundingLasts
<1> DEFINE all == (BlockCount * NumTxs) * CallBill
           some == calls * CallBill
           last == TxGas * CallFeeCap
<1>9. /\ all \in Nat /\ some \in Nat /\ last \in Nat /\ some <= all
      /\ Mint >= DeployBill + all + last + DataFee /\ Bill(m, DeployBill, CallBill) = DeployBill + some
  BY <1>5, <1>6, <1>7, <1>8
<1> HIDE DEF all, some
<1>10. Mint - Bill(m, DeployBill, CallBill) >= last + DataFee
  <2> HIDE DEF last
  <2> QED
    BY <1>4, <1>9
<1> QED
  BY <1>10 DEF m

\* With room, each call finds its whole gas limit in what the calls before it
\* have left.
LEMMA RoomForCall ==
  ASSUME CfgInv, HasRoom, NEW h \in Nat, h < NumTxs
  PROVE  /\ h * CallCost \in Nat /\ (h + 1) * CallCost = h * CallCost + CallCost
         /\ h * CallCost + TxGas <= cfg.gasLimit - DepositGas
<1>1. /\ cfg.stressTestType \in {"erc20", "precompile", "storage"}
      /\ cfg.gasTarget \in Nat /\ cfg.gasLimit \in Nat
      /\ NumTxs \in Nat /\ TxGas \in Nat /\ CallCost \in Nat
  BY CfgFacts
<1>2. GasNeeded <= cfg.gasLimit - DepositGas
  <2>1. cfg.gasLimit >= DepositGas + GasNeeded
    BY DEF HasRoom
  <2>2. GasNeeded \in Int
    BY <1>1, StressTestAssumption DEF GasNeeded
  <2> QED
    BY <1>1, <2>1, <2>2, StressTestAssumption
<1>3. PICK d \in Nat : NumTxs = h + 1 + d
  <2>1. NumTxs - h - 1 \in Nat /\ NumTxs = h + 1 + (NumTxs - h - 1)
    BY <1>1
  <2> QED
    BY <2>1
<1>4. /\ h * CallCost \in Nat /\ d * CallCost \in Nat
      /\ (h + 1) * CallCost = h * CallCost + CallCost
      /\ (h + 1 + d) * CallCost = h * CallCost + CallCost + d * CallCost
      /\ (h + d) * CallCost = h * CallCost + d * CallCost
  BY <1>1
<1>5. h * CallCost + TxGas <= GasNeeded
  <2>1. CASE cfg.stressTestType = "storage"
    <3>1. NumTxs > 0 /\ NumTxs - 1 = h + d
      BY <1>1, <1>3
    <3>2. GasNeeded = (h + d) * CallCost + TxGas
      <4>1. GasNeeded = (NumTxs - 1) * CallGas + cfg.gasTarget
        BY <2>1, <3>1 DEF GasNeeded
      <4>2. CallCost = CallGas /\ TxGas = cfg.gasTarget
        BY <2>1 DEF CallCost, TxGas
      <4> QED
        BY <3>1, <4>1, <4>2
    <3> QED
      BY <1>1, <1>4, <3>2
  <2>2. CASE cfg.stressTestType # "storage"
    <3>1. GasNeeded = (h + 1 + d) * CallCost /\ CallCost = TxGas
      BY <1>3, <2>2 DEF GasNeeded, CallCost
    <3> QED
      BY <1>1, <1>4, <3>1
  <2> QED
    BY <2>1, <2>2
<1>6. GasNeeded \in Int
  BY <1>1, StressTestAssumption DEF GasNeeded
<1>7. cfg.gasLimit - DepositGas \in Int
  BY <1>1, StressTestAssumption
<1> QED
  BY <1>1, <1>2, <1>4, <1>5, <1>6, <1>7

\* With room, whatever the destination comes to goes in.
LEMMA RoomExecutes ==
  IInv /\ HasRoom /\ pending # <<>> /\ handled < Len(Head(pending)) =>
    NextTx.kind = "deposit" \/ Executable(NextTx)
<1> SUFFICES ASSUME IInv, HasRoom, pending # <<>>, handled < Len(Head(pending)),
                    NextTx.kind # "deposit"
             PROVE  Executable(NextTx)
  OBVIOUS
<1>1. /\ executed \in Nat /\ executed < mapped
      /\ \/ executed = 0 /\ handled = 1 /\ NextTx = TheDeployment(NextTx.tip)
         \/ /\ executed >= NumAddresses /\ handled < NumTxs
            /\ NextTx = Call(executed, handled + 1, NumTxs, TxGas, NextTx.tip)
  BY HeadFacts DEF DepositOf
<1>2. /\ cfg.gasLimit \in Nat /\ NumTxs \in Nat /\ TxGas \in Nat /\ CallCost \in Nat
  BY CfgFacts DEF IInv
<1>3. /\ chainNonces[0] = Reached(executed, handled, NumTxs)
      /\ executed = 0 /\ handled = 1 => gasPool = cfg.gasLimit - DepositGas
      /\ executed >= NumAddresses =>
           gasPool >= cfg.gasLimit - DepositGas - handled * CallCost
  BY DEF IInv, RoomInv
<1>4. mints[0] = 1 /\ handled \in Nat /\ gasPool \in Int
  <2>1. 0 \in Accounts
    BY StressTestAssumption DEF Accounts
  <2>2. 0 < executed \/ (0 = executed /\ handled > 0)
    BY <1>1, StressTestAssumption
  <2>3. mints[0] = 1
    BY <2>1, <2>2 DEF IInv, MintInv
  <2> QED
    BY <2>3 DEF IInv, QueueInv, GasInv
<1>9. NextTx.tip \in RunTips
  BY HeadFacts DEF DepositOf
<1>10. /\ NextTx.tip <= LowFeeCap /\ baseFee <= LowFeeCap
       /\ NextTx.tip <= CallFeeCap /\ baseFee <= CallFeeCap
  <2>1. /\ market.tip <= LowFeeCap /\ market.baseFee <= LowFeeCap
        /\ market.tip <= CallFeeCap /\ market.baseFee <= CallFeeCap
    BY DEF HasRoom, CapsHold
  <2>2. LowFeeCap \in Nat /\ CallFeeCap \in Nat
    BY StressTestAssumption DEF CallFeeCap
  <2>3. /\ NextTx.tip \in Nat /\ NextTx.tip <= market.tip /\ market.tip \in Nat
        /\ baseFee \in Nat /\ baseFee <= market.baseFee /\ market.baseFee \in Nat
    BY <1>9, MarketFacts DEF IInv
  <2> QED
    BY <2>1, <2>2, <2>3
<1>11. balances[0] \in Int /\ balances[0] >= Mint - Bill(chainNonces[0], DeployBill, CallBill) /\ Mint \in Nat
  <2>1. 0 \in Accounts
    BY StressTestAssumption DEF Accounts
  <2> QED
    BY <1>4, <2>1, StressTestAssumption DEF IInv, FundsInv
<1>5. CASE executed = 0 /\ handled = 1 /\ NextTx = TheDeployment(NextTx.tip)
  <2>1. /\ NextTx.gas = DeployGas /\ NextTx.kind = "deploy" /\ NextTx.from = 0
        /\ NextTx.nonce = 1
    BY <1>5 DEF TheDeployment
  <2>2. NextTx.gas <= gasPool /\ NextTx.gas >= IntrinsicGas
    <3>1. cfg.gasLimit >= DepositGas + DeployGas
      BY DEF HasRoom
    <3> QED
      BY <1>2, <1>3, <1>5, <2>1, <3>1, StressTestAssumption DEF IntrinsicGas
  <2>3. chainNonces[0] = 1
    BY <1>3, <1>5 DEF Reached
  <2>4. FeeCap(NextTx) = LowFeeCap
    BY <2>1 DEF FeeCap
  <2>5. balances[0] >= DeployGas * LowFeeCap + DataFee
    <3>1. Bill(chainNonces[0], DeployBill, CallBill) = 0
      BY <2>3 DEF Bill
    <3>2. balances[0] >= Mint
      BY <1>11, <3>1
    <3>3. Mint >= DeployGas * LowFeeCap + DataFee
      BY DEF HasRoom, FundingLasts
    <3>4. DeployGas * LowFeeCap + DataFee \in Nat
      BY StressTestAssumption
    <3> DEFINE needed == DeployGas * LowFeeCap + DataFee
    <3> HIDE DEF needed
    <3>5. balances[0] >= needed
      BY <1>11, <3>2, <3>3, <3>4 DEF needed
    <3> QED
      BY <3>5 DEF needed
  <2> QED
    BY <1>10, <2>1, <2>2, <2>3, <2>4, <2>5 DEF Executable
<1>6. CASE /\ executed >= NumAddresses /\ handled < NumTxs
           /\ NextTx = Call(executed, handled + 1, NumTxs, TxGas, NextTx.tip)
  <2>1. /\ NextTx.gas = TxGas /\ NextTx.kind = "call" /\ NextTx.from = 0
        /\ NextTx.nonce = FirstNonce(executed, NumTxs) + (handled + 1) - 1
    BY <1>6 DEF Call
  <2>2. TxGas <= gasPool
    <3>1. /\ handled * CallCost \in Nat
          /\ handled * CallCost + TxGas <= cfg.gasLimit - DepositGas
      BY <1>4, <1>6, RoomForCall DEF IInv
    <3>2. gasPool >= cfg.gasLimit - DepositGas - handled * CallCost
      BY <1>3, <1>6
    <3>3. cfg.gasLimit - DepositGas \in Int
      BY <1>2, StressTestAssumption
    <3> QED
      BY <1>2, <1>4, <3>1, <3>2, <3>3
  <2>3. TxGas >= IntrinsicGas
    BY DEF HasRoom
  <2>4. chainNonces[0] = NextTx.nonce
    <3>1. executed # 0 /\ ~(executed < NumAddresses)
      BY <1>1, <1>6, StressTestAssumption
    <3>2. FirstNonce(executed, NumTxs) \in Nat
      BY <1>1, <1>2, <1>6, FirstNonceStep
    <3>3. chainNonces[0] = FirstNonce(executed, NumTxs) + handled
      BY <1>3, <3>1 DEF Reached
    <3> QED
      BY <1>4, <2>1, <3>2, <3>3
  <2>5. FeeCap(NextTx) = CallFeeCap
    BY <2>1 DEF FeeCap
  <2>6. balances[0] >= TxGas * CallFeeCap + DataFee
    <3>1. chainNonces[0] = FirstNonce(executed, NumTxs) + handled
      <4>1. executed # 0 /\ ~(executed < NumAddresses)
        BY <1>1, <1>6, StressTestAssumption
      <4> QED
        BY <1>3, <4>1 DEF Reached
    <3>2. Mint - Bill(chainNonces[0], DeployBill, CallBill) >= TxGas * CallFeeCap + DataFee
      BY <1>1, <1>6, <3>1, BillCovered
    <3>3. TxGas * CallFeeCap + DataFee \in Int /\ Bill(chainNonces[0], DeployBill, CallBill) \in Int
      <4>1. CallFeeCap \in Nat /\ DataFee \in Nat
        BY StressTestAssumption DEF CallFeeCap
      <4>2. chainNonces[0] \in Nat
        <5>1. 0 \in Accounts
          BY StressTestAssumption DEF Accounts
        <5> QED
          BY <5>1 DEF IInv, ChainInv
      <4>3. Bill(chainNonces[0], DeployBill, CallBill) \in Nat
        BY <4>2, BillFacts DEF IInv
      <4>4. TxGas * CallFeeCap \in Nat
        BY <1>2, <4>1
      <4> QED
        BY <4>1, <4>3, <4>4
    <3> DEFINE needed == TxGas * CallFeeCap + DataFee
               bill == Bill(chainNonces[0], DeployBill, CallBill)
    <3>4. Mint - bill >= needed /\ needed \in Int /\ bill \in Int
          /\ balances[0] >= Mint - bill
      BY <1>11, <3>2, <3>3
    <3> HIDE DEF needed, bill
    <3>5. balances[0] >= needed
      BY <1>11, <3>4
    <3> QED
      BY <3>5 DEF needed
  <2> QED
    BY <1>10, <2>1, <2>2, <2>3, <2>4, <2>5, <2>6 DEF Executable
<1> QED
  BY <1>1, <1>5, <1>6

\* With room, every block goes the way the strategy counts on.
LEMMA RoomStep == IInv /\ [Next]_vars => RoomInv'
<1> SUFFICES ASSUME IInv, [Next]_vars, HasRoom
             PROVE  RoomInv'
  BY CfgKept DEF RoomInv
<1>1. /\ executed \in Nat /\ handled \in Nat /\ cfg.gasLimit \in Nat
      /\ NumTxs \in Nat /\ CallCost \in Nat
  <2>1. executed \in Nat /\ handled \in Nat
    BY StressTestAssumption DEF IInv, QueueInv
  <2> QED
    BY <2>1, CfgFacts DEF IInv
<1>2. cfg' = cfg /\ NumTxs' = NumTxs /\ CallCost' = CallCost /\ TxGas' = TxGas
  BY CfgKept
<1>3. /\ chainNonces[0] = Reached(executed, handled, NumTxs)
      /\ executed > 0 \/ handled > 1 => TestContract \in contracts
      /\ executed = 0 /\ handled = 1 => gasPool = cfg.gasLimit - DepositGas
      /\ executed = 0 /\ handled = 0 => gasPool = cfg.gasLimit
      /\ executed >= NumAddresses =>
           /\ gasPool >= cfg.gasLimit - DepositGas - handled * CallCost
           /\ Filled(gasUsed, handled, cfg.stressTestType, TxGas, CallCost)
      /\ executed > NumAddresses =>
         Filled(lastGasUsed, NumTxs, cfg.stressTestType, TxGas, CallCost)
  BY DEF IInv, RoomInv
<1>10. TxGas \in Nat /\ gasPool \in Int /\ gasUsed \in Nat
  BY CfgFacts DEF IInv, GasInv
<1>4. chainNonces \in [Accounts -> Nat] /\ 0 \in Accounts
  BY StressTestAssumption DEF IInv, ChainInv, Accounts
<1>5. CASE ExecuteDeposit
  <2>1. /\ pending # <<>> /\ handled < Len(Head(pending)) /\ NextTx.kind = "deposit"
        /\ handled' = handled + 1 /\ executed' = executed /\ contracts' = contracts
        /\ gasPool' = gasPool - NextTx.gas /\ lastGasUsed' = lastGasUsed
        /\ chainNonces' = [chainNonces EXCEPT ![NextTx.from] = chainNonces[NextTx.from] + 1]
    BY <1>5 DEF ExecuteDeposit, Handle, MoveNonce
  <2>2. executed < NumAddresses /\ handled = 0 /\ NextTx = DepositOf(executed)
    BY <2>1, HeadFacts DEF TheDeployment, Call
  <2>3. NextTx.from = executed /\ executed \in Accounts /\ NextTx.gas = DepositGas
    BY <1>1, <2>2, StressTestAssumption DEF DepositOf, Accounts
  <2>4. chainNonces'[0] = Reached(executed, 1, NumTxs)
    <3>1. CASE executed = 0
      BY <1>3, <1>4, <2>1, <2>2, <2>3, <3>1 DEF Reached
    <3>2. CASE executed # 0
      BY <1>3, <1>4, <2>1, <2>2, <2>3, <3>2 DEF Reached
    <3> QED
      BY <3>1, <3>2
  <2>5. ~(executed >= NumAddresses) /\ ~(executed > NumAddresses) /\ handled' = 1
    BY <1>1, <2>1, <2>2, StressTestAssumption
  <2> QED
    BY <1>1, <1>2, <1>3, <2>1, <2>2, <2>3, <2>4, <2>5 DEF RoomInv
<1>6. CASE ExecuteTransaction
  <2>0. PICK c \in Cost(NextTx) : gasPool' = gasPool - c /\ gasUsed' = gasUsed + c
    BY <1>6 DEF ExecuteTransaction
  <2>1. /\ pending # <<>> /\ handled < Len(Head(pending)) /\ NextTx.kind # "deposit"
        /\ handled' = handled + 1 /\ executed' = executed
        /\ lastGasUsed' = lastGasUsed
        /\ chainNonces' = [chainNonces EXCEPT ![NextTx.from] = chainNonces[NextTx.from] + 1]
        /\ contracts' = IF NextTx.kind = "deploy"
                        THEN contracts \union {ContractAddress(NextTx.from, NextTx.nonce)}
                        ELSE contracts
    BY <1>6 DEF ExecuteTransaction, Handle, MoveNonce
  <2>2. /\ c \in Nat
        /\ executed >= NumAddresses => c <= CallCost
        /\ executed >= NumAddresses /\ TestContract \in contracts =>
             IF cfg.stressTestType = "precompile" THEN c + GasBuffer > TxGas
             ELSE c = CallCost
    BY <1>6, CostFacts DEF ExecuteTransaction
  <2>3. CASE executed = 0 /\ handled = 1 /\ NextTx = TheDeployment(NextTx.tip)
    <3>1. NextTx.from = 0 /\ TestContract \in contracts'
      BY <2>1, <2>3 DEF TheDeployment, TestContract
    <3>2. chainNonces'[0] = Reached(0, 2, NumTxs)
      BY <1>3, <1>4, <2>1, <2>3, <3>1 DEF Reached
    <3>3. ~(executed >= NumAddresses) /\ ~(executed > NumAddresses) /\ handled' = 2
      BY <2>1, <2>3, StressTestAssumption
    <3> QED
      BY <1>2, <2>1, <2>3, <3>1, <3>2, <3>3 DEF RoomInv
  <2>4. CASE /\ executed >= NumAddresses /\ handled < NumTxs
             /\ NextTx = Call(executed, handled + 1, NumTxs, TxGas, NextTx.tip)
    <3>1. executed > 0 /\ executed # 0 /\ ~(executed < NumAddresses)
      BY <1>1, <2>4, StressTestAssumption
    <3>2. NextTx.from = 0 /\ NextTx.kind = "call"
      BY <2>4 DEF Call
    <3>3. contracts' = contracts /\ TestContract \in contracts
      BY <1>3, <2>1, <3>1, <3>2
    <3>4. chainNonces'[0] = Reached(executed, handled + 1, NumTxs)
      <4>1. FirstNonce(executed, NumTxs) \in Nat
        BY <1>1, <2>4, FirstNonceStep
      <4>2. /\ Reached(executed, handled, NumTxs) = FirstNonce(executed, NumTxs) + handled
            /\ Reached(executed, handled + 1, NumTxs) =
                 FirstNonce(executed, NumTxs) + (handled + 1)
        BY <3>1 DEF Reached
      <4>3. chainNonces'[0] = chainNonces[0] + 1
        BY <1>4, <2>1, <3>2
      <4> QED
        BY <1>1, <1>3, <4>1, <4>2, <4>3
    <3>5. handled * CallCost \in Nat /\ (handled + 1) * CallCost = handled * CallCost + CallCost
      BY <1>1, <2>4, RoomForCall DEF IInv
    <3>6. gasPool' >= cfg.gasLimit - DepositGas - (handled + 1) * CallCost
      <4>1. gasPool >= cfg.gasLimit - DepositGas - handled * CallCost /\ c <= CallCost
        BY <1>3, <2>2, <2>4
      <4> QED
        BY <1>1, <1>10, <2>0, <2>2, <3>5, <4>1, StressTestAssumption
    <3>7. Filled(gasUsed', handled + 1, cfg.stressTestType, TxGas, CallCost)
      <4>1. CASE cfg.stressTestType = "precompile"
        <5>1. c + GasBuffer > TxGas
          BY <2>2, <2>4, <3>3, <4>1
        <5>2. gasUsed' + GasBuffer > TxGas
          BY <1>10, <2>0, <2>2, <5>1, StressTestAssumption
        <5> QED
          BY <4>1, <5>2 DEF Filled
      <4>2. CASE cfg.stressTestType # "precompile"
        <5>1. c = CallCost /\ gasUsed = handled * CallCost
          BY <1>3, <2>2, <2>4, <3>3, <4>2 DEF Filled
        <5>2. gasUsed' = (handled + 1) * CallCost
          BY <1>1, <2>0, <3>5, <5>1
        <5> QED
          BY <4>2, <5>2 DEF Filled
      <4> QED
        BY <4>1, <4>2
    <3> QED
      BY <1>1, <1>2, <1>3, <2>1, <3>1, <3>3, <3>4, <3>6, <3>7 DEF RoomInv
  <2> QED
    BY <2>1, <2>3, <2>4, HeadFacts DEF DepositOf
<1>7. CASE DropTransaction
  <2>1. /\ pending # <<>> /\ handled < Len(Head(pending))
        /\ NextTx.kind # "deposit" /\ ~Executable(NextTx)
    BY <1>7 DEF DropTransaction, Handle
  <2> QED
    BY <2>1, RoomExecutes
<1>8. CASE SealBlock
  <2>1. /\ pending # <<>> /\ handled = Len(Head(pending))
        /\ handled' = 0 /\ executed' = executed + 1
        /\ gasPool' = IF executed' < NumAddresses
                      THEN cfg.gasLimit ELSE cfg.gasLimit - DepositGas
        /\ lastGasUsed' = gasUsed /\ gasUsed' = 0
        /\ chainNonces' = chainNonces /\ contracts' = contracts
    BY <1>8 DEF SealBlock
  <2>2. handled = IF executed = 0 THEN 2 ELSE IF executed < NumAddresses THEN 1 ELSE NumTxs
    BY <2>1, HeadFacts
  <2>3. chainNonces'[0] = Reached(executed + 1, 0, NumTxs)
    BY <1>1, <1>3, <2>1, <2>2, ReachedFacts
  <2>4. TestContract \in contracts'
    BY <1>1, <1>3, <2>1, <2>2
  <2>5. executed' > 0 /\ executed' # 0
    BY <1>1, <2>1
  <2>6. executed' >= NumAddresses =>
          /\ gasPool' >= cfg.gasLimit - DepositGas - 0 * CallCost
          /\ Filled(gasUsed', 0, cfg.stressTestType, TxGas, CallCost)
    <3>1. 0 * CallCost = 0 /\ cfg.gasLimit - DepositGas - 0 = cfg.gasLimit - DepositGas
          /\ cfg.gasLimit - DepositGas \in Int
      BY <1>1, StressTestAssumption
    <3>2. executed' >= NumAddresses => ~(executed' < NumAddresses)
      BY <1>1, <2>1, StressTestAssumption
    <3>3. Filled(gasUsed', 0, cfg.stressTestType, TxGas, CallCost)
      BY <2>1, <3>1 DEF Filled
    <3> QED
      BY <2>1, <3>1, <3>2, <3>3
  <2>7. executed' > NumAddresses =>
          Filled(lastGasUsed', NumTxs, cfg.stressTestType, TxGas, CallCost)
    <3>1. ASSUME executed' > NumAddresses
          PROVE  Filled(lastGasUsed', NumTxs, cfg.stressTestType, TxGas, CallCost)
      <4>1. executed >= NumAddresses /\ executed # 0 /\ ~(executed < NumAddresses)
        BY <1>1, <2>1, <3>1, StressTestAssumption
      <4>2. /\ handled = NumTxs
            /\ Filled(gasUsed, handled, cfg.stressTestType, TxGas, CallCost)
        BY <1>3, <2>2, <4>1
      <4> QED
        BY <2>1, <4>2
    <3> QED
      BY <3>1
  <2> QED
    BY <1>2, <2>1, <2>3, <2>4, <2>5, <2>6, <2>7 DEF RoomInv
<1>9. CASE FirstBlock \/ FundingBlock \/ PackItUp \/ Panics
           \/ UNCHANGED vars
  <2>1. UNCHANGED chainVars
    BY <1>9, MapStep DEF Panics, vars
  <2> QED
    BY <1>2, <1>3, <2>1 DEF chainVars, RoomInv
<1> QED
  BY <1>5, <1>6, <1>7, <1>8, <1>9, StepCases

\* IInv is an invariant.
LEMMA Invariant == Spec => []IInv
<1>1. Init => IInv
  BY InvInit
<1>2. IInv /\ [Next]_vars => IInv'
  BY CfgStep, MarketStep, QueueStep, LocalStep, PanicStep, MintStep, ChainStep, GasStep,
     FundsStep, RoomStep DEF IInv
<1> QED
  BY <1>1, <1>2, PTL DEF Spec

-----------------------------------------------------------------------------
(* The theorems                                                             *)

\* TypeOK: among the rest, the queue holds just the blocks mapped and not yet
\* executed, and no block's transactions use more than the configured limit.
THEOREM StressTypeCorrect == Spec => []TypeOK
<1>1. IInv => TypeOK
  <2> SUFFICES ASSUME IInv
               PROVE  TypeOK
    OBVIOUS
  <2>1. /\ cfg \in Configurations /\ cfg.gasLimit \in Nat /\ NumTxs \in Nat
    BY CfgFacts DEF IInv, CfgInv
  <2>2. /\ mapped \in 0 .. BlockCount /\ executed \in 0 .. mapped /\ mapped \in Nat
        /\ Len(pending) = mapped - executed /\ Len(pending) <= QueueCap
        /\ handled \in Nat
        /\ handled > 0 => pending # <<>> /\ handled <= Len(Head(pending))
    BY StressTestAssumption DEF IInv, QueueInv
  <2>3. nonces \in [Accounts -> Nat]
    <3>1. Counted(mapped, NumTxs) \in Nat
      BY <2>1, <2>2, CountedFacts
    <3> QED
      BY <3>1 DEF IInv, LocalInv
  <2>4. /\ chainNonces \in [Accounts -> Nat] /\ mints \in [Accounts -> Nat]
        /\ balances \in [Accounts -> Int]
        /\ market \in [tip : Tips, baseFee : BaseFees]
        /\ baseFee \in AtMost(BaseFees, market.baseFee)
    BY DEF IInv, ChainInv, MintInv, MarketInv, FundsInv
  <2>5. panicked \in BOOLEAN
    BY DEF IInv, PanicInv
  <2>6. gasPool \in Int /\ {gasUsed, lastGasUsed} \subseteq 0 .. cfg.gasLimit
    <3>1. gasUsed \in 0 .. cfg.gasLimit
      BY <2>1 DEF IInv, GasInv
    <3> QED
      BY <3>1 DEF IInv, GasInv
  <2> QED
    BY <2>1, <2>2, <2>3, <2>4, <2>5, <2>6 DEF TypeOK
<1> QED
  BY <1>1, Invariant, PTL

\* NoncesFollowChain: with a gas limit, fee caps and a funding that leave room no
\* transaction is dropped, however far mapBlocks runs ahead of the destination,
\* and once that has caught up the two counts agree for every account.
THEOREM NoncesFollow == Spec => []NoncesFollowChain
<1>1. IInv => NoncesFollowChain
  <2> SUFFICES ASSUME IInv, HasRoom
               PROVE  /\ pending # <<>> /\ handled < Len(Head(pending)) =>
                           NextTx.kind = "deposit" \/ Executable(NextTx)
                      /\ pending = <<>> => chainNonces = nonces
    BY DEF NoncesFollowChain
  <2>1. pending # <<>> /\ handled < Len(Head(pending)) =>
          NextTx.kind = "deposit" \/ Executable(NextTx)
    BY RoomExecutes
  <2>2. ASSUME pending = <<>>
        PROVE  chainNonces = nonces
    <3>1. executed \in Nat /\ mapped \in Nat /\ mapped = executed /\ handled = 0
      BY <2>2, StressTestAssumption DEF IInv, QueueInv
    <3>2. NumTxs \in Nat
      BY CfgFacts DEF IInv
    <3>3. Reached(executed, 0, NumTxs) = Counted(executed, NumTxs)
      <4>1. CASE executed < NumAddresses
        BY <4>1 DEF Reached, Counted
      <4>2. CASE executed >= NumAddresses
        <5>1. FirstNonce(executed, NumTxs) \in Nat /\ ~(executed < NumAddresses)
          BY <3>1, <3>2, <4>2, FirstNonceStep, StressTestAssumption
        <5>2. executed # 0
          BY <4>2, StressTestAssumption
        <5> QED
          BY <5>1, <5>2 DEF Reached, Counted
      <4> QED
        BY <3>1, <4>1, <4>2, StressTestAssumption
    <3>4. nonces = [a \in Accounts |-> IF a = 0 THEN Counted(executed, NumTxs)
                                       ELSE IF a < executed THEN 1 ELSE 0]
      BY <3>1 DEF IInv, LocalInv
    <3>5. chainNonces[0] = Counted(executed, NumTxs)
      BY <3>1, <3>3 DEF IInv, RoomInv
    <3>6. \A a \in Accounts \ {0} : chainNonces[a] = IF a < executed THEN 1 ELSE 0
      BY <3>1 DEF IInv, ChainInv, MintInv
    <3>7. chainNonces \in [Accounts -> Nat] /\ nonces \in [Accounts -> Nat]
      <4>1. Counted(executed, NumTxs) \in Nat
        BY <3>1, <3>2, CountedFacts
      <4> QED
        BY <3>4, <4>1 DEF IInv, ChainInv
    <3>8. \A a \in Accounts : chainNonces[a] = nonces[a]
      BY <3>4, <3>5, <3>6
    <3> QED
      BY <3>7, <3>8
  <2> QED
    BY <2>1, <2>2
<1> QED
  BY <1>1, Invariant, PTL

\* FundedOnce: the destination mints for each account in its own funding block,
\* and never again.
THEOREM Funded == Spec => []FundedOnce
<1>1. IInv => FundedOnce
  BY DEF IInv, MintInv, FundedOnce
<1> QED
  BY <1>1, Invariant, PTL

\* RoomReachesTarget: with room every packed block misses the gas target by less
\* than one call or, where the contract keeps a buffer, by less than that,
\* whatever the target, the limit, the gas of a call and the buffer.
THEOREM TargetReached == Spec => []RoomReachesTarget
<1>1. IInv => RoomReachesTarget
  <2> SUFFICES ASSUME IInv, HasRoom, executed > NumAddresses
               PROVE  lastGasUsed + Granularity > cfg.gasTarget
    BY DEF RoomReachesTarget, GasTargetReached
  <2>1. /\ cfg.stressTestType \in {"erc20", "precompile", "storage"}
        /\ cfg.gasTarget \in Nat
    BY CfgFacts DEF IInv
  <2>2. Filled(lastGasUsed, NumTxs, cfg.stressTestType, TxGas, CallCost)
    BY DEF IInv, RoomInv
  <2>3. \A x \in Nat : \A c \in Nat \ {0} : (x \div c) * c + c > x
    OBVIOUS
  <2>4. CASE cfg.stressTestType = "erc20"
    <3>1. /\ NumTxs = cfg.gasTarget \div TransferGas /\ CallCost = TransferGas
          /\ Granularity = TransferGas
      BY <2>4 DEF NumTxs, CallCost, TxGas, Granularity
    <3>2. lastGasUsed = NumTxs * CallCost
      BY <2>2, <2>4 DEF Filled
    <3> QED
      BY <2>1, <2>3, <3>1, <3>2, StressTestAssumption
  <2>5. CASE cfg.stressTestType = "storage"
    <3>1. NumTxs = cfg.gasTarget \div CallGas /\ CallCost = CallGas /\ Granularity = CallGas
      BY <2>5 DEF NumTxs, CallCost, Granularity
    <3>2. lastGasUsed = NumTxs * CallCost
      BY <2>2, <2>5 DEF Filled
    <3> QED
      BY <2>1, <2>3, <3>1, <3>2, StressTestAssumption
  <2>6. CASE cfg.stressTestType = "precompile"
    <3>1. NumTxs = 1 /\ TxGas = cfg.gasTarget /\ Granularity = GasBuffer
      BY <2>6 DEF NumTxs, TxGas, Granularity
    <3> QED
      BY <2>2, <2>6, <3>1 DEF Filled
  <2> QED
    BY <2>1, <2>4, <2>5, <2>6
<1> QED
  BY <1>1, Invariant, PTL

\* The only transactions of a block that are not deposits are the deployment,
\* second in the first block, and the calls of a packed block.
LEMMA UserTxs ==
  ASSUME NEW b \in Nat, NEW n \in Nat, NEW g, NEW t,
         NEW i \in DOMAIN BlockTxs(b, n, g, t)
  PROVE  LET tx == BlockTxs(b, n, g, t)[i] IN
           tx.kind # "deposit" =>
             /\ tx.from = 0
             /\ \/ b = 0 /\ i = 2 /\ tx.nonce = 1
                \/ b >= NumAddresses /\ i \in 1 .. n /\ tx.nonce = FirstNonce(b, n) + i - 1
<1>1. CASE b = 0
  <2>1. BlockTxs(b, n, g, t) = <<DepositOf(0), TheDeployment(t)>>
    BY <1>1 DEF BlockTxs
  <2>2. i = 1 \/ i = 2
    BY <2>1
  <2> QED
    BY <1>1, <2>1, <2>2 DEF DepositOf, TheDeployment
<1>2. CASE b # 0 /\ b < NumAddresses
  <2>1. BlockTxs(b, n, g, t) = <<DepositOf(b)>>
    BY <1>2 DEF BlockTxs
  <2>2. i = 1
    BY <2>1
  <2> QED
    BY <2>1, <2>2 DEF DepositOf
<1>3. CASE b # 0 /\ ~(b < NumAddresses)
  <2>1. BlockTxs(b, n, g, t) = [x \in 1 .. n |-> Call(b, x, n, g, t)]
    BY <1>3 DEF BlockTxs
  <2>2. i \in 1 .. n /\ BlockTxs(b, n, g, t)[i] = Call(b, i, n, g, t)
    BY <2>1
  <2>3. b >= NumAddresses
    BY <1>3, StressTestAssumption
  <2> QED
    BY <2>2, <2>3 DEF Call
<1> QED
  BY <1>1, <1>2, <1>3

\* What the destination can have reached in one block lies below the nonces of
\* any packed block after it.
LEMMA ReachedBelow ==
  ASSUME NEW e \in Nat, NEW h \in Nat, NEW n \in Nat, NEW b \in Nat,
         e < b, b >= NumAddresses,
         h <= (IF e = 0 THEN 2 ELSE IF e < NumAddresses THEN 1 ELSE n)
  PROVE  Reached(e, h, n) <= FirstNonce(b, n)
<1>1. FirstNonce(b, n) \in Nat /\ FirstNonce(b, n) >= 2
  BY FirstNonceStep
<1>2. CASE e < NumAddresses
  BY <1>1, <1>2, StressTestAssumption DEF Reached
<1>3. CASE e >= NumAddresses
  <2>1. e # 0 /\ ~(e < NumAddresses) /\ FirstNonce(e, n) \in Nat
    BY <1>3, FirstNonceStep, StressTestAssumption
  <2>2. FirstNonce(e, n) + n <= FirstNonce(b, n)
    BY <1>3, FirstNonceGrows
  <2>3. Reached(e, h, n) = FirstNonce(e, n) + h /\ h <= n
    BY <2>1 DEF Reached
  <2> QED
    BY <1>1, <2>1, <2>2, <2>3
<1> QED
  BY <1>2, <1>3, StressTestAssumption

\* NoncesNeverReused: even when the destination drops transactions, no two that
\* are under way have the same nonce, none has one that the destination has
\* passed, and the next to be given out is above them all.
THEOREM NoncesUsedOnce == Spec => []NoncesNeverReused
<1>1. IInv => NoncesNeverReused
  <2> SUFFICES ASSUME IInv,
                      NEW k \in DOMAIN pending, NEW i \in DOMAIN pending[k],
                      pending[k][i].kind # "deposit", k = 1 => i > handled
               PROVE  /\ chainNonces[pending[k][i].from] <= pending[k][i].nonce
                      /\ pending[k][i].nonce < nonces[pending[k][i].from]
                      /\ \A l \in 1 .. k : \A j \in DOMAIN pending[l] :
                           l < k \/ j < i =>
                             \/ pending[l][j].kind = "deposit"
                             \/ pending[l][j].from # pending[k][i].from
                             \/ pending[l][j].nonce < pending[k][i].nonce
    BY DEF NoncesNeverReused
  <2> DEFINE b == executed + k - 1
             tx == pending[k][i]
  <2>1. /\ NumTxs \in Nat /\ TxGas \in Nat
    BY CfgFacts DEF IInv
  <2>2. /\ executed \in Nat /\ handled \in Nat /\ mapped \in Nat
        /\ Len(pending) \in Nat /\ Len(pending) = mapped - executed
        /\ DOMAIN pending = 1 .. Len(pending)
        /\ \A x \in 1 .. Len(pending) :
             IsBlock(pending[x], executed + x - 1, NumTxs, TxGas, RunTips)
        /\ handled > 0 => handled <= Len(pending[1])
    BY StressTestAssumption DEF IInv, QueueInv
  <2>3. /\ k \in 1 .. Len(pending) /\ k \in Nat /\ k >= 1
        /\ b \in Nat /\ b < mapped /\ executed <= b /\ (k = 1 <=> executed = b)
    BY <2>2
  <2>4. PICK t \in RunTips : pending[k] = BlockTxs(b, NumTxs, TxGas, t)
    <3>1. IsBlock(pending[k], b, NumTxs, TxGas, RunTips)
      BY <2>2, <2>3
    <3> QED
      BY <3>1 DEF IsBlock
  <2> HIDE DEF b
  <2>5. /\ tx.from = 0
        /\ \/ b = 0 /\ i = 2 /\ tx.nonce = 1
           \/ /\ b >= NumAddresses /\ i \in 1 .. NumTxs
              /\ tx.nonce = FirstNonce(b, NumTxs) + i - 1
    BY <2>1, <2>3, <2>4, UserTxs
  <2> HIDE DEF tx
  <2>6. b >= NumAddresses => FirstNonce(b, NumTxs) \in Nat /\ FirstNonce(b, NumTxs) >= 2
    BY <2>1, <2>3, FirstNonceStep
  <2>7. /\ chainNonces[0] \in Nat /\ chainNonces[0] <= Reached(executed, handled, NumTxs)
        /\ nonces[0] = Counted(mapped, NumTxs)
    <3>1. 0 \in Accounts
      BY StressTestAssumption DEF Accounts
    <3> QED
      BY <3>1 DEF IInv, ChainInv, LocalInv
  <2>8. chainNonces[0] <= tx.nonce
    <3>1. CASE b = 0 /\ i = 2 /\ tx.nonce = 1
      <4>1. executed = 0 /\ k = 1 /\ handled <= 1
        BY <2>2, <2>3, <3>1
      <4> QED
        BY <2>2, <2>7, <3>1, <4>1 DEF Reached
    <3>2. CASE /\ b >= NumAddresses /\ i \in 1 .. NumTxs
               /\ tx.nonce = FirstNonce(b, NumTxs) + i - 1
      <4>1. CASE k = 1
        <5>1. executed = b /\ handled <= i - 1 /\ b # 0 /\ ~(b < NumAddresses)
          BY <2>2, <2>3, <3>2, <4>1, StressTestAssumption
        <5>2. Reached(executed, handled, NumTxs) = FirstNonce(b, NumTxs) + handled
          BY <5>1 DEF Reached
        <5> QED
          BY <2>2, <2>6, <2>7, <3>2, <5>1, <5>2
      <4>2. CASE k # 1
        <5>1. executed < b
          BY <2>2, <2>3, <4>2
        <5>2. handled <= (IF executed = 0 THEN 2
                          ELSE IF executed < NumAddresses THEN 1 ELSE NumTxs)
          <6>1. 1 \in 1 .. Len(pending) /\ executed + 1 - 1 = executed
            BY <2>2, <2>3
          <6>2. PICK u \in RunTips : pending[1] = BlockTxs(executed, NumTxs, TxGas, u)
            <7>1. IsBlock(pending[1], executed, NumTxs, TxGas, RunTips)
              BY <2>2, <6>1
            <7> QED
              BY <7>1 DEF IsBlock
          <6>3. Len(pending[1]) = IF executed = 0 THEN 2
                                  ELSE IF executed < NumAddresses THEN 1 ELSE NumTxs
            <7>1. u \in Nat
              BY MarketFacts DEF IInv
            <7>2. Len(BlockTxs(executed, NumTxs, TxGas, u)) = BlockLength(executed, NumTxs)
              <8>1. executed \in Nat /\ NumTxs \in Nat /\ TxGas \in Nat /\ u \in Nat
                BY <2>1, <2>2, <7>1
              <8> QED
                BY <8>1, BlockTxsFacts
            <7> QED
              BY <6>2, <7>2 DEF BlockLength
          <6> QED
            BY <2>1, <2>2, <6>3
        <5>3. Reached(executed, handled, NumTxs) <= FirstNonce(b, NumTxs)
          BY <2>1, <2>2, <2>3, <3>2, <5>1, <5>2, ReachedBelow
        <5>4. Reached(executed, handled, NumTxs) \in Nat
          BY <2>1, <2>2, ReachedFacts
        <5> QED
          BY <2>6, <2>7, <3>2, <5>3, <5>4
      <4> QED
        BY <4>1, <4>2
    <3> QED
      BY <2>5, <3>1, <3>2
  <2>9. tx.nonce < nonces[0]
    <3>1. CASE b = 0 /\ i = 2 /\ tx.nonce = 1
      <4>1. Counted(mapped, NumTxs) >= 2 /\ Counted(mapped, NumTxs) \in Nat
        BY <2>1, <2>2, <2>3, CountedFacts
      <4> QED
        BY <2>7, <3>1, <4>1
    <3>2. CASE /\ b >= NumAddresses /\ i \in 1 .. NumTxs
               /\ tx.nonce = FirstNonce(b, NumTxs) + i - 1
      <4>1. mapped >= NumAddresses
        BY <2>2, <2>3, <3>2, StressTestAssumption
      <4>2. Counted(mapped, NumTxs) = FirstNonce(mapped, NumTxs)
            /\ Counted(mapped, NumTxs) \in Nat
        BY <2>1, <2>2, <4>1, CountedFacts
      <4>3. FirstNonce(b, NumTxs) + NumTxs <= FirstNonce(mapped, NumTxs)
        BY <2>1, <2>2, <2>3, <3>2, FirstNonceGrows
      <4> QED
        BY <2>1, <2>6, <2>7, <3>2, <4>2, <4>3
    <3> QED
      BY <2>5, <3>1, <3>2
  <2>10. ASSUME NEW l \in 1 .. k, NEW j \in DOMAIN pending[l], l < k \/ j < i,
                pending[l][j].kind # "deposit"
         PROVE  pending[l][j].nonce < tx.nonce
    <3> DEFINE c == executed + l - 1
               before == pending[l][j]
    <3>1. /\ l \in 1 .. Len(pending) /\ l \in Nat /\ c \in Nat
          /\ (l < k => c < b) /\ (l = k => c = b) /\ (l < k \/ l = k)
      BY <2>2, <2>3 DEF b
    <3>2. PICK u \in RunTips : pending[l] = BlockTxs(c, NumTxs, TxGas, u)
      <4>1. IsBlock(pending[l], c, NumTxs, TxGas, RunTips)
        BY <2>2, <3>1
      <4> QED
        BY <4>1 DEF IsBlock
    <3> HIDE DEF c
    <3>3. \/ c = 0 /\ j = 2 /\ before.nonce = 1
          \/ /\ c >= NumAddresses /\ j \in 1 .. NumTxs
             /\ before.nonce = FirstNonce(c, NumTxs) + j - 1
      BY <2>1, <2>10, <3>1, <3>2, UserTxs
    <3> HIDE DEF before
    <3>4. before.nonce < tx.nonce
      <4>1. CASE l < k
        <5>1. b >= NumAddresses /\ i \in 1 .. NumTxs
              /\ tx.nonce = FirstNonce(b, NumTxs) + i - 1
          BY <2>5, <3>1, <4>1
        <5>2. CASE c = 0 /\ j = 2 /\ before.nonce = 1
          BY <2>6, <5>1, <5>2
        <5>3. CASE /\ c >= NumAddresses /\ j \in 1 .. NumTxs
                   /\ before.nonce = FirstNonce(c, NumTxs) + j - 1
          <6>1. FirstNonce(c, NumTxs) + NumTxs <= FirstNonce(b, NumTxs)
            BY <2>1, <2>3, <3>1, <4>1, <5>3, FirstNonceGrows
          <6>2. FirstNonce(c, NumTxs) \in Nat
            BY <2>1, <3>1, <5>3, FirstNonceStep
          <6> QED
            BY <2>1, <2>6, <5>1, <5>3, <6>1, <6>2
        <5> QED
          BY <3>3, <5>2, <5>3
      <4>2. CASE l = k
        <5>1. c = b /\ j < i
          BY <2>3, <2>10, <3>1, <4>2
        <5>2. CASE b = 0
          <6>1. ~(b >= NumAddresses)
            BY <5>2, StressTestAssumption
          <6>2. i = 2 /\ j = 2
            BY <2>5, <3>3, <5>1, <6>1
          <6> QED
            BY <5>1, <6>2
        <5>3. CASE b # 0
          BY <2>5, <2>6, <3>3, <5>1, <5>3
        <5> QED
          BY <5>2, <5>3
      <4> QED
        BY <3>1, <4>1, <4>2
    <3> QED
      BY <3>4 DEF before
  <2> QED
    BY <2>5, <2>8, <2>9, <2>10 DEF tx
<1> QED
  BY <1>1, Invariant, PTL
=============================================================================
