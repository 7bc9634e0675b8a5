-------------------------- MODULE JuiceSafeProofs --------------------------
(***************************************************************************)
(* Proofs about the safe: its types, seat, policy and queue, what a        *)
(* signature authorises and what may leave, for every number of            *)
(* principals, assertions, operations and blocks and every legal value of  *)
(* the limits.                                                             *)
(***************************************************************************)
EXTENDS JuiceSafe, SequenceTheorems, FiniteSetTheorems, TLAPS

-----------------------------------------------------------------------------
(* The helpers keep counters and balances within their types.               *)

LEMMA CurrentSpentType ==
  ASSUME TypeOK, NEW s \in Counters
  PROVE  CurrentSpent(s) \in Counters
BY DEF TypeOK, CurrentSpent, Counters

LEMMA AddSpentType ==
  ASSUME TypeOK, NEW s \in Counters, NEW counter \in {"stx", "sbtc", "gas"}, NEW n \in Nat
  PROVE  AddSpent(s, counter, n) \in Counters
<1>1. CurrentSpent(s) \in Counters
  BY CurrentSpentType
<1>2. QED
  BY <1>1 DEF AddSpent, Counters

\* What leaves or is locked is held, so balances stay naturals.
LEMMA LedgerSteps ==
  ASSUME NEW f \in Ledger, NEW n \in Nat
  PROVE  /\ n <= f.sbtc => [f EXCEPT !.sbtc = @ - n] \in Ledger
         /\ n <= f.stx => [f EXCEPT !.stx = @ - n, !.staked = @ + n] \in Ledger
         /\ [f EXCEPT !.stx = @ + f.staked, !.staked = 0] \in Ledger
<1>1. n <= f.sbtc => [f EXCEPT !.sbtc = @ - n] \in Ledger
  BY DEF Ledger
<1>2. ASSUME n <= f.stx
      PROVE  [f EXCEPT !.stx = @ - n, !.staked = @ + n] \in Ledger
  <2>1. f.stx - n \in Nat /\ f.staked + n \in Nat
    BY <1>2 DEF Ledger
  <2>2. QED
    BY <2>1, Zenon DEF Ledger
<1>3. [f EXCEPT !.stx = @ + f.staked, !.staked = 0] \in Ledger
  <2>1. f.stx + f.staked \in Nat /\ 0 \in Nat
    BY DEF Ledger
  <2>2. QED
    BY <2>1, Zenon DEF Ledger
<1>4. QED
  BY <1>1, <1>2, <1>3

LEMMA GasType ==
  ASSUME TypeOK, NEW gas \in {NoGas} \cup GasFees, NEW enforce \in BOOLEAN,
         GasAllowed(gas, enforce)
  PROVE  SpentAfterGas(gas) \in Counters /\ FundsAfterGas(gas) \in Ledger
<1>1. CASE gas = NoGas
  BY <1>1 DEF SpentAfterGas, FundsAfterGas, TypeOK
<1>2. CASE gas # NoGas
  <2>1. gas \in Nat /\ gas <= funds.sbtc
    BY <1>2, InputsAssumption DEF GasAllowed
  <2>2. SpentAfterGas(gas) \in Counters
    BY <1>2, <2>1, AddSpentType DEF SpentAfterGas, TypeOK
  <2>3. FundsAfterGas(gas) \in Ledger
    BY <1>2, <2>1, LedgerSteps DEF FundsAfterGas, TypeOK
  <2>4. QED
    BY <2>2, <2>3
<1>3. QED
  BY <1>1, <1>2

LEMMA ConsumeType ==
  ASSUME TypeOK, NEW sig \in Signs, ConsumeSignature(sig)
  PROVE  usedPubkeyAuthorizations' \subseteq Hashes /\ usedAssertions' \subseteq Assertions
BY SignaturesAssumption DEF ConsumeSignature, TypeOK

\* What an authorised call does to the signature maps and to the money.
LEMMA AuthorisedType ==
  ASSUME TypeOK, NEW c \in Calls, Authorised(c)
  PROVE  /\ usedPubkeyAuthorizations' \subseteq Hashes /\ usedAssertions' \subseteq Assertions
         /\ SpentAfterGas(c.gas) \in Counters /\ FundsAfterGas(c.gas) \in Ledger
<1>1. CASE c.by = "admin" /\ ByAdmin(c.sender)
  <2>1. c.gas = NoGas
    BY <1>1 DEF Calls
  <2>2. QED
    BY <1>1, <2>1 DEF ByAdmin, signatureVars, TypeOK, SpentAfterGas, FundsAfterGas
<1>2. CASE c.by = "passkey" /\ ByPasskey(c, TRUE)
  <2>1. c.sig \in Signs /\ c.gas \in {NoGas} \cup GasFees
    BY <1>2 DEF Calls
  <2>2. QED
    BY <1>2, <2>1, ConsumeType, GasType DEF ByPasskey
<1>3. QED
  BY <1>1, <1>2 DEF Authorised

LEMMA ByPasskeyType ==
  ASSUME TypeOK, NEW c \in PasskeyCalls, NEW enforce \in BOOLEAN, ByPasskey(c, enforce)
  PROVE  /\ usedPubkeyAuthorizations' \subseteq Hashes /\ usedAssertions' \subseteq Assertions
         /\ SpentAfterGas(c.gas) \in Counters /\ FundsAfterGas(c.gas) \in Ledger
<1>1. c.sig \in Signs /\ c.gas \in {NoGas} \cup GasFees
  BY DEF PasskeyCalls, Calls
<1>2. QED
  BY <1>1, ConsumeType, GasType DEF ByPasskey

\* The same for a passkey call that only pays its gas.
LEMMA PaidByPasskeyType ==
  ASSUME TypeOK, NEW c \in PasskeyCalls, NEW enforce \in BOOLEAN, ByPasskey(c, enforce),
         PayGas(c.gas)
  PROVE  /\ usedPubkeyAuthorizations' \subseteq Hashes /\ usedAssertions' \subseteq Assertions
         /\ spentThisPeriod' \in Counters /\ funds' \in Ledger
BY ByPasskeyType DEF PayGas

-----------------------------------------------------------------------------
(* Type correctness, one lemma per action that moves money.                 *)

LEMMA AppendType ==
  ASSUME TypeOK, NEW type \in OpTypes, NEW amount \in Nat, NEW maxFee \in Nat,
         NEW memo \in Memos, NEW c,
         CreatePendingOperation(type, amount, maxFee, memo, c)
  PROVE  pendingOperations' \in Seq(Operation)
<1> DEFINE op == [type |-> type, amount |-> amount, maxFee |-> maxFee, memo |-> memo,
                  created |-> burnHeight,
                  executeAfter |-> burnHeight + walletConfig.cooldown,
                  executed |-> FALSE, vetoed |-> FALSE,
                  passkeyCreated |-> (c.by = "passkey")]
<1>1. op \in Operation
  BY DEF TypeOK, Operation
<1>2. pendingOperations' = Append(pendingOperations, op)
  BY DEF CreatePendingOperation
<1>3. QED
  BY <1>1, <1>2 DEF TypeOK

LEMMA SpendType ==
  ASSUME TypeOK, NEW asset \in {"stx", "sbtc"}, NEW type \in OpTypes, NEW amount \in Nat,
         NEW maxFee \in Nat, NEW memo \in Memos, NEW c \in Calls,
         Spend(asset, type, amount, maxFee, memo, c)
  PROVE  TypeOK'
<1> DEFINE cost == amount + maxFee
           spent == SpentAfterGas(c.gas)
           held == FundsAfterGas(c.gas)
<1>1. /\ usedPubkeyAuthorizations' \subseteq Hashes /\ usedAssertions' \subseteq Assertions
      /\ spent \in Counters /\ held \in Ledger
  BY AuthorisedType DEF Spend
<1>2. CASE /\ CreatePendingOperation(type, amount, maxFee, memo, c)
           /\ spentThisPeriod' = spent /\ funds' = held
  <2>1. pendingOperations' \in Seq(Operation)
    BY <1>2, AppendType
  <2>2. QED
    BY <1>1, <1>2, <2>1 DEF TypeOK, Spend, UpdateActivity, seatVars, handoverVars,
                            configVars, gasLimitVars
<1>3. CASE /\ cost <= held[asset]
           /\ spentThisPeriod' = AddSpent(spent, asset, cost)
           /\ funds' = [held EXCEPT ![asset] = @ - cost]
           /\ UNCHANGED pendingOperations
  <2>1. cost \in Nat
    OBVIOUS
  <2>2. spentThisPeriod' \in Counters
    BY <1>1, <1>3, <2>1, AddSpentType
  <2>3. funds' \in Ledger
    BY <1>1, <1>3, <2>1 DEF Ledger
  <2>4. QED
    BY <1>1, <1>3, <2>2, <2>3 DEF TypeOK, Spend, UpdateActivity, seatVars, handoverVars,
                                  configVars, gasLimitVars
<1>4. QED
  BY <1>2, <1>3 DEF Spend

LEMMA SendUncappedType ==
  ASSUME TypeOK, NEW asset \in {"other", "nft"}, NEW amount \in Nat, NEW c \in Calls,
         SendUncapped(asset, amount, c)
  PROVE  TypeOK'
<1>1. /\ usedPubkeyAuthorizations' \subseteq Hashes /\ usedAssertions' \subseteq Assertions
      /\ SpentAfterGas(c.gas) \in Counters /\ FundsAfterGas(c.gas) \in Ledger
  BY AuthorisedType DEF SendUncapped
<1>2. FundsAfterGas(c.gas)[asset] = funds[asset]
  BY DEF FundsAfterGas, TypeOK, Ledger
<1>3. funds' \in Ledger
  <2> DEFINE held == FundsAfterGas(c.gas)
  <2>1. /\ held \in Ledger /\ amount <= held[asset]
        /\ funds' = [held EXCEPT ![asset] = @ - amount]
    BY <1>1, <1>2 DEF SendUncapped
  <2> HIDE DEF held
  <2>2. QED
    BY <2>1 DEF Ledger
<1>4. QED
  BY <1>1, <1>3 DEF TypeOK, SendUncapped, UpdateActivity, seatVars, handoverVars,
                    configVars, gasLimitVars

LEMMA PayOutType ==
  ASSUME TypeOK, NEW i \in DOMAIN pendingOperations, NEW held \in Ledger,
         PayOut(i, held),
         usedPubkeyAuthorizations' \subseteq Hashes, usedAssertions' \subseteq Assertions,
         spentThisPeriod' \in Counters
  PROVE  TypeOK'
<1> DEFINE op == pendingOperations[i]
<1>1. op \in Operation
  BY DEF TypeOK
<1>2. CostOf(op) \in Nat /\ AssetOf(op) \in {"stx", "sbtc"}
  BY <1>1 DEF CostOf, AssetOf, Operation
<1>3. funds' \in Ledger
  BY <1>2 DEF PayOut, Ledger
<1>4. pendingOperations' \in Seq(Operation)
  <2>1. [op EXCEPT !.executed = TRUE] \in Operation
    BY <1>1 DEF Operation
  <2>2. pendingOperations' = [pendingOperations EXCEPT ![i] = [op EXCEPT !.executed = TRUE]]
    BY DEF PayOut
  <2>3. QED
    BY <2>1, <2>2, ExceptSeq DEF TypeOK
<1>5. QED
  BY <1>3, <1>4 DEF TypeOK, PayOut, UpdateActivity, seatVars, handoverVars, configVars,
                    gasLimitVars

LEMMA VetoType ==
  ASSUME TypeOK, NEW i, NEW c \in Calls, VetoOperation(i, c)
  PROVE  TypeOK'
<1> DEFINE op == pendingOperations[i]
<1>1. [op EXCEPT !.vetoed = TRUE] \in Operation
  <2>1. op \in Operation
    BY DEF TypeOK, VetoOperation
  <2>2. QED
    BY <2>1 DEF Operation
<1>2. pendingOperations' = [pendingOperations EXCEPT ![i] = [op EXCEPT !.vetoed = TRUE]]
  BY DEF VetoOperation
<1>3. i \in 1 .. Len(pendingOperations)
  BY DEF TypeOK, VetoOperation
<1>4. pendingOperations' \in Seq(Operation)
  BY <1>1, <1>2, <1>3, ExceptSeq DEF TypeOK
<1>5. /\ usedPubkeyAuthorizations' \subseteq Hashes /\ usedAssertions' \subseteq Assertions
      /\ spentThisPeriod' \in Counters /\ funds' \in Ledger
  BY AuthorisedType DEF VetoOperation, PayGas
<1>6. QED
  BY <1>4, <1>5 DEF TypeOK, VetoOperation, UpdateActivity, seatVars, handoverVars,
                    configVars, gasLimitVars

LEMMA SettlingType ==
  ASSUME TypeOK, Settling
  PROVE  TypeOK'
<1>1. ASSUME NEW i, NEW type \in OpTypes, NEW u, ExecutePending(type, i, u)
      PROVE  TypeOK'
  BY <1>1, PayOutType DEF ExecutePending, Payable, ByAdmin, signatureVars, TypeOK
<1>2. ASSUME NEW i, NEW type \in OpTypes, NEW c \in PasskeyCalls, NEW m,
             ExecutePendingNow(type, i, m, c)
      PROVE  TypeOK'
  <2>1. /\ usedPubkeyAuthorizations' \subseteq Hashes /\ usedAssertions' \subseteq Assertions
        /\ SpentAfterGas(c.gas) \in Counters /\ FundsAfterGas(c.gas) \in Ledger
    BY <1>2, ByPasskeyType DEF ExecutePendingNow
  <2>2. QED
    BY <1>2, <2>1, PayOutType DEF ExecutePendingNow, Payable
<1>3. QED
  BY <1>1, <1>2, VetoType DEF Settling

LEMMA SpendingType ==
  ASSUME TypeOK, Spending
  PROVE  TypeOK'
<1>1. PICK c \in Calls :
        \/ \E m \in Memos :
             \/ \E a \in Amounts["stx"] : StxTransfer(a, m, c)
             \/ \E token \in {"sbtc", "other"} :
                  \E a \in Amounts[token] : Sip010Transfer(token, a, m, c)
        \/ \E w \in Withdrawals : SbtcInitiateWithdrawal(w.amount, w.maxFee, c)
        \/ Sip009Transfer(c)
  BY DEF Spending
<1>2. ASSUME NEW m \in Memos, NEW a \in Amounts["stx"], StxTransfer(a, m, c)
      PROVE  TypeOK'
  <2>1. a \in Nat /\ 0 \in Nat /\ "stx-transfer" \in OpTypes /\ "stx" \in {"stx", "sbtc"}
    BY InputsAssumption DEF OpTypes
  <2>2. QED
    BY <1>2, <2>1, SpendType DEF StxTransfer
<1>3. ASSUME NEW m \in Memos, NEW token \in {"sbtc", "other"}, NEW a \in Amounts[token],
             Sip010Transfer(token, a, m, c)
      PROVE  TypeOK'
  <2>1. a \in Nat /\ 0 \in Nat /\ "sbtc-transfer" \in OpTypes /\ "sbtc" \in {"stx", "sbtc"}
                  /\ "other" \in {"other", "nft"}
    BY InputsAssumption DEF OpTypes
  <2>2. QED
    BY <1>3, <2>1, SpendType, SendUncappedType DEF Sip010Transfer
<1>4. ASSUME NEW w \in Withdrawals, SbtcInitiateWithdrawal(w.amount, w.maxFee, c)
      PROVE  TypeOK'
  <2>1. /\ w.amount \in Nat /\ w.maxFee \in Nat
        /\ "sbtc-withdraw" \in OpTypes /\ "sbtc" \in {"stx", "sbtc"}
    BY InputsAssumption DEF OpTypes
  <2>2. QED
    BY <1>4, <2>1, SpendType DEF SbtcInitiateWithdrawal
<1>5. ASSUME Sip009Transfer(c)
      PROVE  TypeOK'
  <2>1. "nft" \in {"other", "nft"} /\ 1 \in Nat
    OBVIOUS
  <2>2. QED
    BY <1>5, <2>1, SendUncappedType DEF Sip009Transfer
<1>6. QED
  BY <1>1, <1>2, <1>3, <1>4, <1>5

LEMMA LockStxType ==
  ASSUME TypeOK, NEW amount \in Nat, NEW c \in Calls, LockStx(amount, c)
  PROVE  TypeOK'
<1> DEFINE held == FundsAfterGas(c.gas)
<1>1. /\ usedPubkeyAuthorizations' \subseteq Hashes /\ usedAssertions' \subseteq Assertions
      /\ SpentAfterGas(c.gas) \in Counters /\ held \in Ledger
  BY AuthorisedType DEF LockStx
<1>2. held.stx = funds.stx
  BY DEF FundsAfterGas, TypeOK, Ledger
<1>3. funds' \in Ledger
  <2>1. /\ held \in Ledger /\ amount <= held.stx
        /\ funds' = [held EXCEPT !.stx = @ - amount, !.staked = @ + amount]
    BY <1>1, <1>2 DEF LockStx
  <2> HIDE DEF held
  <2>2. QED
    BY <2>1, LedgerSteps
<1>4. QED
  BY <1>1, <1>3 DEF TypeOK, LockStx, UpdateActivity, seatVars, handoverVars,
                    configVars, gasLimitVars

LEMMA StakingType ==
  ASSUME TypeOK, Staking
  PROVE  TypeOK'
<1>1. PICK c \in Calls : \/ \E a \in Stakes : StakeStxJuice(a, c)
                        \/ \E a \in Stakes \cup {0} : UpdateStakeStxJuice(a, c)
                        \/ Unstake(c)
  BY DEF Staking
<1>2. Stakes \subseteq Nat /\ 0 \in Nat
  BY InputsAssumption
<1>3. QED
  BY <1>1, <1>2, LockStxType DEF StakeStxJuice, UpdateStakeStxJuice, Unstake

LEMMA PolicyChangeType ==
  ASSUME TypeOK, PolicyChange
  PROVE  TypeOK'
<1> USE DEF UpdateActivity, seatVars, handoverVars, configVars, gasLimitVars,
            moneyVars, signatureVars
<1>1. ASSUME NEW u, NEW a \in GasAmounts, ProposeMaxGasAmount(a, u)
      PROVE  TypeOK'
  BY <1>1, InputsAssumption DEF ProposeMaxGasAmount, ByAdmin, TypeOK
<1>2. ASSUME NEW u, NEW f \in Configs, SignalConfigChange(f, u)
      PROVE  TypeOK'
  BY <1>2, InputsAssumption DEF SignalConfigChange, ByAdmin, TypeOK
<1>3. ASSUME NEW c \in PasskeyCalls, ConfirmMaxGasAmount(c)
      PROVE  TypeOK'
  <2>1. /\ usedPubkeyAuthorizations' \subseteq Hashes /\ usedAssertions' \subseteq Assertions
        /\ spentThisPeriod' \in Counters /\ funds' \in Ledger
    BY <1>3, PaidByPasskeyType DEF ConfirmMaxGasAmount
  <2>2. QED
    BY <1>3, <2>1 DEF ConfirmMaxGasAmount, TypeOK
<1>4. ASSUME NEW c \in PasskeyCalls, SetWalletConfig(c)
      PROVE  TypeOK'
  <2>1. /\ usedPubkeyAuthorizations' \subseteq Hashes /\ usedAssertions' \subseteq Assertions
        /\ spentThisPeriod' \in Counters /\ funds' \in Ledger
    BY <1>4, PaidByPasskeyType DEF SetWalletConfig
  <2>2. QED
    BY <1>4, <2>1 DEF SetWalletConfig, TypeOK, Policy
<1>5. ASSUME NEW c \in Calls, NEW enabled \in BOOLEAN, ToggleTokenLock(enabled, c)
      PROVE  TypeOK'
  BY <1>5, AuthorisedType DEF ToggleTokenLock, PayGas, ByAdmin, TypeOK
<1>6. QED
  BY <1>1, <1>2, <1>3, <1>4, <1>5 DEF PolicyChange

LEMMA HandoverType ==
  ASSUME TypeOK, Handover \/ Recovery
  PROVE  TypeOK'
<1> USE DEF UpdateActivity, seatVars, handoverVars, configVars, gasLimitVars,
            moneyVars, signatureVars
<1> USE PrincipalsAssumption DEF Principals
<1>1. ASSUME NEW n \in Candidates, NEW u, ProposeTransferWallet(n, u)
      PROVE  TypeOK'
  BY <1>1 DEF ProposeTransferWallet, ByAdmin, TypeOK
<1>2. ASSUME NEW n \in Candidates, NEW c \in PasskeyCalls, ProposeRecovery(n, c)
      PROVE  TypeOK'
  <2>1. /\ usedPubkeyAuthorizations' \subseteq Hashes /\ usedAssertions' \subseteq Assertions
        /\ spentThisPeriod' \in Counters /\ funds' \in Ledger
    BY <1>2, PaidByPasskeyType DEF ProposeRecovery
  <2>2. QED
    BY <1>2, <2>1 DEF ProposeRecovery, TypeOK
<1>3. ASSUME NEW c \in PasskeyCalls, ConfirmTransferWallet(c)
      PROVE  TypeOK'
  <2>1. /\ usedPubkeyAuthorizations' \subseteq Hashes /\ usedAssertions' \subseteq Assertions
        /\ spentThisPeriod' \in Counters /\ funds' \in Ledger
    BY <1>3, PaidByPasskeyType DEF ConfirmTransferWallet
  <2>2. QED
    BY <1>3, <2>1 DEF ConfirmTransferWallet, TypeOK
<1>4. ASSUME NEW u, ConfirmRecovery(u)
      PROVE  TypeOK'
  BY <1>4 DEF ConfirmRecovery, ByAdmin, TypeOK
<1>5. ASSUME NEW n \in Candidates, NEW u, RecoverInactiveWallet(n, u)
      PROVE  TypeOK'
  BY <1>5 DEF RecoverInactiveWallet, SeatRecovered, TypeOK
<1>6. QED
  BY <1>1, <1>2, <1>3, <1>4, <1>5 DEF Handover, Recovery

LEMMA InitType ==
  ASSUME Init
  PROVE  TypeOK
<1>1. pendingOperations \in Seq(Operation)
  BY DEF Init
<1>2. walletConfig \in [stx : Nat, sbtc : Nat, cooldown : Nat, signaledAt : Nat]
  BY LimitsAssumption DEF Init, Policy
<1>3. /\ pendingConfig \in Policy /\ spentThisPeriod \in Counters /\ funds \in Ledger
      /\ maxGasAmount \in Nat /\ pendingMaxGas \in [amount : Nat, proposedAt : Nat]
  BY InputsAssumption, LimitsAssumption DEF Init, Policy, Counters
<1>4. /\ owner \in Principals /\ admins \subseteq Principals
      /\ recoveryAddress \in Principals /\ pendingRecovery \in Principals
      /\ pendingTransfer \in Principals
  BY DEF Init, Principals
<1>5. burnHeight \in Nat \ {0} /\ lastActivityBlock \in 1 .. burnHeight
  BY DEF Init
<1>6. /\ pubkeyInitialized \in BOOLEAN /\ pubkeyToAdmin \in Principals \cup {NoKey}
      /\ tokenLockEnabled \in BOOLEAN
      /\ usedPubkeyAuthorizations \subseteq Hashes /\ usedAssertions \subseteq Assertions
  BY DEF Init
<1>7. QED
  BY <1>1, <1>2, <1>3, <1>4, <1>5, <1>6 DEF TypeOK

LEMMA NextType ==
  ASSUME TypeOK, [Next]_vars
  PROVE  TypeOK'
<1> USE DEF seatVars, handoverVars, configVars, gasLimitVars, moneyVars, signatureVars
<1>1. CASE NextBlock
  BY <1>1 DEF NextBlock, TypeOK
<1>2. ASSUME NEW o \in Onboardings, NEW u, Onboard(o.owner, o.recovery, o.config, u)
      PROVE  TypeOK'
  BY <1>2, InputsAssumption DEF Onboard, TypeOK, UpdateActivity, Policy
<1>3. CASE UNCHANGED vars
  BY <1>3 DEF vars, TypeOK
<1>4. CASE Unlock
  BY <1>4, LedgerSteps DEF Unlock, TypeOK
<1>5. QED
  BY <1>1, <1>2, <1>3, <1>4, SpendingType, StakingType, SettlingType, PolicyChangeType,
     HandoverType
  DEF Next, Onboarding

\* Every variable keeps its shape in every reachable state; in particular the
\* counters and balances never go below zero.
THEOREM TypeCorrect == Spec => []TypeOK
BY InitType, NextType, PTL DEF Spec

-----------------------------------------------------------------------------
(* Which actions touch which part of the state.                             *)

LEMMA SeatSteps ==
  ASSUME Next
  PROVE  \/ UNCHANGED <<seatVars, recoveryAddress, pendingRecovery>>
         \/ Onboarding \/ Handover \/ Recovery
<1> USE DEF seatVars, handoverVars
<1>1. NextBlock \/ Unlock => UNCHANGED <<seatVars, recoveryAddress, pendingRecovery>>
  BY DEF NextBlock, Unlock
<1>2. Spending \/ Staking => UNCHANGED <<seatVars, recoveryAddress, pendingRecovery>>
  BY DEF Spending, StxTransfer, Sip010Transfer, Sip009Transfer, SbtcInitiateWithdrawal,
         Spend, SendUncapped, Staking, StakeStxJuice, UpdateStakeStxJuice, Unstake, LockStx
<1>3. Settling => UNCHANGED <<seatVars, recoveryAddress, pendingRecovery>>
  BY DEF Settling, ExecutePending, ExecutePendingNow, PayOut, VetoOperation
<1>4. PolicyChange => UNCHANGED <<seatVars, recoveryAddress, pendingRecovery>>
  BY DEF PolicyChange, ProposeMaxGasAmount, SignalConfigChange, ConfirmMaxGasAmount,
         SetWalletConfig, ToggleTokenLock
<1>5. QED
  BY <1>1, <1>2, <1>3, <1>4 DEF Next

LEMMA PolicySteps ==
  ASSUME Next
  PROVE  \/ UNCHANGED <<configVars, gasLimitVars>>
         \/ Onboarding \/ PolicyChange
<1> USE DEF configVars, gasLimitVars
<1>1. NextBlock \/ Unlock => UNCHANGED <<configVars, gasLimitVars>>
  BY DEF NextBlock, Unlock
<1>2. Spending \/ Staking => UNCHANGED <<configVars, gasLimitVars>>
  BY DEF Spending, StxTransfer, Sip010Transfer, Sip009Transfer, SbtcInitiateWithdrawal,
         Spend, SendUncapped, Staking, StakeStxJuice, UpdateStakeStxJuice, Unstake, LockStx
<1>3. Settling => UNCHANGED <<configVars, gasLimitVars>>
  BY DEF Settling, ExecutePending, ExecutePendingNow, PayOut, VetoOperation
<1>4. Handover \/ Recovery => UNCHANGED <<configVars, gasLimitVars>>
  BY DEF Handover, Recovery, ProposeTransferWallet, ConfirmTransferWallet, ProposeRecovery,
         ConfirmRecovery, RecoverInactiveWallet, SeatRecovered
<1>5. QED
  BY <1>1, <1>2, <1>3, <1>4 DEF Next

LEMMA QueueSteps ==
  ASSUME Next
  PROVE  UNCHANGED pendingOperations \/ Spending \/ Settling
<1>1. NextBlock \/ Unlock \/ Onboarding \/ Staking => UNCHANGED pendingOperations
  BY DEF NextBlock, Unlock, Onboarding, Onboard, Staking, StakeStxJuice,
         UpdateStakeStxJuice, Unstake, LockStx
<1>2. PolicyChange => UNCHANGED pendingOperations
  BY DEF PolicyChange, ProposeMaxGasAmount, SignalConfigChange, ConfirmMaxGasAmount,
         SetWalletConfig, ToggleTokenLock
<1>3. Handover \/ Recovery => UNCHANGED pendingOperations
  BY DEF Handover, Recovery, ProposeTransferWallet, ConfirmTransferWallet, ProposeRecovery,
         ConfirmRecovery, RecoverInactiveWallet, SeatRecovered
<1>4. QED
  BY <1>1, <1>2, <1>3 DEF Next

-----------------------------------------------------------------------------
(* One seat.                                                                *)

\* OneSeat is inductive once the pending recovery address is not the wallet
\* either and nothing can move before onboard has seated the first owner.
SeatInv ==
  /\ OneSeat
  /\ pendingRecovery # Self
  /\ ~pubkeyInitialized => /\ owner = Nobody /\ pubkeyToAdmin = NoKey
                           /\ recoveryAddress = Nobody /\ pendingRecovery = Nobody

\* Each call that names an owner or a recovery address refuses the wallet itself.
LEMMA SeatStep ==
  ASSUME SeatInv, [Next]_vars
  PROVE  SeatInv'
<1> USE PrincipalsAssumption DEF SeatInv, OneSeat
<1>1. CASE UNCHANGED <<seatVars, recoveryAddress, pendingRecovery>>
  BY <1>1 DEF seatVars
<1>2. CASE Onboarding
  BY <1>2 DEF Onboarding, Onboard
<1>3. CASE Handover
  <2>1. ASSUME NEW n, NEW u, ProposeTransferWallet(n, u)
        PROVE  SeatInv'
    BY <2>1 DEF ProposeTransferWallet, seatVars
  <2>2. ASSUME NEW n, NEW c, ProposeRecovery(n, c)
        PROVE  SeatInv'
    BY <2>2 DEF ProposeRecovery, ByPasskey, ConsumeSignature, seatVars
  <2>3. ASSUME NEW c, ConfirmTransferWallet(c)
        PROVE  SeatInv'
    BY <2>3 DEF ConfirmTransferWallet, ByPasskey, ConsumeSignature
  <2>4. ASSUME NEW u, ConfirmRecovery(u)
        PROVE  SeatInv'
    BY <2>4 DEF ConfirmRecovery, seatVars
  <2>5. QED
    BY <1>3, <2>1, <2>2, <2>3, <2>4 DEF Handover
<1>4. CASE Recovery
  BY <1>4 DEF Recovery, RecoverInactiveWallet, SeatRecovered, handoverVars
<1>5. CASE UNCHANGED vars
  BY <1>5 DEF vars, seatVars, handoverVars
<1>6. QED
  BY <1>1, <1>2, <1>3, <1>4, <1>5, SeatSteps

LEMMA SeatsStayInvariant == Spec => []SeatInv
<1> USE PrincipalsAssumption
<1>1. Init => SeatInv
  BY DEF Init, SeatInv, OneSeat
<1>2. SeatInv /\ [Next]_vars => SeatInv'
  BY SeatStep
<1>3. QED
  BY <1>1, <1>2, PTL DEF Spec

\* In every reachable state exactly one principal, the owner, can act as admin,
\* and the wallet itself is neither owner nor recovery address (onboard,
\* confirm-transfer-wallet, recover-inactive-wallet, propose/confirm-recovery).
THEOREM SeatsAreSound == Spec => []OneSeat
BY SeatsStayInvariant, PTL DEF SeatInv

-----------------------------------------------------------------------------
(* Legal policy.                                                            *)

\* The calls that propose check the bounds, those that confirm rely on it.
LEMMA PolicyStep ==
  ASSUME TypeOK, PolicyLegal, [Next]_vars
  PROVE  PolicyLegal'
<1> USE LimitsAssumption DEF PolicyLegal, LegalCooldown
<1>1. CASE UNCHANGED <<configVars, gasLimitVars>>
  BY <1>1 DEF configVars, gasLimitVars
<1>2. CASE Onboarding
  BY <1>2 DEF Onboarding, Onboard, gasLimitVars
<1>3. CASE PolicyChange
  <2>1. ASSUME NEW u, NEW a \in GasAmounts, ProposeMaxGasAmount(a, u)
        PROVE  PolicyLegal'
    BY <2>1 DEF ProposeMaxGasAmount, configVars
  <2>2. ASSUME NEW u, NEW f \in Configs, SignalConfigChange(f, u)
        PROVE  PolicyLegal'
    BY <2>2 DEF SignalConfigChange, gasLimitVars, TypeOK
  <2>3. ASSUME NEW c, ConfirmMaxGasAmount(c)
        PROVE  PolicyLegal'
    BY <2>3 DEF ConfirmMaxGasAmount, configVars
  <2>4. ASSUME NEW c, SetWalletConfig(c)
        PROVE  PolicyLegal'
    BY <2>4 DEF SetWalletConfig, TimelockPassed, gasLimitVars
  <2>5. ASSUME NEW c, NEW enabled, ToggleTokenLock(enabled, c)
        PROVE  PolicyLegal'
    BY <2>5 DEF ToggleTokenLock, configVars, gasLimitVars
  <2>6. QED
    BY <1>3, <2>1, <2>2, <2>3, <2>4, <2>5 DEF PolicyChange
<1>4. CASE UNCHANGED vars
  BY <1>4 DEF vars, configVars, gasLimitVars
<1>5. QED
  BY <1>1, <1>2, <1>3, <1>4, PolicySteps

\* The cooldown, the queued configuration and the gas limits stay within their
\* bounds (signal-config-change, set-wallet-config, propose/confirm-max-gas-amount).
THEOREM PolicyStaysLegal == Spec => []PolicyLegal
<1> USE LimitsAssumption DEF PolicyLegal, LegalCooldown
<1>1. Init => PolicyLegal
  BY DEF Init
<1>2. TypeOK /\ PolicyLegal /\ [Next]_vars => PolicyLegal'
  BY PolicyStep
<1>3. QED
  BY <1>1, <1>2, TypeCorrect, PTL DEF Spec

-----------------------------------------------------------------------------
(* The queue.                                                               *)

\* Whatever a step does to the queue, it appends one pending operation with
\* the delay in force, marks one payable operation executed (after its delay
\* or with the passkey's countersignature), or vetoes an unexecuted one.
Appended(op) ==
  /\ Len(pendingOperations) < MaxOps
  /\ pendingOperations' = Append(pendingOperations, op)
  /\ op \in Operation /\ op.created = burnHeight
  /\ op.executeAfter = burnHeight + walletConfig.cooldown
  /\ ~op.executed /\ ~op.vetoed
Executed(i) ==
  /\ Payable(i)
  /\ pendingOperations' = [pendingOperations EXCEPT ![i].executed = TRUE]
  /\ \/ CooldownPassed(pendingOperations[i])
     \/ SecondFactor(pendingOperations[i]) /\ usedAssertions' # usedAssertions
Vetoed(i) ==
  /\ i \in DOMAIN pendingOperations /\ ~pendingOperations[i].executed
  /\ pendingOperations' = [pendingOperations EXCEPT ![i].vetoed = TRUE]
QueueStep == \/ UNCHANGED pendingOperations
             \/ \E op : Appended(op)
             \/ \E i : Executed(i) \/ Vetoed(i)

LEMMA SpendQueues ==
  ASSUME TypeOK, NEW asset, NEW type \in OpTypes, NEW amount \in Nat, NEW maxFee \in Nat,
         NEW memo \in Memos, NEW c, Spend(asset, type, amount, maxFee, memo, c)
  PROVE  UNCHANGED pendingOperations \/ \E op : Appended(op)
<1>1. CASE CreatePendingOperation(type, amount, maxFee, memo, c)
  <2> DEFINE op == [type |-> type, amount |-> amount, maxFee |-> maxFee, memo |-> memo,
                    created |-> burnHeight,
                    executeAfter |-> burnHeight + walletConfig.cooldown,
                    executed |-> FALSE, vetoed |-> FALSE,
                    passkeyCreated |-> (c.by = "passkey")]
  <2>1. op \in Operation
    BY DEF TypeOK, Operation
  <2>2. Appended(op)
    BY <1>1, <2>1 DEF CreatePendingOperation, Appended
  <2>3. QED
    BY <2>2
<1>2. QED
  BY <1>1 DEF Spend

LEMMA QueueStepOfNext ==
  ASSUME TypeOK, Next
  PROVE  QueueStep
<1>1. CASE Spending
  <2>1. PICK c \in Calls :
          \/ \E m \in Memos :
               \/ \E a \in Amounts["stx"] : StxTransfer(a, m, c)
               \/ \E token \in {"sbtc", "other"} :
                    \E a \in Amounts[token] : Sip010Transfer(token, a, m, c)
          \/ \E w \in Withdrawals : SbtcInitiateWithdrawal(w.amount, w.maxFee, c)
          \/ Sip009Transfer(c)
    BY <1>1 DEF Spending
  <2>2. Amounts["stx"] \subseteq Nat /\ Amounts["sbtc"] \subseteq Nat /\ 0 \in Nat
    BY InputsAssumption
  <2>3. ASSUME NEW m \in Memos, NEW a \in Amounts["stx"], StxTransfer(a, m, c)
        PROVE  QueueStep
    BY <2>2, <2>3, SpendQueues DEF StxTransfer, QueueStep, OpTypes
  <2>4. ASSUME NEW m \in Memos, NEW token \in {"sbtc", "other"}, NEW a \in Amounts[token],
               Sip010Transfer(token, a, m, c)
        PROVE  QueueStep
    <3>1. CASE token = "sbtc" /\ Spend("sbtc", "sbtc-transfer", a, 0, m, c)
      BY <2>2, <3>1, SpendQueues DEF QueueStep, OpTypes
    <3>2. CASE token = "other" /\ SendUncapped("other", a, c)
      BY <3>2 DEF SendUncapped, QueueStep
    <3>3. QED
      BY <2>4, <3>1, <3>2 DEF Sip010Transfer
  <2>5. ASSUME NEW w \in Withdrawals, SbtcInitiateWithdrawal(w.amount, w.maxFee, c)
        PROVE  QueueStep
    <3>1. w.amount \in Nat /\ w.maxFee \in Nat
      BY InputsAssumption
    <3>2. QED
      BY <2>5, <3>1, SpendQueues DEF SbtcInitiateWithdrawal, QueueStep, OpTypes
  <2>6. Sip009Transfer(c) => QueueStep
    BY DEF Sip009Transfer, SendUncapped, QueueStep
  <2>7. QED
    BY <2>1, <2>3, <2>4, <2>5, <2>6
<1>2. CASE Settling
  <2>1. ASSUME NEW i, NEW type, NEW u, ExecutePending(type, i, u)
        PROVE  QueueStep
    BY <2>1 DEF ExecutePending, PayOut, QueueStep, Executed
  <2>2. ASSUME NEW i, NEW type, NEW c, NEW m, ExecutePendingNow(type, i, m, c)
        PROVE  QueueStep
    <3>1. usedAssertions' # usedAssertions
      BY <2>2 DEF ExecutePendingNow, ByPasskey, ConsumeSignature
    <3>2. Executed(i)
      BY <2>2, <3>1 DEF ExecutePendingNow, PayOut, Executed
    <3>3. QED
      BY <3>2 DEF QueueStep
  <2>3. ASSUME NEW i, NEW c, VetoOperation(i, c)
        PROVE  QueueStep
    BY <2>3 DEF VetoOperation, QueueStep, Vetoed
  <2>4. QED
    BY <1>2, <2>1, <2>2, <2>3 DEF Settling
<1>3. QED
  BY <1>1, <1>2, QueueSteps DEF QueueStep

\* A legal cooldown makes the delay of what is appended legal.
LEMMA QueueStepSound ==
  ASSUME TypeOK, PolicyLegal, QueueSound, QueueStep
  PROVE  QueueSound'
<1> USE LimitsAssumption
<1>1. pendingOperations \in Seq(Operation)
  BY DEF TypeOK
<1>2. CASE UNCHANGED pendingOperations
  BY <1>2 DEF QueueSound
<1>3. ASSUME NEW op, Appended(op)
      PROVE  QueueSound'
  <2>1. burnHeight \in Nat /\ walletConfig.cooldown \in MinCooldown .. MaxCooldown
    BY DEF TypeOK, PolicyLegal, LegalCooldown
  <2>2. op.executeAfter \in op.created + MinCooldown .. op.created + MaxCooldown
    BY <1>3, <2>1 DEF Appended
  <2>3. /\ Len(pendingOperations') = Len(pendingOperations) + 1
        /\ \A i \in 1 .. Len(pendingOperations) :
             pendingOperations'[i] = pendingOperations[i]
        /\ pendingOperations'[Len(pendingOperations) + 1] = op
        /\ pendingOperations' \in Seq(Operation)
    BY <1>1, <1>3 DEF Appended
  <2>4. ASSUME NEW i \in DOMAIN pendingOperations'
        PROVE  i \in DOMAIN pendingOperations \/ pendingOperations'[i] = op
    BY <1>1, <2>3
  <2>5. ~op.executed
    BY <1>3 DEF Appended
  <2>6. ASSUME NEW i \in DOMAIN pendingOperations
        PROVE  pendingOperations'[i] = pendingOperations[i]
    BY <1>1, <2>3
  <2>7. QED
    BY <2>2, <2>4, <2>5, <2>6 DEF QueueSound
<1>4. ASSUME NEW i, Executed(i)
      PROVE  QueueSound'
  BY <1>1, <1>4 DEF Executed, Payable, QueueSound
<1>5. ASSUME NEW i, Vetoed(i)
      PROVE  QueueSound'
  BY <1>1, <1>5 DEF Vetoed, QueueSound
<1>6. QED
  BY <1>2, <1>3, <1>4, <1>5 DEF QueueStep

\* No queued operation is ever both paid and vetoed, and each carries a delay
\* within the cooldown bounds (create-pending-operation, veto-operation and the
\* execute-pending functions, whatever set-wallet-config does in between).
THEOREM QueueStaysSound == Spec => []QueueSound
<1>1. Init => QueueSound
  BY DEF Init, QueueSound
<1>2. TypeOK /\ PolicyLegal /\ QueueSound /\ [Next]_vars => QueueSound'
  <2>1. UNCHANGED vars => QueueStep
    BY DEF vars, QueueStep
  <2>2. QED
    BY <2>1, QueueStepOfNext, QueueStepSound
<1>3. QED
  BY <1>1, <1>2, TypeCorrect, PolicyStaysLegal, PTL DEF Spec

-----------------------------------------------------------------------------
(* Signatures.                                                              *)

LEMMA AuthorisedSigns ==
  ASSUME NEW c \in Calls, Authorised(c)
  PROVE  \/ c.by = "admin" /\ c.gas = NoGas /\ UNCHANGED signatureVars
         \/ c \in PasskeyCalls /\ ConsumeSignature(c.sig) /\ GasAllowed(c.gas, TRUE)
BY DEF Authorised, ByAdmin, ByPasskey, PasskeyCalls, Calls

\* A step leaves both signature maps alone or consumes one signature.
LEMMA SignatureSteps ==
  ASSUME Next
  PROVE  UNCHANGED signatureVars \/ \E sig : ConsumeSignature(sig)
<1>1. \A c : Authorised(c) => UNCHANGED signatureVars \/ ConsumeSignature(c.sig)
  BY DEF Authorised, ByAdmin, ByPasskey
<1>2. CASE NextBlock \/ Unlock \/ Onboarding \/ Recovery
  BY <1>2 DEF NextBlock, Unlock, Onboarding, Onboard, Recovery, RecoverInactiveWallet,
              signatureVars
<1>3. CASE Spending \/ Staking
  BY <1>1, <1>3 DEF Spending, StxTransfer, Sip010Transfer, Sip009Transfer,
       SbtcInitiateWithdrawal, Spend, SendUncapped, Staking, StakeStxJuice,
       UpdateStakeStxJuice, Unstake, LockStx
<1>4. CASE Settling
  BY <1>1, <1>4 DEF Settling, ExecutePending, ExecutePendingNow, VetoOperation,
       ByAdmin, ByPasskey
<1>5. CASE PolicyChange
  BY <1>1, <1>5 DEF PolicyChange, ProposeMaxGasAmount, SignalConfigChange,
       ConfirmMaxGasAmount, SetWalletConfig, ToggleTokenLock, ByAdmin, ByPasskey
<1>6. CASE Handover
  BY <1>6 DEF Handover, ProposeTransferWallet, ConfirmTransferWallet, ProposeRecovery,
       ConfirmRecovery, ByAdmin, ByPasskey
<1>7. QED
  BY <1>2, <1>3, <1>4, <1>5, <1>6 DEF Next

\* The maps are finite and grow together.
GestureInv ==
  /\ IsFiniteSet(usedAssertions) /\ IsFiniteSet(usedPubkeyAuthorizations)
  /\ OneGestureOneCall

\* Consuming a signature adds a new element to each.
LEMMA GestureStep ==
  ASSUME GestureInv, UNCHANGED signatureVars \/ \E sig : ConsumeSignature(sig)
  PROVE  GestureInv'
<1> USE DEF GestureInv, OneGestureOneCall
<1>1. CASE UNCHANGED signatureVars
  BY <1>1 DEF signatureVars
<1>2. ASSUME NEW sig, ConsumeSignature(sig)
      PROVE  GestureInv'
  <2>1. /\ IsFiniteSet(usedAssertions')
        /\ Cardinality(usedAssertions') = Cardinality(usedAssertions) + 1
    BY <1>2, FS_AddElement DEF ConsumeSignature
  <2>2. /\ IsFiniteSet(usedPubkeyAuthorizations')
        /\ Cardinality(usedPubkeyAuthorizations')
             = Cardinality(usedPubkeyAuthorizations) + 1
    BY <1>2, FS_AddElement DEF ConsumeSignature
  <2>3. QED
    BY <2>1, <2>2
<1>3. QED
  BY <1>1, <1>2

\* One gesture of the user authorises one call, whatever the helper accepts: the
\* same number of assertions and of operation hashes is spent in every reachable
\* state (verify-signature, consume-signature).
THEOREM GesturesAreSpentOnce == Spec => []OneGestureOneCall
<1>1. Init => GestureInv
  BY FS_EmptySet DEF Init, GestureInv, OneGestureOneCall
<1>2. GestureInv /\ [Next]_vars => GestureInv'
  <2>1. UNCHANGED vars => UNCHANGED signatureVars
    BY DEF vars, signatureVars
  <2>2. QED
    BY <2>1, SignatureSteps, GestureStep
<1>3. QED
  BY <1>1, <1>2, PTL DEF Spec, GestureInv

\* verify-signature maps the key to the principal it was onboarded for, and
\* is-admin-pubkey asks whether that principal is the admin.
LEMMA SpeakerIsOwner ==
  ASSUME OneSeat, PasskeySpoke, UNCHANGED signatureVars \/ \E sig : ConsumeSignature(sig)
  PROVE  owner = pubkeyToAdmin
BY DEF PasskeySpoke, signatureVars, ConsumeSignature, IsAdminCalling, OneSeat

\* A passkey call succeeds only while the principal the passkey was onboarded
\* for is the owner (verify-signature, is-admin-pubkey).
THEOREM PasskeySilencedByHandover == Spec => PasskeyFollowsOwner
<1>1. OneSeat /\ [Next]_vars => [PasskeySpoke => owner = pubkeyToAdmin]_vars
  BY SpeakerIsOwner, SignatureSteps
<1>2. QED
  BY <1>1, SeatsAreSound, PTL DEF Spec, PasskeyFollowsOwner

-----------------------------------------------------------------------------
(* The token lock.                                                          *)

OnlyPaysGas ==
  /\ \E c \in PasskeyCalls, enforce \in BOOLEAN : GasAllowed(c.gas, enforce) /\ PayGas(c.gas)
  /\ Len(pendingOperations') = Len(pendingOperations)
  /\ tokenLockEnabled'

\* A passkey call under the token lock pays its gas and moves nothing else.
LEMMA LockedSteps ==
  ASSUME TypeOK, Next, tokenLockEnabled, PasskeySpoke
  PROVE  OnlyPaysGas
<1> USE DEF OnlyPaysGas
<1>0. ~UNCHANGED signatureVars
  BY DEF PasskeySpoke, signatureVars
<1>1. \A c \in Calls : Authorised(c) =>
        c.by = "passkey" /\ c \in PasskeyCalls /\ GasAllowed(c.gas, TRUE)
  BY <1>0, AuthorisedSigns DEF PasskeyCalls
<1>2. ~(NextBlock \/ Unlock \/ Onboarding \/ Recovery)
  BY <1>0 DEF NextBlock, Unlock, Onboarding, Onboard, Recovery, RecoverInactiveWallet
<1>3. ~(Spending \/ Staking)
  BY <1>1 DEF Spending, StxTransfer, Sip010Transfer, Sip009Transfer,
       SbtcInitiateWithdrawal, Spend, SendUncapped, Staking, StakeStxJuice,
       UpdateStakeStxJuice, Unstake, LockStx, NotLockedOut
<1>4. CASE Settling
  <2>1. PICK i \in 1 .. MaxOps, c \in Calls : VetoOperation(i, c)
    BY <1>0, <1>4 DEF Settling, ExecutePending, ExecutePendingNow, ByAdmin
  <2>2. Len(pendingOperations') = Len(pendingOperations)
    BY <2>1 DEF VetoOperation, TypeOK
  <2>3. QED
    BY <1>1, <2>1, <2>2 DEF VetoOperation
<1>5. CASE PolicyChange
  <2>1. CASE \E c \in PasskeyCalls : ConfirmMaxGasAmount(c) \/ SetWalletConfig(c)
    BY <2>1 DEF ConfirmMaxGasAmount, SetWalletConfig, ByPasskey
  <2>2. CASE \E c \in Calls, enabled \in BOOLEAN : ToggleTokenLock(enabled, c)
    <3>1. PICK c \in Calls, enabled \in BOOLEAN : ToggleTokenLock(enabled, c)
      BY <2>2
    <3>2. enabled /\ Authorised(c) /\ PayGas(c.gas)
      BY <1>0, <3>1 DEF ToggleTokenLock, ByAdmin
    <3>3. tokenLockEnabled' = enabled /\ pendingOperations' = pendingOperations
      BY <3>1 DEF ToggleTokenLock
    <3>4. QED
      BY <1>1, <3>2, <3>3
  <2>3. QED
    BY <1>0, <1>5, <2>1, <2>2 DEF PolicyChange, ProposeMaxGasAmount, SignalConfigChange, ByAdmin
<1>6. CASE Handover
  BY <1>0, <1>6 DEF Handover, ProposeTransferWallet, ConfirmTransferWallet, ProposeRecovery,
       ConfirmRecovery, ByAdmin, ByPasskey
<1>7. QED
  BY <1>2, <1>3, <1>4, <1>5, <1>6 DEF Next

\* A gas fee is sBTC, and at most the limit.
LEMMA GasMovesNothingElse ==
  ASSUME TypeOK, OnlyPaysGas
  PROVE  /\ funds'.stx = funds.stx /\ funds'.staked = funds.staked
         /\ Drop("other") = 0 /\ Drop("nft") = 0
         /\ Drop("sbtc") <= maxGasAmount
         /\ Len(pendingOperations') = Len(pendingOperations)
         /\ tokenLockEnabled'
<1>1. PICK c \in PasskeyCalls, enforce \in BOOLEAN :
        GasAllowed(c.gas, enforce) /\ PayGas(c.gas)
  BY DEF OnlyPaysGas
<1>2. c.gas \in {NoGas} \cup GasFees /\ funds \in Ledger /\ maxGasAmount \in Nat
  BY DEF PasskeyCalls, Calls, TypeOK
<1>3. funds' = FundsAfterGas(c.gas)
  BY <1>1 DEF PayGas
<1>4. CASE c.gas = NoGas
  BY <1>2, <1>3, <1>4 DEF OnlyPaysGas, FundsAfterGas, Drop, Held, Ledger
<1>5. CASE c.gas # NoGas
  <2>1. c.gas \in Nat /\ c.gas <= maxGasAmount
    BY <1>1, <1>2, <1>5, InputsAssumption DEF GasAllowed
  <2>2. funds' = [funds EXCEPT !.sbtc = @ - c.gas]
    BY <1>3, <1>5 DEF FundsAfterGas
  <2>3. QED
    BY <1>2, <2>1, <2>2 DEF OnlyPaysGas, Drop, Held, Ledger
<1>6. QED
  BY <1>4, <1>5

\* While the token lock is on, a passkey moves its gas fee and nothing else,
\* queues nothing, stakes nothing and cannot release the lock (the assertion
\* on token-lock-enabled in every spending and staking entry point,
\* toggle-token-lock).
THEOREM LockConfinesPasskey == Spec => LockHoldsPasskey
<1>1. TypeOK /\ [Next]_vars =>
        [tokenLockEnabled /\ PasskeySpoke =>
           /\ funds'.stx = funds.stx /\ funds'.staked = funds.staked
           /\ Drop("other") = 0 /\ Drop("nft") = 0
           /\ Drop("sbtc") <= maxGasAmount
           /\ Len(pendingOperations') = Len(pendingOperations)
           /\ tokenLockEnabled']_vars
  <2> SUFFICES ASSUME TypeOK, Next, tokenLockEnabled, PasskeySpoke
               PROVE  /\ funds'.stx = funds.stx /\ funds'.staked = funds.staked
                      /\ Drop("other") = 0 /\ Drop("nft") = 0
                      /\ Drop("sbtc") <= maxGasAmount
                      /\ Len(pendingOperations') = Len(pendingOperations)
                      /\ tokenLockEnabled'
    BY DEF PasskeySpoke, vars, signatureVars
  <2>1. QED
    BY LockedSteps, GasMovesNothingElse
<1>2. QED
  BY <1>1, TypeCorrect, PTL DEF Spec, LockHoldsPasskey

-----------------------------------------------------------------------------
(* The three ways out.                                                      *)

\* A passkey call has paid `gas` when one of these happens to the capped assets:
\* nothing more, a counted transfer, or the payment of a queued operation.
NothingMore(gas) ==
  /\ spentThisPeriod' = SpentAfterGas(gas)
  /\ \A asset \in {"stx", "sbtc"} : Held(funds', asset) = Held(FundsAfterGas(gas), asset)
Counted(gas, asset, cost) ==
  /\ ~WouldExceed(SpentAfterGas(gas), asset, cost)
  /\ spentThisPeriod' = AddSpent(SpentAfterGas(gas), asset, cost)
  /\ funds' = [FundsAfterGas(gas) EXCEPT ![asset] = @ - cost]
Settled(gas, i) ==
  LET op == pendingOperations[i]
  IN  /\ JustExecuted(i)
      /\ \/ burnHeight >= op.executeAfter
         \/ PasskeySpoke /\ ~op.passkeyCreated
      /\ spentThisPeriod' = SpentAfterGas(gas)
      /\ funds' = [FundsAfterGas(gas) EXCEPT ![AssetOf(op)] = @ - CostOf(op)]
Out(gas) ==
  \/ NothingMore(gas)
  \/ \E asset \in {"stx", "sbtc"}, cost \in Nat : Counted(gas, asset, cost)
  \/ \E i \in DOMAIN pendingOperations : Settled(gas, i)
\* Only a call that moves the seat is exempt from the cap of the period.
MoneyStep ==
  \E gas \in {NoGas} \cup GasFees, enforce \in BOOLEAN :
    /\ gas # NoGas => PasskeySpoke
    /\ GasAllowed(gas, enforce)
    /\ ~enforce => admins' # admins
    /\ Out(gas)

\* The gas of a call: none for the admin, a bounded fee for a passkey.
LEMMA AuthorisedGas ==
  ASSUME TypeOK, NEW c \in Calls, Authorised(c)
  PROVE  /\ c.gas \in {NoGas} \cup GasFees
         /\ c.gas # NoGas => PasskeySpoke
         /\ GasAllowed(c.gas, TRUE)
         /\ SpentAfterGas(c.gas) \in Counters /\ FundsAfterGas(c.gas) \in Ledger
<1>1. c.gas \in {NoGas} \cup GasFees
  BY DEF Calls
<1>2. c.gas # NoGas => PasskeySpoke
  BY AuthorisedSigns DEF ConsumeSignature, PasskeySpoke
<1>3. GasAllowed(c.gas, TRUE)
  BY AuthorisedSigns DEF GasAllowed
<1>4. QED
  BY <1>1, <1>2, <1>3, AuthorisedType

LEMMA ByPasskeyGas ==
  ASSUME NEW c \in PasskeyCalls, NEW enforce, ByPasskey(c, enforce)
  PROVE  /\ c.gas \in {NoGas} \cup GasFees /\ PasskeySpoke /\ GasAllowed(c.gas, enforce)
BY DEF PasskeyCalls, Calls, ByPasskey, ConsumeSignature, PasskeySpoke

\* Paying gas, or nothing, is a step of this kind.
LEMMA OnlyGas ==
  ASSUME NEW gas, PayGas(gas)
  PROVE  NothingMore(gas)
BY DEF PayGas, NothingMore

LEMMA NoGasAtAll ==
  ASSUME UNCHANGED spentThisPeriod,
         \A asset \in {"stx", "sbtc"} : Held(funds', asset) = Held(funds, asset)
  PROVE  MoneyStep
<1>1. NothingMore(NoGas)
  BY DEF NothingMore, SpentAfterGas, FundsAfterGas
<1>2. GasAllowed(NoGas, TRUE)
  BY DEF GasAllowed
<1>3. QED
  BY <1>1, <1>2 DEF MoneyStep, Out

LEMMA SpendOut ==
  ASSUME TypeOK, NEW asset \in {"stx", "sbtc"}, NEW type, NEW amount \in Nat,
         NEW maxFee \in Nat, NEW memo, NEW c \in Calls,
         Spend(asset, type, amount, maxFee, memo, c)
  PROVE  MoneyStep
<1>1. Authorised(c)
  BY DEF Spend
<1>2. NothingMore(c.gas) \/ Counted(c.gas, asset, amount + maxFee)
  BY DEF Spend, NothingMore, Counted
<1>3. amount + maxFee \in Nat
  OBVIOUS
<1>4. Out(c.gas)
  BY <1>2, <1>3 DEF Out
<1>5. QED
  BY <1>1, <1>4, AuthorisedGas DEF MoneyStep

LEMMA SendUncappedOut ==
  ASSUME TypeOK, NEW asset \in {"other", "nft"}, NEW amount \in Nat, NEW c \in Calls,
         SendUncapped(asset, amount, c)
  PROVE  MoneyStep
<1>1. Authorised(c)
  BY DEF SendUncapped
<1>2. NothingMore(c.gas)
  <2> DEFINE held == FundsAfterGas(c.gas)
  <2>1. held \in Ledger
    BY <1>1, AuthorisedGas
  <2>2. funds' = [held EXCEPT ![asset] = @ - amount]
    BY DEF SendUncapped
  <2> HIDE DEF held
  <2>3. funds'.stx = held.stx /\ funds'.staked = held.staked /\ funds'.sbtc = held.sbtc
    BY <2>1, <2>2 DEF Ledger
  <2>4. \A a \in {"stx", "sbtc"} : Held(funds', a) = Held(held, a)
    BY <2>3 DEF Held
  <2>5. QED
    BY <2>4 DEF NothingMore, SendUncapped, held
<1>3. QED
  BY <1>1, <1>2, AuthorisedGas DEF MoneyStep, Out

LEMMA LockStxOut ==
  ASSUME TypeOK, NEW amount \in Nat, NEW c \in Calls, LockStx(amount, c)
  PROVE  MoneyStep
<1>1. Authorised(c)
  BY DEF LockStx
<1>2. NothingMore(c.gas)
  <2> DEFINE held == FundsAfterGas(c.gas)
  <2>1. held \in Ledger
    BY <1>1, AuthorisedGas
  <2>2. funds' = [held EXCEPT !.stx = @ - amount, !.staked = @ + amount]
    BY DEF LockStx
  <2> HIDE DEF held
  <2>3. /\ funds'.stx = held.stx - amount /\ funds'.staked = held.staked + amount
        /\ funds'.sbtc = held.sbtc
    BY <2>1, <2>2 DEF Ledger
  <2>4. \A a \in {"stx", "sbtc"} : Held(funds', a) = Held(held, a)
    BY <2>1, <2>3 DEF Held, Ledger
  <2>5. QED
    BY <2>4 DEF NothingMore, LockStx, held
<1>3. QED
  BY <1>1, <1>2, AuthorisedGas DEF MoneyStep, Out

LEMMA SpendingOut ==
  ASSUME TypeOK, Spending
  PROVE  MoneyStep
<1>1. PICK c \in Calls :
        \/ \E m \in Memos :
             \/ \E a \in Amounts["stx"] : StxTransfer(a, m, c)
             \/ \E token \in {"sbtc", "other"} :
                  \E a \in Amounts[token] : Sip010Transfer(token, a, m, c)
        \/ \E w \in Withdrawals : SbtcInitiateWithdrawal(w.amount, w.maxFee, c)
        \/ Sip009Transfer(c)
  BY DEF Spending
<1>2. ASSUME NEW m \in Memos, NEW a \in Amounts["stx"], StxTransfer(a, m, c)
      PROVE  MoneyStep
  <2>1. a \in Nat /\ 0 \in Nat /\ "stx" \in {"stx", "sbtc"}
    BY InputsAssumption
  <2>2. QED
    BY <1>2, <2>1, SpendOut DEF StxTransfer
<1>3. ASSUME NEW m \in Memos, NEW token \in {"sbtc", "other"}, NEW a \in Amounts[token],
             Sip010Transfer(token, a, m, c)
      PROVE  MoneyStep
  <2>1. a \in Nat /\ 0 \in Nat /\ "sbtc" \in {"stx", "sbtc"} /\ "other" \in {"other", "nft"}
    BY InputsAssumption
  <2>2. QED
    BY <1>3, <2>1, SpendOut, SendUncappedOut DEF Sip010Transfer
<1>4. ASSUME NEW w \in Withdrawals, SbtcInitiateWithdrawal(w.amount, w.maxFee, c)
      PROVE  MoneyStep
  <2>1. w.amount \in Nat /\ w.maxFee \in Nat /\ "sbtc" \in {"stx", "sbtc"}
    BY InputsAssumption
  <2>2. QED
    BY <1>4, <2>1, SpendOut DEF SbtcInitiateWithdrawal
<1>5. ASSUME Sip009Transfer(c)
      PROVE  MoneyStep
  <2>1. "nft" \in {"other", "nft"} /\ 1 \in Nat
    OBVIOUS
  <2>2. QED
    BY <1>5, <2>1, SendUncappedOut DEF Sip009Transfer
<1>6. QED
  BY <1>1, <1>2, <1>3, <1>4, <1>5

LEMMA StakingOut ==
  ASSUME TypeOK, Staking
  PROVE  MoneyStep
<1>1. PICK c \in Calls : \/ \E a \in Stakes : StakeStxJuice(a, c)
                        \/ \E a \in Stakes \cup {0} : UpdateStakeStxJuice(a, c)
                        \/ Unstake(c)
  BY DEF Staking
<1>2. Stakes \subseteq Nat /\ 0 \in Nat
  BY InputsAssumption
<1>3. QED
  BY <1>1, <1>2, LockStxOut DEF StakeStxJuice, UpdateStakeStxJuice, Unstake

LEMMA SettlingOut ==
  ASSUME TypeOK, Settling
  PROVE  MoneyStep
<1>1. ASSUME NEW i, Payable(i),
             pendingOperations' = [pendingOperations EXCEPT ![i].executed = TRUE]
      PROVE  i \in DOMAIN pendingOperations /\ JustExecuted(i)
  <2>1. i \in DOMAIN pendingOperations /\ pendingOperations[i] \in Operation
    BY <1>1 DEF Payable, TypeOK
  <2>2. pendingOperations'[i] = [pendingOperations[i] EXCEPT !.executed = TRUE]
    BY <1>1, <2>1 DEF TypeOK
  <2>3. pendingOperations'[i].executed
    BY <2>1, <2>2 DEF Operation
  <2>4. QED
    BY <1>1, <2>1, <2>3 DEF Payable, JustExecuted
<1>2. ASSUME NEW i, NEW type, NEW u, ExecutePending(type, i, u)
      PROVE  MoneyStep
  <2>1. /\ i \in DOMAIN pendingOperations /\ JustExecuted(i)
        /\ burnHeight >= pendingOperations[i].executeAfter
    BY <1>1, <1>2 DEF ExecutePending, PayOut, CooldownPassed
  <2>2. Settled(NoGas, i)
    <3>1. SpentAfterGas(NoGas) = spentThisPeriod /\ FundsAfterGas(NoGas) = funds
      BY DEF SpentAfterGas, FundsAfterGas
    <3>2. UNCHANGED spentThisPeriod /\ PayOut(i, funds)
      BY <1>2 DEF ExecutePending
    <3>3. funds' = [funds EXCEPT ![AssetOf(pendingOperations[i])]
                                   = @ - CostOf(pendingOperations[i])]
      BY <3>2 DEF PayOut
    <3>4. QED
      BY <2>1, <3>1, <3>2, <3>3, Zenon DEF Settled
  <2>3. GasAllowed(NoGas, TRUE)
    BY DEF GasAllowed
  <2>4. QED
    BY <2>1, <2>2, <2>3 DEF MoneyStep, Out
<1>3. ASSUME NEW i, NEW type, NEW c \in PasskeyCalls, NEW m, ExecutePendingNow(type, i, m, c)
      PROVE  MoneyStep
  <2>1. i \in DOMAIN pendingOperations /\ JustExecuted(i)
    BY <1>1, <1>3 DEF ExecutePendingNow, PayOut
  <2>2. /\ c.gas \in {NoGas} \cup GasFees /\ PasskeySpoke /\ GasAllowed(c.gas, TRUE)
    BY <1>3, ByPasskeyGas DEF ExecutePendingNow
  <2>3. Settled(c.gas, i)
    BY <1>3, <2>1, <2>2 DEF ExecutePendingNow, PayOut, Settled, SecondFactor
  <2>4. QED
    BY <2>1, <2>2, <2>3 DEF MoneyStep, Out
<1>4. ASSUME NEW i, NEW c \in Calls, VetoOperation(i, c)
      PROVE  MoneyStep
  BY <1>4, AuthorisedGas, OnlyGas DEF VetoOperation, MoneyStep, Out
<1>5. QED
  BY <1>2, <1>3, <1>4 DEF Settling

LEMMA PolicyChangeOut ==
  ASSUME TypeOK, PolicyChange
  PROVE  MoneyStep
<1>1. ASSUME NEW c \in PasskeyCalls, ByPasskey(c, TRUE), PayGas(c.gas)
      PROVE  MoneyStep
  BY <1>1, ByPasskeyGas, OnlyGas DEF MoneyStep, Out
<1>2. ASSUME NEW c \in Calls, Authorised(c), PayGas(c.gas)
      PROVE  MoneyStep
  BY <1>2, AuthorisedGas, OnlyGas DEF MoneyStep, Out
<1>3. ASSUME UNCHANGED moneyVars
      PROVE  MoneyStep
  BY <1>3, NoGasAtAll DEF moneyVars
<1>4. ASSUME NEW c \in Calls, NEW enabled \in BOOLEAN, ToggleTokenLock(enabled, c)
      PROVE  MoneyStep
  BY <1>2, <1>3, <1>4 DEF ToggleTokenLock
<1>5. QED
  BY <1>1, <1>3, <1>4 DEF PolicyChange, ProposeMaxGasAmount, SignalConfigChange,
                          ConfirmMaxGasAmount, SetWalletConfig

LEMMA HandoverOut ==
  ASSUME TypeOK, OneSeat, Handover \/ Recovery
  PROVE  MoneyStep
<1>1. ASSUME UNCHANGED moneyVars
      PROVE  MoneyStep
  BY <1>1, NoGasAtAll DEF moneyVars
<1>2. ASSUME NEW c \in PasskeyCalls, NEW n, ProposeRecovery(n, c)
      PROVE  MoneyStep
  BY <1>2, ByPasskeyGas, OnlyGas DEF ProposeRecovery, MoneyStep, Out
<1>3. ASSUME NEW c \in PasskeyCalls, ConfirmTransferWallet(c)
      PROVE  MoneyStep
  <2>1. admins' # admins
    BY <1>3 DEF ConfirmTransferWallet, OneSeat
  <2>2. QED
    BY <1>3, <2>1, ByPasskeyGas, OnlyGas DEF ConfirmTransferWallet, MoneyStep, Out
<1>4. QED
  BY <1>1, <1>2, <1>3 DEF Handover, Recovery, ProposeTransferWallet, ConfirmRecovery,
                          RecoverInactiveWallet

LEMMA EveryStepIsAMoneyStep ==
  ASSUME TypeOK, OneSeat, Next
  PROVE  MoneyStep
<1>1. CASE NextBlock \/ Onboarding
  BY <1>1, NoGasAtAll DEF NextBlock, Onboarding, Onboard, moneyVars
<1>2. CASE Unlock
  <2>1. /\ funds \in Ledger
        /\ funds' = [funds EXCEPT !.stx = @ + funds.staked, !.staked = 0]
    BY <1>2 DEF Unlock, TypeOK
  <2>2. /\ funds'.stx = funds.stx + funds.staked /\ funds'.staked = 0
        /\ funds'.sbtc = funds.sbtc
    <3> DEFINE all == funds.stx + funds.staked
    <3>1. funds' = [funds EXCEPT !.stx = all, !.staked = 0]
      BY <2>1
    <3> HIDE DEF all
    <3>2. funds'.stx = all /\ funds'.staked = 0 /\ funds'.sbtc = funds.sbtc
      BY <2>1, <3>1 DEF Ledger
    <3>3. QED
      BY <3>2 DEF all
  <2>3. \A a \in {"stx", "sbtc"} : Held(funds', a) = Held(funds, a)
    <3>1. funds.stx \in Nat /\ funds.staked \in Nat
      BY <2>1 DEF Ledger
    <3>2. funds'.stx + funds'.staked = funds.stx + funds.staked
      BY <2>2, <3>1
    <3>3. QED
      BY <2>2, <3>2 DEF Held
  <2>4. QED
    BY <1>2, <2>3, NoGasAtAll DEF Unlock
<1>3. QED
  BY <1>1, <1>2, SpendingOut, StakingOut, SettlingOut, PolicyChangeOut, HandoverOut DEF Next

-----------------------------------------------------------------------------
(* What the counters say of it.                                             *)

\* Gas opens the period that the transfer after it is counted in.
LEMMA CounterAfterGas ==
  ASSUME TypeOK, NEW gas \in {NoGas} \cup GasFees, NEW enforce \in BOOLEAN,
         GasAllowed(gas, enforce)
  PROVE  /\ SpentAfterGas(gas) \in Counters /\ FundsAfterGas(gas) \in Ledger
         /\ \A asset \in {"stx", "sbtc"} :
              CurrentSpent(SpentAfterGas(gas))[asset] = CurrentSpent(spentThisPeriod)[asset]
         /\ gas # NoGas =>
              CurrentSpent(SpentAfterGas(gas)).gas = CurrentSpent(spentThisPeriod).gas + gas
         /\ gas = NoGas => SpentAfterGas(gas) = spentThisPeriod
<1> DEFINE now == CurrentSpent(spentThisPeriod)
<1>1. SpentAfterGas(gas) \in Counters /\ FundsAfterGas(gas) \in Ledger
  BY GasType
<1>2. CASE gas = NoGas
  BY <1>1, <1>2 DEF SpentAfterGas
<1>3. CASE gas # NoGas
  <2>1. now \in Counters /\ gas \in Nat
    BY <1>3, CurrentSpentType, InputsAssumption DEF TypeOK
  <2>2. SpentAfterGas(gas) = [now EXCEPT !.gas = @ + gas]
    BY <1>3 DEF SpentAfterGas, AddSpent
  <2>3. ~PeriodExpired(now)
    <3>1. burnHeight \in Nat /\ walletConfig.cooldown \in Nat
      BY DEF TypeOK
    <3>2. CASE PeriodExpired(spentThisPeriod)
      BY <3>1, <3>2 DEF CurrentSpent, PeriodExpired
    <3>3. CASE ~PeriodExpired(spentThisPeriod)
      BY <3>3 DEF CurrentSpent
    <3>4. QED
      BY <3>2, <3>3
  <2> HIDE DEF now
  <2>4. SpentAfterGas(gas).periodStart = now.periodStart
    BY <2>1, <2>2 DEF Counters
  <2>5. CurrentSpent(SpentAfterGas(gas)) = SpentAfterGas(gas)
    BY <2>3, <2>4 DEF CurrentSpent, PeriodExpired
  <2>6. /\ SpentAfterGas(gas).stx = now.stx /\ SpentAfterGas(gas).sbtc = now.sbtc
        /\ SpentAfterGas(gas).gas = now.gas + gas
    BY <2>1, <2>2 DEF Counters
  <2>7. QED
    BY <1>1, <1>3, <2>5, <2>6 DEF now
<1>4. QED
  BY <1>2, <1>3

LEMMA HeldType ==
  ASSUME NEW f \in Ledger, NEW asset \in {"stx", "sbtc"}
  PROVE  Held(f, asset) \in Nat
BY DEF Ledger, Held

\* The gas fee is a drop of the sBTC balance and of nothing else.
LEMMA HeldAfterGas ==
  ASSUME TypeOK, NEW gas \in {NoGas} \cup GasFees, NEW enforce \in BOOLEAN,
         GasAllowed(gas, enforce), gas # NoGas => PasskeySpoke,
         NEW asset \in {"stx", "sbtc"}
  PROVE  \E g \in IF asset = "sbtc" /\ PasskeySpoke THEN 0 .. maxGasAmount ELSE {0} :
           /\ g \in Nat /\ (g = 0 \/ (gas # NoGas /\ g = gas))
           /\ Held(FundsAfterGas(gas), asset) = Held(funds, asset) - g
<1>1. /\ funds \in Ledger /\ maxGasAmount \in Nat
      /\ Held(funds, asset) \in Nat
  BY DEF TypeOK, Ledger, Held
<1>2. CASE gas = NoGas \/ asset = "stx"
  <2>1. Held(FundsAfterGas(gas), asset) = Held(funds, asset)
    <3>1. CASE gas = NoGas
      BY <3>1 DEF FundsAfterGas
    <3>2. CASE gas # NoGas /\ asset = "stx"
      <4>1. FundsAfterGas(gas) = [funds EXCEPT !.sbtc = @ - gas]
        BY <3>2 DEF FundsAfterGas
      <4>2. FundsAfterGas(gas).stx = funds.stx /\ FundsAfterGas(gas).staked = funds.staked
        BY <1>1, <4>1 DEF Ledger
      <4>3. QED
        BY <3>2, <4>2 DEF Held
    <3>3. QED
      BY <1>2, <3>1, <3>2
  <2>2. 0 \in IF asset = "sbtc" /\ PasskeySpoke THEN 0 .. maxGasAmount ELSE {0}
    BY <1>1
  <2>3. Held(funds, asset) = Held(funds, asset) - 0
    BY <1>1
  <2>4. QED
    BY <2>1, <2>2, <2>3
<1>3. CASE gas # NoGas /\ asset = "sbtc"
  <2>1. gas \in Nat /\ gas <= maxGasAmount /\ PasskeySpoke
    BY <1>3, InputsAssumption DEF GasAllowed
  <2>2. FundsAfterGas(gas) = [funds EXCEPT !.sbtc = @ - gas]
    BY <1>3 DEF FundsAfterGas
  <2>3. FundsAfterGas(gas).sbtc = funds.sbtc - gas
    BY <1>1, <2>2 DEF Ledger
  <2>4. Held(FundsAfterGas(gas), asset) = Held(funds, asset) - gas
    BY <1>3, <2>3 DEF Held
  <2>5. gas \in 0 .. maxGasAmount
    BY <1>1, <2>1
  <2>6. QED
    BY <1>3, <2>1, <2>4, <2>5
<1>4. QED
  BY <1>2, <1>3

\* A payment takes its cost from its own asset.
LEMMA HeldAfterPayment ==
  ASSUME NEW held \in Ledger, NEW paidFrom \in {"stx", "sbtc"}, NEW cost \in Nat,
         funds' = [held EXCEPT ![paidFrom] = @ - cost], NEW asset \in {"stx", "sbtc"}
  PROVE  Held(funds', asset) = IF asset = paidFrom THEN Held(held, asset) - cost
                                                   ELSE Held(held, asset)
<1>1. CASE paidFrom = "stx"
  <2>1. /\ funds'.stx = held.stx - cost /\ funds'.staked = held.staked
        /\ funds'.sbtc = held.sbtc
    BY <1>1 DEF Ledger
  <2>2. held.stx \in Nat /\ held.staked \in Nat
    BY DEF Ledger
  <2>3. (held.stx - cost) + held.staked = (held.stx + held.staked) - cost
    BY <2>2
  <2>4. QED
    BY <1>1, <2>1, <2>3 DEF Held
<1>2. CASE paidFrom = "sbtc"
  <2>1. /\ funds'.stx = held.stx /\ funds'.staked = held.staked
        /\ funds'.sbtc = held.sbtc - cost
    BY <1>2 DEF Ledger
  <2>2. QED
    BY <1>2, <2>1 DEF Held
<1>3. QED
  BY <1>1, <1>2

\* The promise of OutflowAccounted for one asset.
Accounted(asset) ==
  \E g \in IF asset = "sbtc" /\ PasskeySpoke THEN 0 .. maxGasAmount ELSE {0} :
    LET paid == Drop(asset) - g
    IN  /\ GasCounted(g)
        /\ \/ paid = 0
           \/ /\ spentThisPeriod'[asset] = CurrentSpent(spentThisPeriod)[asset] + paid
              /\ spentThisPeriod'[asset] <= walletConfig[asset]
           \/ \E i \in DOMAIN pendingOperations :
                LET op == pendingOperations[i]
                IN  /\ JustExecuted(i) /\ AssetOf(op) = asset /\ CostOf(op) = paid
                    /\ \/ burnHeight >= op.created + MinCooldown
                       \/ PasskeySpoke /\ ~op.passkeyCreated

\* Whatever else a call does, the counter shows the gas it paid.
LEMMA GasShows ==
  ASSUME TypeOK, NEW gas \in {NoGas} \cup GasFees, NEW enforce \in BOOLEAN,
         GasAllowed(gas, enforce), Out(gas), gas # NoGas
  PROVE  spentThisPeriod'.gas = CurrentSpent(spentThisPeriod).gas + gas
<1> DEFINE spent == SpentAfterGas(gas)
           now == CurrentSpent(spent)
<1>1. spent \in Counters /\ now \in Counters
  BY CounterAfterGas, CurrentSpentType
<1>2. now.gas = CurrentSpent(spentThisPeriod).gas + gas
  BY CounterAfterGas
<1>3. spent.gas = CurrentSpent(spentThisPeriod).gas + gas
  <2>1. CurrentSpent(spentThisPeriod) \in Counters
    BY CurrentSpentType DEF TypeOK
  <2>2. spent = [CurrentSpent(spentThisPeriod) EXCEPT !.gas = @ + gas]
    BY DEF SpentAfterGas, AddSpent
  <2>3. QED
    BY <2>1, <2>2 DEF Counters
<1>4. spentThisPeriod' = spent \/ spentThisPeriod'.gas = now.gas
  <2>1. ASSUME NEW asset \in {"stx", "sbtc"}, NEW cost \in Nat, Counted(gas, asset, cost)
        PROVE  spentThisPeriod'.gas = now.gas
    <3>1. spentThisPeriod' = [now EXCEPT ![asset] = @ + cost]
      BY <2>1 DEF Counted, AddSpent
    <3> HIDE DEF now
    <3>2. QED
      BY <1>1, <3>1 DEF Counters
  <2>2. QED
    BY <2>1 DEF Out, NothingMore, Settled
<1>5. QED
  BY <1>2, <1>3, <1>4

\* What a money step takes from an asset is gas, counted, or settled.
LEMMA EveryAssetAccounted ==
  ASSUME TypeOK, QueueSound, MoneyStep, NEW asset \in {"stx", "sbtc"}
  PROVE  Accounted(asset)
<1>1. PICK gas \in {NoGas} \cup GasFees, enforce \in BOOLEAN :
        /\ gas # NoGas => PasskeySpoke
        /\ GasAllowed(gas, enforce)
        /\ Out(gas)
  BY DEF MoneyStep
<1> DEFINE held == FundsAfterGas(gas)
           spent == SpentAfterGas(gas)
<1>2. PICK g \in IF asset = "sbtc" /\ PasskeySpoke THEN 0 .. maxGasAmount ELSE {0} :
        /\ g \in Nat /\ (g = 0 \/ (gas # NoGas /\ g = gas))
        /\ Held(held, asset) = Held(funds, asset) - g
  BY <1>1, HeldAfterGas
<1>3. GasCounted(g)
  BY <1>1, <1>2, GasShows DEF GasCounted
<1>4. held \in Ledger /\ spent \in Counters
  BY <1>1, GasType
<1>5. Held(held, asset) \in Nat /\ Held(funds, asset) \in Nat
  <2>1. funds \in Ledger
    BY DEF TypeOK
  <2> HIDE DEF held
  <2>2. QED
    BY <1>4, <2>1, HeldType
<1>6. CASE NothingMore(gas)
  <2>1. Held(funds', asset) = Held(held, asset)
    BY <1>6 DEF NothingMore
  <2>2. Drop(asset) - g = 0
    BY <1>2, <1>5, <2>1 DEF Drop
  <2>3. QED
    BY <1>2, <1>3, <2>2 DEF Accounted
<1>7. ASSUME NEW from \in {"stx", "sbtc"}, NEW cost \in Nat, Counted(gas, from, cost)
      PROVE  Accounted(asset)
  <2>1. Held(funds', asset) = IF asset = from THEN Held(held, asset) - cost
                                              ELSE Held(held, asset)
    <3>1. funds' = [held EXCEPT ![from] = @ - cost]
      BY <1>7 DEF Counted
    <3> HIDE DEF held
    <3>2. QED
      BY <1>4, <3>1, HeldAfterPayment
  <2>2. CASE asset # from
    <3>1. Drop(asset) - g = 0
      BY <1>2, <1>5, <2>1, <2>2 DEF Drop
    <3>2. QED
      BY <1>2, <1>3, <3>1 DEF Accounted
  <2>3. CASE asset = from
    <3>1. Drop(asset) - g = cost
      BY <1>2, <1>5, <2>1, <2>3 DEF Drop
    <3>2. spentThisPeriod'[asset] = CurrentSpent(spentThisPeriod)[asset] + cost
      <4>1. spentThisPeriod' = [CurrentSpent(spent) EXCEPT ![asset] = @ + cost]
        BY <1>7, <2>3 DEF Counted, AddSpent
      <4>2. CurrentSpent(spent) \in Counters
        BY <1>4, CurrentSpentType
      <4>3. spentThisPeriod'[asset] = CurrentSpent(spent)[asset] + cost
        BY <4>1, <4>2 DEF Counters
      <4>4. QED
        BY <1>1, <4>3, CounterAfterGas
    <3>3. spentThisPeriod'[asset] <= walletConfig[asset]
      <4>1. CurrentSpent(spent)[asset] + cost <= walletConfig[asset]
        <5>1. CurrentSpent(spent)[asset] \in Nat /\ walletConfig[asset] \in Nat
          BY <1>4, CurrentSpentType DEF TypeOK, Counters
        <5>2. ~(CurrentSpent(spent)[asset] + cost > walletConfig[asset])
          BY <1>7, <2>3 DEF Counted, WouldExceed
        <5>3. QED
          BY <5>1, <5>2
      <4>2. CurrentSpent(spent)[asset] = CurrentSpent(spentThisPeriod)[asset]
        BY <1>1, CounterAfterGas
      <4>3. QED
        BY <3>2, <4>1, <4>2
    <3>4. QED
      BY <1>2, <1>3, <3>1, <3>2, <3>3 DEF Accounted
  <2>4. QED
    BY <2>2, <2>3
<1>8. ASSUME NEW i \in DOMAIN pendingOperations, Settled(gas, i)
      PROVE  Accounted(asset)
  <2> DEFINE op == pendingOperations[i]
  <2>1. op \in Operation
    BY DEF TypeOK
  <2>2. CostOf(op) \in Nat /\ AssetOf(op) \in {"stx", "sbtc"}
    BY <2>1 DEF CostOf, AssetOf, Operation
  <2>3. Held(funds', asset) = IF asset = AssetOf(op) THEN Held(held, asset) - CostOf(op)
                                                     ELSE Held(held, asset)
    <3>1. funds' = [held EXCEPT ![AssetOf(op)] = @ - CostOf(op)]
      BY <1>8 DEF Settled
    <3> HIDE DEF held, op
    <3>2. QED
      BY <1>4, <2>2, <3>1, HeldAfterPayment
  <2>4. CASE asset # AssetOf(op)
    <3>1. Drop(asset) - g = 0
      BY <1>2, <1>5, <2>3, <2>4 DEF Drop
    <3>2. QED
      BY <1>2, <1>3, <3>1 DEF Accounted
  <2>5. CASE asset = AssetOf(op)
    <3>1. Drop(asset) - g = CostOf(op)
      BY <1>2, <1>5, <2>2, <2>3, <2>5 DEF Drop
    <3>2. JustExecuted(i)
      BY <1>8 DEF Settled
    <3>3. burnHeight >= op.created + MinCooldown \/ (PasskeySpoke /\ ~op.passkeyCreated)
      <4>1. op.executeAfter >= op.created + MinCooldown
        <5>1. op.executeAfter \in op.created + MinCooldown .. op.created + MaxCooldown
          BY Zenon DEF QueueSound
        <5>2. op.created + MinCooldown \in Nat /\ op.created + MaxCooldown \in Nat
          BY <2>1, LimitsAssumption DEF Operation
        <5> HIDE DEF op
        <5>3. QED
          BY <5>1, <5>2
      <4>2. burnHeight \in Nat /\ op.executeAfter \in Nat /\ op.created + MinCooldown \in Nat
        <5>1. burnHeight \in Nat
          BY DEF TypeOK
        <5> HIDE DEF op
        <5>2. op.executeAfter \in Nat /\ op.created + MinCooldown \in Nat
          BY <2>1, LimitsAssumption DEF Operation
        <5>3. QED
          BY <5>1, <5>2
      <4>3. burnHeight >= op.executeAfter \/ (PasskeySpoke /\ ~op.passkeyCreated)
        BY <1>8 DEF Settled
      <4>4. QED
        BY <4>1, <4>2, <4>3
    <3>4. QED
      BY <1>2, <1>3, <2>5, <3>1, <3>2, <3>3 DEF Accounted
  <2>6. QED
    BY <2>4, <2>5
<1>9. QED
  BY <1>1, <1>6, <1>7, <1>8 DEF Out

\* Money leaves the safe in three ways only: within the threshold and counted in
\* the period; as a queued operation of that very cost, after the minimum
\* cooldown or with the passkey's countersignature; or as a passkey call's gas
\* (stx-transfer, sip010-transfer, sbtc-initiate-withdrawal, execute-pending
\* functions, pay-gas-accounted).
THEOREM NothingLeavesUnaccounted == Spec => OutflowAccounted
<1>1. TypeOK /\ OneSeat /\ QueueSound /\ [Next]_vars =>
        [\A asset \in {"stx", "sbtc"} : Accounted(asset)]_vars
  BY EveryAssetAccounted, EveryStepIsAMoneyStep
<1>2. Spec => [][\A asset \in {"stx", "sbtc"} : Accounted(asset)]_vars
  BY <1>1, TypeCorrect, SeatsAreSound, QueueStaysSound, PTL DEF Spec
<1>3. [\A asset \in {"stx", "sbtc"} : Accounted(asset)]_vars =>
      [\A asset \in {"stx", "sbtc"} :
         LET gas == IF asset = "sbtc" /\ PasskeySpoke THEN 0 .. maxGasAmount ELSE {0}
         IN  \E g \in gas :
               LET paid == Drop(asset) - g
               IN  /\ GasCounted(g)
                   /\ \/ paid = 0
                      \/ /\ spentThisPeriod'[asset] = CurrentSpent(spentThisPeriod)[asset] + paid
                         /\ spentThisPeriod'[asset] <= walletConfig[asset]
                      \/ \E i \in DOMAIN pendingOperations :
                           LET op == pendingOperations[i]
                           IN  /\ JustExecuted(i) /\ AssetOf(op) = asset /\ CostOf(op) = paid
                               /\ \/ burnHeight >= op.created + MinCooldown
                                  \/ PasskeySpoke /\ ~op.passkeyCreated]_vars
  BY DEF Accounted
<1>4. QED
  BY <1>2, <1>3, PTL DEF OutflowAccounted

\* Gas is checked against the counter of the period it falls in; only the
\* handover, which changes the admins, is exempt.
LEMMA FuseStep ==
  ASSUME TypeOK, MoneyStep, admins' = admins
  PROVE  \/ spentThisPeriod'.gas <= MaxGasPerPeriod
         \/ spentThisPeriod'.gas = spentThisPeriod.gas
<1>1. PICK gas \in {NoGas} \cup GasFees :
        GasAllowed(gas, TRUE) /\ Out(gas)
  BY DEF MoneyStep
<1>2. CASE gas # NoGas
  BY <1>1, <1>2, GasShows DEF GasAllowed
<1>3. CASE gas = NoGas
  <2> DEFINE now == CurrentSpent(spentThisPeriod)
  <2>1. SpentAfterGas(gas) = spentThisPeriod /\ now \in Counters
    BY <1>3, CurrentSpentType DEF SpentAfterGas, TypeOK
  <2>2. now.gas = 0 \/ now.gas = spentThisPeriod.gas
    BY DEF CurrentSpent
  <2>3. 0 <= MaxGasPerPeriod
    BY LimitsAssumption DEF MaxGasPerPeriod, TypeOK
  <2>4. ASSUME NEW asset \in {"stx", "sbtc"}, NEW cost \in Nat, Counted(gas, asset, cost)
        PROVE  spentThisPeriod'.gas = now.gas
    <3>1. spentThisPeriod' = [now EXCEPT ![asset] = @ + cost]
      BY <2>1, <2>4 DEF Counted, AddSpent
    <3> HIDE DEF now
    <3>2. QED
      BY <2>1, <3>1 DEF Counters
  <2>5. spentThisPeriod' = spentThisPeriod \/ spentThisPeriod'.gas = now.gas
    BY <1>1, <2>1, <2>4 DEF Out, NothingMore, Settled
  <2>6. QED
    BY <2>2, <2>3, <2>5
<1>4. QED
  BY <1>2, <1>3

\* A gas fee never takes the period's gas above the cap, however other calls, a
\* lowered limit or the exempt handover moved the counter before
\* (pay-gas-accounted with GAS-ENFORCED).
THEOREM GasStaysFused == Spec => GasFuse
<1>1. TypeOK /\ OneSeat /\ [Next]_vars =>
        [PasskeySpoke /\ admins' = admins =>
           \/ spentThisPeriod'.gas <= MaxGasPerPeriod
           \/ spentThisPeriod'.gas = spentThisPeriod.gas]_vars
  <2> SUFFICES ASSUME TypeOK, OneSeat, Next, admins' = admins
               PROVE  \/ spentThisPeriod'.gas <= MaxGasPerPeriod
                      \/ spentThisPeriod'.gas = spentThisPeriod.gas
    BY DEF vars
  <2>1. QED
    BY FuseStep, EveryStepIsAMoneyStep
<1>2. QED
  BY <1>1, TypeCorrect, SeatsAreSound, PTL DEF Spec, GasFuse
=============================================================================
