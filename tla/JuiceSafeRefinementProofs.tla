--------------------- MODULE JuiceSafeRefinementProofs ---------------------
(***************************************************************************)
(* The safe's queue of operations implements PaymentQueue, its policy and  *)
(* gas limit implement Timelock, nobody takes an active wallet over, and   *)
(* the safe under its core implements the safe: for every bound and every  *)
(* legal value of the limits.                                              *)
(***************************************************************************)
EXTENDS JuiceSafeRefinement, SafeUnderCore, JuiceSafeProofs

Ids == 1 .. MaxOps

\* A step that rewrites one queue entry changes one payment at most.
LEMMA OnePayment ==
  ASSUME TypeOK, NEW i \in DOMAIN pendingOperations, NEW op,
         pendingOperations' = [pendingOperations EXCEPT ![i] = op],
         op.executeAfter = pendingOperations[i].executeAfter,
         op.passkeyCreated = pendingOperations[i].passkeyCreated,
         CostOf(op) = CostOf(pendingOperations[i]), i \in Ids
  PROVE  /\ \A j \in Ids \ {i} : Payments'[j] = Payments[j]
         /\ Payments'[i] = [Payments[i] EXCEPT !.status = Status(op)]
<1>1. DOMAIN pendingOperations' = DOMAIN pendingOperations
  OBVIOUS
<1>2. pendingOperations'[i] = op
  BY DEF TypeOK
<1>3. \A j \in DOMAIN pendingOperations \ {i} : pendingOperations'[j] = pendingOperations[j]
  BY DEF TypeOK
<1>4. \A j \in Ids \ {i} : Payments'[j] = Payments[j]
  BY <1>1, <1>3 DEF Payments, Ids
<1>5. Payments'[i] = [Payments[i] EXCEPT !.status = Status(op)]
  BY <1>1, <1>2 DEF Payments, Ids
<1>6. QED
  BY <1>4, <1>5

LEMMA QueueImplementsStep ==
  ASSUME TypeOK, PolicyLegal, QueueStep
  PROVE  [Queue!Next]_Payments
<1>1. CASE UNCHANGED pendingOperations
  BY <1>1 DEF Payments
<1>2. ASSUME NEW op, Appended(op)
      PROVE  Queue!Next
  <2> DEFINE i == Len(pendingOperations) + 1
  <2>1. /\ pendingOperations \in Seq(Operation) /\ MaxOps \in Nat
        /\ Len(pendingOperations) \in Nat /\ Len(pendingOperations) < MaxOps
        /\ pendingOperations' = Append(pendingOperations, op)
    BY <1>2, LimitsAssumption DEF TypeOK, Appended
  <2>2. i \in Ids /\ i \notin DOMAIN pendingOperations
    BY <2>1 DEF Ids
  <2>3. /\ DOMAIN pendingOperations' = DOMAIN pendingOperations \cup {i}
        /\ pendingOperations'[i] = op
        /\ \A j \in DOMAIN pendingOperations : pendingOperations'[j] = pendingOperations[j]
    BY <1>2, <2>1 DEF Appended
  <2>4. \A j \in Ids \ {i} : Payments'[j] = Payments[j]
    BY <2>3 DEF Payments, Ids
  <2>5. Payments[i].status = "absent"
    BY <2>2 DEF Payments, Ids
  <2>6. Payments'[i].status = "pending" /\ Payments'[i].due = burnHeight + walletConfig.cooldown
    BY <1>2, <2>2, <2>3 DEF Payments, Ids, Appended, Status
  <2>7. burnHeight + walletConfig.cooldown \in burnHeight + MinCooldown .. burnHeight + MaxCooldown
    <3>1. walletConfig.cooldown \in MinCooldown .. MaxCooldown /\ burnHeight \in Nat
      BY DEF PolicyLegal, TypeOK
    <3>2. QED
      BY <3>1, LimitsAssumption
  <2>8. QED
    BY <2>2, <2>4, <2>5, <2>6, <2>7 DEF Queue!Next, Queue!Queue, Ids
<1>3. ASSUME NEW i, Executed(i)
      PROVE  [Queue!Next]_Payments
  <2> DEFINE op == pendingOperations[i]
             done == [op EXCEPT !.executed = TRUE]
  <2>1. /\ i \in DOMAIN pendingOperations /\ op \in Operation
        /\ ~op.executed /\ ~op.vetoed
        /\ pendingOperations' = [pendingOperations EXCEPT ![i] = done]
    BY <1>3 DEF Executed, Payable, TypeOK
  <2>2. CASE i \in Ids
    <3>1. /\ \A j \in Ids \ {i} : Payments'[j] = Payments[j]
          /\ Payments'[i] = [Payments[i] EXCEPT !.status = Status(done)]
      BY <2>1, <2>2, OnePayment DEF Operation, CostOf
    <3>2. Status(done) = "paid"
      BY <2>1 DEF Status, Operation
    <3>3. Payments[i] = [status |-> "pending", due |-> op.executeAfter,
                         fromPasskey |-> op.passkeyCreated, cost |-> CostOf(op)]
      BY <2>1, <2>2 DEF Payments, Ids, Status
    <3>4. CASE CooldownPassed(op)
      BY <2>2, <3>1, <3>2, <3>3, <3>4
      DEF Queue!Next, Queue!PayWhenDue, Queue!Settle, Ids, CooldownPassed
    <3>5. CASE SecondFactor(op) /\ usedAssertions' # usedAssertions
      BY <2>2, <3>1, <3>2, <3>3, <3>5
      DEF Queue!Next, Queue!PayCountersigned, Queue!Settle, Ids, SecondFactor
    <3>6. QED
      BY <1>3, <3>4, <3>5 DEF Executed
  <2>3. CASE i \notin Ids
    BY <2>1, <2>3 DEF Payments, Ids, TypeOK
  <2>4. QED
    BY <2>2, <2>3
<1>4. ASSUME NEW i, Vetoed(i)
      PROVE  [Queue!Next]_Payments
  <2> DEFINE op == pendingOperations[i]
             stopped == [op EXCEPT !.vetoed = TRUE]
  <2>1. /\ i \in DOMAIN pendingOperations /\ op \in Operation /\ ~op.executed
        /\ pendingOperations' = [pendingOperations EXCEPT ![i] = stopped]
    BY <1>4 DEF Vetoed, TypeOK
  <2>2. CASE i \in Ids /\ ~op.vetoed
    <3>1. /\ \A j \in Ids \ {i} : Payments'[j] = Payments[j]
          /\ Payments'[i] = [Payments[i] EXCEPT !.status = Status(stopped)]
      BY <2>1, <2>2, OnePayment DEF Operation, CostOf
    <3>2. Status(stopped) = "vetoed"
      BY <2>1 DEF Status, Operation
    <3>3. Payments[i].status = "pending"
      BY <2>1, <2>2 DEF Payments, Ids, Status
    <3>4. QED
      BY <2>2, <3>1, <3>2, <3>3 DEF Queue!Next, Queue!Veto, Queue!Settle, Ids
  <2>3. CASE i \notin Ids
    BY <2>1, <2>3 DEF Payments, Ids, TypeOK
  <2>4. CASE op.vetoed
    <3>1. stopped = op
      BY <2>1, <2>4 DEF Operation
    <3>2. UNCHANGED pendingOperations
      BY <2>1, <3>1 DEF TypeOK
    <3>3. QED
      BY <3>2 DEF Payments
  <2>5. QED
    BY <2>2, <2>3, <2>4
<1>5. QED
  BY <1>1, <1>2, <1>3, <1>4 DEF QueueStep

\* Every operation the safe queues keeps the promise of PaymentQueue: settled
\* once, its cost and the end of its delay never changed, paid then or with the
\* passkey's countersignature of what the admin queued (pending-operations,
\* execute-pending-*, execute-pending-*-now, veto-operation).
THEOREM SafeImplementsPaymentQueue == Spec => PaymentsKeepPromise
<1>1. Init => Queue!Init
  BY DEF Init, Queue!Init, Queue!Absent, Payments
<1>2. TypeOK /\ PolicyLegal /\ [Next]_vars => [Queue!Next]_Payments
  <2>1. CASE UNCHANGED vars
    BY <2>1 DEF vars, Payments
  <2>2. QED
    BY <2>1, QueueStepOfNext, QueueImplementsStep
<1>3. QED
  BY <1>1, <1>2, TypeCorrect, PolicyStaysLegal, PTL DEF Spec, PaymentsKeepPromise, Queue!Spec

-----------------------------------------------------------------------------
\* Every entry point that succeeds refreshes the clock; recover-inactive-wallet
\* asks for the whole period since.
LEMMA ActivityStep ==
  ASSUME TypeOK, Next
  PROVE  /\ burnHeight' = burnHeight /\ ~Unlock => lastActivityBlock' = burnHeight
         /\ admins' # admins /\ ~PasskeySpoke /\ pubkeyInitialized
              => burnHeight > lastActivityBlock + Inactivity
<1> USE DEF UpdateActivity, seatVars
<1>1. CASE NextBlock \/ Unlock
  BY <1>1 DEF NextBlock, Unlock, TypeOK
<1>2. CASE Onboarding
  BY <1>2 DEF Onboarding, Onboard
<1>3. CASE Spending \/ Staking
  BY <1>3 DEF Spending, StxTransfer, Sip010Transfer, Sip009Transfer,
    SbtcInitiateWithdrawal, Spend, SendUncapped, Staking, StakeStxJuice,
    UpdateStakeStxJuice, Unstake, LockStx
<1>4. CASE Settling
  BY <1>4 DEF Settling, ExecutePending, ExecutePendingNow, PayOut, VetoOperation
<1>5. CASE PolicyChange
  BY <1>5 DEF PolicyChange, ProposeMaxGasAmount, SignalConfigChange,
    ConfirmMaxGasAmount, SetWalletConfig, ToggleTokenLock
<1>6. CASE Handover
  BY <1>6 DEF Handover, ProposeTransferWallet, ProposeRecovery, ConfirmRecovery,
    ConfirmTransferWallet, ByPasskey, ConsumeSignature, PasskeySpoke
<1>7. CASE Recovery
  BY <1>7, LimitsAssumption DEF Recovery, RecoverInactiveWallet,
    SeatRecovered, IsInactive, TypeOK
<1>8. QED
  BY <1>1, <1>2, <1>3, <1>4, <1>5, <1>6, <1>7 DEF Next

\* Every call refreshes the inactivity clock, so the recovery address replaces
\* the owner only after a whole inactivity period without any call
\* (update-activity, recover-inactive-wallet).
THEOREM TakeoverNeedsSilence == Spec => EveryCallIsActivity
<1>1. TypeOK /\ [Next]_vars
        => [/\ burnHeight' = burnHeight /\ ~Unlock => lastActivityBlock' = burnHeight
            /\ admins' # admins /\ ~PasskeySpoke /\ pubkeyInitialized
                 => burnHeight > lastActivityBlock + Inactivity]_vars
  BY ActivityStep
<1>2. QED
  BY <1>1, TypeCorrect, PTL DEF Spec, EveryCallIsActivity

-----------------------------------------------------------------------------
(* The two timelocks.                                                       *)

\* Nothing is signalled before onboard has seated the first owner.
UnsignalledInv == ~pubkeyInitialized => walletConfig.signaledAt = 0

LEMMA OnboardedForGood ==
  ASSUME TypeOK, Next, pubkeyInitialized
  PROVE  pubkeyInitialized' /\ ~Onboarding
<1>1. ~Onboarding
  BY DEF Onboarding, Onboard
<1>2. CASE UNCHANGED <<seatVars, recoveryAddress, pendingRecovery>>
  BY <1>1, <1>2 DEF seatVars
<1>3. CASE Handover \/ Recovery
  BY <1>1, <1>3 DEF Handover, Recovery, ProposeTransferWallet, ProposeRecovery,
       ConfirmRecovery, ConfirmTransferWallet, RecoverInactiveWallet, seatVars
<1>4. QED
  BY <1>1, <1>2, <1>3, SeatSteps

LEMMA UnsignalledStep ==
  ASSUME TypeOK, SeatInv, UnsignalledInv, [Next]_vars
  PROVE  UnsignalledInv'
<1> SUFFICES ASSUME ~pubkeyInitialized'
             PROVE  walletConfig.signaledAt' = 0
  BY DEF UnsignalledInv
<1>1. ~pubkeyInitialized /\ walletConfig.signaledAt = 0
  BY OnboardedForGood DEF UnsignalledInv, vars, seatVars
<1>2. CASE UNCHANGED <<configVars, gasLimitVars>>
  BY <1>1, <1>2 DEF configVars
<1>3. CASE Onboarding
  BY <1>3 DEF Onboarding, Onboard
<1>4. CASE PolicyChange
  <2>1. \A u \in Users : ~IsAdminCalling(u)
    BY <1>1, PrincipalsAssumption DEF SeatInv, OneSeat, IsAdminCalling
  <2>2. CASE \E u \in Users, a \in GasAmounts : ProposeMaxGasAmount(a, u)
    BY <2>1, <2>2 DEF ProposeMaxGasAmount, ByAdmin
  <2>3. CASE \E u \in Users, f \in Configs : SignalConfigChange(f, u)
    BY <2>1, <2>3 DEF SignalConfigChange, ByAdmin
  <2>4. CASE \E c \in PasskeyCalls : SetWalletConfig(c)
    <3>1. walletConfig' = [stx |-> pendingConfig.stx, sbtc |-> pendingConfig.sbtc,
                           cooldown |-> pendingConfig.cooldown, signaledAt |-> 0]
      BY <2>4 DEF SetWalletConfig
    <3>2. QED
      BY <3>1
  <2>5. CASE \E c \in PasskeyCalls : ConfirmMaxGasAmount(c)
    BY <1>1, <2>5 DEF ConfirmMaxGasAmount, configVars
  <2>6. CASE \E c \in Calls, enabled \in BOOLEAN : ToggleTokenLock(enabled, c)
    BY <1>1, <2>6 DEF ToggleTokenLock, configVars
  <2>7. QED
    BY <1>4, <2>2, <2>3, <2>4, <2>5, <2>6 DEF PolicyChange
<1>5. CASE UNCHANGED vars
  BY <1>1, <1>5 DEF vars, configVars
<1>6. QED
  BY <1>2, <1>3, <1>4, <1>5, PolicySteps

LEMMA UnsignalledBeforeOnboarding == Spec => []UnsignalledInv
<1>1. Init => UnsignalledInv
  BY DEF Init, UnsignalledInv
<1>2. TypeOK /\ SeatInv /\ UnsignalledInv /\ [Next]_vars => UnsignalledInv'
  BY UnsignalledStep
<1>3. QED
  BY <1>1, <1>2, TypeCorrect, SeatsStayInvariant, PTL DEF Spec

\* The wait before a confirmation is at least the minimum cooldown.
LEMMA WaitIsLongEnough ==
  ASSUME TypeOK, PolicyLegal, NEW since \in Nat, TimelockPassed(since)
  PROVE  since # 0 /\ burnHeight >= since + MinCooldown
<1>1. /\ burnHeight \in Nat /\ MinCooldown \in Nat /\ MaxCooldown \in Nat
      /\ MinCooldown <= MaxCooldown
      /\ walletConfig.cooldown \in MinCooldown .. MaxCooldown
  BY LimitsAssumption DEF TypeOK, PolicyLegal
<1>2. Min2(walletConfig.cooldown, MaxCooldown) = walletConfig.cooldown
  BY <1>1 DEF Min2
<1>3. QED
  BY <1>1, <1>2 DEF TimelockPassed

LEMMA PolicyLockSteps ==
  ASSUME TypeOK, PolicyLegal, SeatInv, UnsignalledInv, [Next]_vars
  PROVE  [PolicyLock!Next]_PolicyLock!setting
<1> USE DEF PolicyLock!Next, PolicyLock!setting
<1>1. CASE UNCHANGED <<configVars, pubkeyInitialized>>
  BY <1>1 DEF configVars, PolicyInForce
<1>2. CASE Next /\ ~PolicyChange /\ ~Onboarding
  <2>1. UNCHANGED configVars
    BY <1>2, PolicySteps
  <2>2. UNCHANGED pubkeyInitialized
    BY <1>2, SeatSteps DEF Handover, Recovery, ProposeTransferWallet, ProposeRecovery,
         ConfirmRecovery, ConfirmTransferWallet, RecoverInactiveWallet, seatVars
  <2>3. QED
    BY <1>1, <2>1, <2>2
<1>3. CASE Onboarding
  <2>1. /\ ~pubkeyInitialized /\ pubkeyInitialized' /\ walletConfig.signaledAt = 0
        /\ walletConfig'.signaledAt = 0
    BY <1>3 DEF Onboarding, Onboard, UnsignalledInv
  <2>2. PolicyInForce' # NoKey
    <3>1. PolicyInForce' \in Policy
      BY <1>3, InputsAssumption DEF Onboarding, Onboard, PolicyInForce, Policy
    <3>2. QED
      BY <3>1, PlaceholderAssumption
  <2>3. QED
    BY <2>1, <2>2 DEF PolicyLock!Install
<1>4. ASSUME NEW f \in Configs, NEW u \in Users, SignalConfigChange(f, u)
      PROVE  PolicyLock!Next
  <2>1. /\ walletConfig' = [walletConfig EXCEPT !.signaledAt = burnHeight]
        /\ pendingConfig' = f /\ burnHeight \in Nat \ {0}
        /\ UNCHANGED pubkeyInitialized
        /\ walletConfig \in [stx : Nat, sbtc : Nat, cooldown : Nat, signaledAt : Nat]
    BY <1>4 DEF SignalConfigChange, seatVars, TypeOK
  <2>2. walletConfig'.signaledAt = burnHeight /\ UNCHANGED PolicyInForce
    BY <2>1 DEF PolicyInForce
  <2>3. f # NoKey
    BY InputsAssumption, PlaceholderAssumption
  <2>4. QED
    BY <2>1, <2>2, <2>3 DEF PolicyLock!Propose
<1>5. ASSUME NEW c \in PasskeyCalls, SetWalletConfig(c)
      PROVE  PolicyLock!Next
  <2>1. walletConfig.signaledAt \in Nat /\ TimelockPassed(walletConfig.signaledAt)
    BY <1>5 DEF SetWalletConfig, TypeOK
  <2>2. /\ walletConfig.signaledAt # 0
        /\ burnHeight >= walletConfig.signaledAt + MinCooldown
    BY <2>1, WaitIsLongEnough
  <2>3. pubkeyInitialized /\ UNCHANGED pubkeyInitialized
    BY <1>5, <2>2 DEF SetWalletConfig, seatVars, UnsignalledInv
  <2>4. pendingConfig \in Policy /\ pendingConfig # NoKey
    BY PlaceholderAssumption DEF TypeOK
  <2>5. PolicyInForce' = pendingConfig /\ walletConfig'.signaledAt = 0
    BY <1>5, <2>4 DEF SetWalletConfig, PolicyInForce, Policy
  <2>6. QED
    BY <2>2, <2>3, <2>4, <2>5 DEF PolicyLock!Adopt
<1>6. ASSUME NEW c, ConfirmMaxGasAmount(c) \/ \E e : ToggleTokenLock(e, c)
      PROVE  UNCHANGED <<configVars, pubkeyInitialized>>
  BY <1>6 DEF ConfirmMaxGasAmount, ToggleTokenLock, seatVars
<1>7. ASSUME NEW a, NEW u, ProposeMaxGasAmount(a, u)
      PROVE  UNCHANGED <<configVars, pubkeyInitialized>>
  BY <1>7 DEF ProposeMaxGasAmount, seatVars
<1>8. CASE UNCHANGED vars
  BY <1>1, <1>8 DEF vars, seatVars
<1>9. CASE PolicyChange
  <2>1. CASE \E u \in Users, a \in GasAmounts : ProposeMaxGasAmount(a, u)
    BY <1>1, <1>7, <2>1
  <2>2. CASE \E u \in Users, f \in Configs : SignalConfigChange(f, u)
    BY <1>4, <2>2
  <2>3. CASE \E c \in PasskeyCalls : SetWalletConfig(c)
    BY <1>5, <2>3
  <2>4. CASE \/ \E c \in PasskeyCalls : ConfirmMaxGasAmount(c)
             \/ \E c \in Calls, enabled \in BOOLEAN : ToggleTokenLock(enabled, c)
    BY <1>1, <1>6, <2>4
  <2>5. QED
    BY <1>9, <2>1, <2>2, <2>3, <2>4 DEF PolicyChange
<1>10. QED
  BY <1>2, <1>3, <1>8, <1>9

\* Thresholds and cooldown change only to what was signalled, unchanged, at
\* least the minimum cooldown earlier, though the wait is the cooldown in force
\* at the confirmation (signal-config-change, set-wallet-config, onboard).
THEOREM PolicyWaits == Spec => PolicyIsTimelocked
<1>1. Init => PolicyLock!Init
  BY DEF Init, PolicyLock!Init
<1>2. QED
  BY <1>1, PolicyLockSteps, TypeCorrect, PolicyStaysLegal, SeatsStayInvariant,
     UnsignalledBeforeOnboarding, PTL DEF Spec, PolicyIsTimelocked, PolicyLock!Spec

LEMMA GasLockSteps ==
  ASSUME TypeOK, PolicyLegal, [Next]_vars
  PROVE  [GasLock!Next]_GasLock!setting
<1> USE DEF GasLock!Next, GasLock!setting
<1>1. CASE UNCHANGED gasLimitVars
  BY <1>1 DEF gasLimitVars
<1>2. CASE Next /\ ~PolicyChange
  BY <1>1, <1>2, PolicySteps DEF Onboarding, Onboard
<1>3. ASSUME NEW a \in GasAmounts, NEW u \in Users, ProposeMaxGasAmount(a, u)
      PROVE  GasLock!Next
  <2>1. /\ pendingMaxGas' = [amount |-> a, proposedAt |-> burnHeight]
        /\ burnHeight \in Nat \ {0} /\ UNCHANGED maxGasAmount
    BY <1>3 DEF ProposeMaxGasAmount, TypeOK
  <2>2. pendingMaxGas'.proposedAt = burnHeight /\ pendingMaxGas'.amount = a
    BY <2>1
  <2>3. a # NoKey
    BY InputsAssumption, PlaceholderAssumption
  <2>4. QED
    BY <2>1, <2>2, <2>3 DEF GasLock!Propose
<1>4. ASSUME NEW c \in PasskeyCalls, ConfirmMaxGasAmount(c)
      PROVE  GasLock!Next
  <2>1. /\ pendingMaxGas.proposedAt \in Nat /\ pendingMaxGas.amount \in Nat
        /\ TimelockPassed(pendingMaxGas.proposedAt)
    BY <1>4 DEF ConfirmMaxGasAmount, TypeOK
  <2>2. /\ pendingMaxGas.proposedAt # 0
        /\ burnHeight >= pendingMaxGas.proposedAt + MinCooldown
    BY <2>1, WaitIsLongEnough
  <2>3. pendingMaxGas.amount # NoKey
    BY <2>1, PlaceholderAssumption
  <2>4. maxGasAmount' = pendingMaxGas.amount /\ pendingMaxGas'.proposedAt = 0
    BY <1>4 DEF ConfirmMaxGasAmount
  <2>5. QED
    BY <2>2, <2>3, <2>4 DEF GasLock!Adopt
<1>5. CASE PolicyChange
  <2>1. CASE \E u \in Users, a \in GasAmounts : ProposeMaxGasAmount(a, u)
    BY <1>3, <2>1
  <2>2. CASE \E u \in Users, f \in Configs : SignalConfigChange(f, u)
    BY <1>1, <2>2 DEF SignalConfigChange
  <2>3. CASE \E c \in PasskeyCalls : SetWalletConfig(c)
    BY <1>1, <2>3 DEF SetWalletConfig
  <2>4. CASE \E c \in PasskeyCalls : ConfirmMaxGasAmount(c)
    BY <1>4, <2>4
  <2>5. CASE \E c \in Calls, enabled \in BOOLEAN : ToggleTokenLock(enabled, c)
    BY <1>1, <2>5 DEF ToggleTokenLock
  <2>6. QED
    BY <1>5, <2>1, <2>2, <2>3, <2>4, <2>5 DEF PolicyChange
<1>6. CASE UNCHANGED vars
  BY <1>1, <1>6 DEF vars
<1>7. QED
  BY <1>2, <1>5, <1>6

\* The gas limit changes only to what was proposed, unchanged, at least the
\* minimum cooldown earlier (propose-max-gas-amount, confirm-max-gas-amount).
THEOREM GasLimitWaits == Spec => GasLimitIsTimelocked
<1>1. Init => GasLock!Init
  BY DEF Init, GasLock!Init
<1>2. QED
  BY <1>1, GasLockSteps, TypeCorrect, PolicyStaysLegal, PTL
  DEF Spec, GasLimitIsTimelocked, GasLock!Spec
-----------------------------------------------------------------------------
(* The safe under its core.                                                 *)

\* A call that succeeds without the core is one of the calls of the safe.
LEMMA WithoutCoreIsOfTheSafe == WithoutCore => Spending \/ Settling \/ PolicyChange
<1> SUFFICES ASSUME WithoutCore
             PROVE  Spending \/ Settling \/ PolicyChange
  OBVIOUS
<1>1. ASSUME NEW c \in Calls, NEW w \in Withdrawals,
             SbtcInitiateWithdrawal(w.amount, w.maxFee, c)
      PROVE  Spending
  BY <1>1 DEF Spending
<1>2. ASSUME NEW i \in 1 .. MaxOps, NEW u \in Users, ExecutePending("sbtc-withdraw", i, u)
      PROVE  Settling
  BY <1>2 DEF Settling, OpTypes
<1>3. ASSUME NEW i \in 1 .. MaxOps, NEW c \in PasskeyCalls, NEW m \in Memos,
             ExecutePendingNow("sbtc-withdraw", i, m, c)
      PROVE  Settling
  BY <1>3 DEF Settling, OpTypes
<1>4. ASSUME NEW u \in Users, NEW a \in GasAmounts, ProposeMaxGasAmount(a, u)
      PROVE  PolicyChange
  BY <1>4 DEF PolicyChange
<1>5. ASSUME NEW c \in PasskeyCalls, ConfirmMaxGasAmount(c)
      PROVE  PolicyChange
  BY <1>5 DEF PolicyChange
<1>6. QED
  BY <1>1, <1>2, <1>3, <1>4, <1>5 DEF WithoutCore

\* The core only withholds calls: whatever it does, the safe under it behaves
\* like the safe alone, so every theorem about the safe holds under it (the
\* calls of register-wallet and the log functions write nothing of the safe).
THEOREM CoreOnlyWithholds == CSpec => Spec
<1>1. CInit => Init
  BY DEF CInit
<1>2. [CNext]_cvars => [Next]_vars
  <2>1. SafeStep => Next
    BY WithoutCoreIsOfTheSafe DEF SafeStep, WithCore, Next
  <2>2. Registration => Next
    BY DEF Registration, Next
  <2>3. UNCHANGED cvars => UNCHANGED vars
    BY DEF cvars
  <2>4. QED
    BY <2>1, <2>2, <2>3 DEF CNext
<1>3. QED
  BY <1>1, <1>2, PTL DEF CSpec, Spec

\* The core changes hands only to an admin who was proposed a cooldown earlier
\* and whose proposal neither was cancelled nor has been made again since
\* (propose-admin, confirm-admin, cancel-admin-transfer).
THEOREM CoreAdminWaits == CSpec => AdminIsTimelocked
<1> USE DEF AdminLock!setting
<1>1. CInit => AdminLock!Init
  BY DEF CInit, Core!Init, AdminLock!Init
<1>2. CNext => AdminLock!Next \/ UNCHANGED AdminLock!setting
  <2> SUFFICES ASSUME CNext
               PROVE  AdminLock!Next \/ UNCHANGED AdminLock!setting
    OBVIOUS
  <2>1. CASE UNCHANGED coreVars
    BY <2>1 DEF coreVars
  <2>2. CASE Registration
    BY <2>2 DEF Registration, Core!RegisterWallet, Core!adminVars
  <2>3. ASSUME NEW n \in Successors, NEW u, Core!ProposeAdmin(n, u)
        PROVE  AdminLock!Propose
    BY <2>3, CoreAssumption DEF Core!ProposeAdmin, AdminLock!Propose
  <2>4. ASSUME NEW u, Core!ConfirmAdmin(u)
        PROVE  AdminLock!Adopt
    BY <2>4 DEF Core!ConfirmAdmin, AdminLock!Adopt
  <2>5. ASSUME NEW u, Core!CancelAdminTransfer(u)
        PROVE  AdminLock!Cancel
    BY <2>5 DEF Core!CancelAdminTransfer, AdminLock!Cancel
  <2>6. ASSUME NEW w, NEW t, NEW h, NEW b, NEW u,
               \/ Core!SetOpenAccess(b, u) \/ Core!WhitelistWallet(w, b, u)
               \/ Core!SetVerifiedContract(t, h, u) \/ Core!RemoveVerifiedContract(t, u)
        PROVE  UNCHANGED AdminLock!setting
    BY <2>6 DEF Core!SetOpenAccess, Core!WhitelistWallet, Core!SetVerifiedContract,
      Core!RemoveVerifiedContract, Core!adminVars
  <2>7. CASE Core!AdminCall
    BY <2>3, <2>4, <2>5, <2>6, <2>7 DEF Core!AdminCall, AdminLock!Next
  <2>8. QED
    BY <2>1, <2>2, <2>7 DEF CNext
<1>3. UNCHANGED cvars => UNCHANGED AdminLock!setting
  BY DEF cvars, coreVars
<1>4. [CNext]_cvars => [AdminLock!Next]_(AdminLock!setting)
  BY <1>2, <1>3
<1>5. QED
  BY <1>1, <1>4, PTL DEF CSpec, AdminIsTimelocked, AdminLock!Spec

\* Gas is paid in sBTC only.
LEMMA GasIsSbtc ==
  ASSUME TypeOK, NEW gas, NEW asset \in {"stx", "staked", "other", "nft"}
  PROVE  FundsAfterGas(gas)[asset] = funds[asset]
BY DEF TypeOK, Ledger, FundsAfterGas

\* Money but sBTC has not moved when no balance but that of sBTC has.
LEMMA NothingDropped ==
  ASSUME TypeOK, \A a \in {"stx", "staked", "other", "nft"} : funds'[a] = funds[a]
  PROVE  \A asset \in {"stx", "other", "nft"} : Drop(asset) = 0
<1>1. /\ funds["stx"] \in Nat /\ funds["staked"] \in Nat
      /\ funds["other"] \in Nat /\ funds["nft"] \in Nat
  BY DEF TypeOK, Ledger
<1>2. QED
  BY <1>1 DEF Drop, Held

\* Paying a queued withdrawal settles it and takes sBTC.
LEMMA WithdrawalPaid ==
  ASSUME TypeOK, NEW i, Payable(i), pendingOperations[i].type = "sbtc-withdraw",
         NEW held \in Ledger, PayOut(i, held),
         \A a \in {"stx", "staked", "other", "nft"} : held[a] = funds[a]
  PROVE  /\ UNCHANGED <<seatVars, handoverVars, configVars, tokenLockEnabled>>
         /\ \A a \in {"stx", "staked", "other", "nft"} : funds'[a] = funds[a]
         /\ JustExecuted(i) /\ i \in DOMAIN pendingOperations
         /\ pendingOperations' = [pendingOperations EXCEPT ![i].executed = TRUE]
<1>1. /\ i \in DOMAIN pendingOperations /\ pendingOperations[i] \in Operation
      /\ pendingOperations \in Seq(Operation)
  BY DEF Payable, TypeOK
<1>2. AssetOf(pendingOperations[i]) = "sbtc"
  BY DEF AssetOf
<1>3. funds' = [held EXCEPT !["sbtc"] = held["sbtc"] - CostOf(pendingOperations[i])]
  BY <1>2 DEF PayOut
<1>4. \A a \in {"stx", "staked", "other", "nft"} : funds'[a] = held[a]
  BY <1>3 DEF Ledger
<1>5. pendingOperations' = [pendingOperations EXCEPT ![i].executed = TRUE]
  BY DEF PayOut
<1>6. pendingOperations'[i].executed
  BY <1>1, <1>5 DEF Operation
<1>7. JustExecuted(i)
  BY <1>1, <1>6 DEF JustExecuted, Payable
<1>8. QED
  BY <1>1, <1>4, <1>5, <1>7 DEF PayOut

\* A safe the core does not admit can only withdraw sBTC and set its gas limit:
\* every other entry point ends with a log call inside try! (log-stx-transfer,
\* log-operation-vetoed, log-recover-inactive-wallet and the rest).
THEOREM UnlistedWithdrawsOnly == CSpec => UnlistedSafeOnlyWithdraws
<1> DEFINE Kept == UNCHANGED <<seatVars, handoverVars, configVars, tokenLockEnabled>>
    Quiet == \A a \in {"stx", "staked", "other", "nft"} : funds'[a] = funds[a]
    Withdrawn(i) == /\ JustExecuted(i) /\ pendingOperations[i].type = "sbtc-withdraw"
                    /\ pendingOperations' = [pendingOperations EXCEPT ![i].executed = TRUE]
    OnlyWithdraws ==
      pubkeyInitialized /\ ~openAccess /\ Self \notin whitelistedWallets =>
        /\ Kept
        /\ \A asset \in {"stx", "other", "nft"} : Drop(asset) = 0
        /\ pendingOperations' # pendingOperations =>
             \E i \in DOMAIN pendingOperations : Withdrawn(i)
<1>1. ASSUME TypeOK, WithoutCore
      PROVE  /\ Kept /\ Quiet
             /\ pendingOperations' # pendingOperations =>
                  \E i \in DOMAIN pendingOperations : Withdrawn(i)
  <2>1. ASSUME NEW c \in Calls, NEW w,
               SbtcInitiateWithdrawal(w.amount, w.maxFee, c), UNCHANGED pendingOperations
        PROVE  Kept /\ Quiet
    <3> DEFINE held == FundsAfterGas(c.gas)
    <3>1. PICK memo \in Memos : Spend("sbtc", "sbtc-withdraw", w.amount, w.maxFee, memo, c)
      BY <2>1 DEF SbtcInitiateWithdrawal
    <3>2. Kept
      BY <3>1 DEF Spend
    <3>3. /\ held \in Ledger
          /\ \A a \in {"stx", "staked", "other", "nft"} : held[a] = funds[a]
      BY <1>1, <3>1, AuthorisedType, GasIsSbtc DEF Spend
    <3>4. funds' = held \/ \E x : funds' = [held EXCEPT !["sbtc"] = x]
      BY <3>1 DEF Spend
    <3> HIDE DEF held
    <3>5. Quiet
      BY <3>3, <3>4 DEF Ledger
    <3>6. QED
      BY <3>2, <3>5
  <2>2. ASSUME NEW i, NEW u, ExecutePending("sbtc-withdraw", i, u)
        PROVE  Kept /\ Quiet /\ i \in DOMAIN pendingOperations /\ Withdrawn(i)
    <3>1. /\ Payable(i) /\ pendingOperations[i].type = "sbtc-withdraw"
          /\ PayOut(i, funds) /\ funds \in Ledger
      BY <1>1, <2>2 DEF ExecutePending, TypeOK
    <3>2. QED
      BY <1>1, <3>1, WithdrawalPaid
  <2>3. ASSUME NEW i, NEW c \in PasskeyCalls, NEW memo,
               ExecutePendingNow("sbtc-withdraw", i, memo, c)
        PROVE  Kept /\ Quiet /\ i \in DOMAIN pendingOperations /\ Withdrawn(i)
    <3>1. /\ Payable(i) /\ pendingOperations[i].type = "sbtc-withdraw"
          /\ PayOut(i, FundsAfterGas(c.gas)) /\ FundsAfterGas(c.gas) \in Ledger
      BY <1>1, <2>3, ByPasskeyType DEF ExecutePendingNow
    <3>2. QED
      BY <1>1, <3>1, WithdrawalPaid, GasIsSbtc
  <2>4. ASSUME NEW u, NEW a, ProposeMaxGasAmount(a, u)
        PROVE  Kept /\ Quiet /\ UNCHANGED pendingOperations
    BY <2>4 DEF ProposeMaxGasAmount, moneyVars
  <2>5. ASSUME NEW c, ConfirmMaxGasAmount(c)
        PROVE  Kept /\ Quiet /\ UNCHANGED pendingOperations
    BY <1>1, <2>5, GasIsSbtc DEF ConfirmMaxGasAmount, PayGas
  <2> HIDE DEF Kept, Quiet, Withdrawn
  <2>6. QED
    BY <1>1, <2>1, <2>2, <2>3, <2>4, <2>5 DEF WithoutCore
<1>2. ASSUME TypeOK, CNext
      PROVE  OnlyWithdraws
  <2> SUFFICES ASSUME pubkeyInitialized, ~openAccess, Self \notin whitelistedWallets
               PROVE  /\ Kept
                      /\ \A asset \in {"stx", "other", "nft"} : Drop(asset) = 0
                      /\ pendingOperations' # pendingOperations =>
                           \E i \in DOMAIN pendingOperations : Withdrawn(i)
    OBVIOUS
  <2>1. CASE WithoutCore
    BY <1>1, <1>2, <2>1, NothingDropped
  <2>2. CASE NextBlock
    <3>1. Kept /\ Quiet /\ UNCHANGED pendingOperations
      BY <2>2 DEF NextBlock, moneyVars
    <3>2. QED
      BY <1>2, <3>1, NothingDropped
  <2>3. CASE Unlock
    <3>1. Kept /\ UNCHANGED pendingOperations
      BY <2>3 DEF Unlock
    <3>2. /\ funds["stx"] \in Nat /\ funds["staked"] \in Nat
          /\ funds["other"] \in Nat /\ funds["nft"] \in Nat
      BY <1>2 DEF TypeOK, Ledger
    <3>3. /\ funds'["stx"] = funds["stx"] + funds["staked"] /\ funds'["staked"] = 0
          /\ funds'["other"] = funds["other"] /\ funds'["nft"] = funds["nft"]
      BY <1>2, <2>3 DEF Unlock, TypeOK, Ledger
    <3>4. \A asset \in {"stx", "other", "nft"} : Drop(asset) = 0
      BY <3>2, <3>3 DEF Drop, Held
    <3>5. QED
      BY <3>1, <3>4
  <2>4. ~WithCore
    BY DEF WithCore, Admitted, Core!IsWhitelisted
  <2>5. ~Registration
    BY DEF Registration, Onboarding, Onboard
  <2>6. CASE UNCHANGED vars
    <3>1. Kept /\ Quiet /\ UNCHANGED pendingOperations
      BY <2>6 DEF vars, moneyVars
    <3>2. QED
      BY <1>2, <3>1, NothingDropped
  <2> HIDE DEF Kept, Withdrawn
  <2>7. QED
    BY <1>2, <2>1, <2>2, <2>3, <2>4, <2>5, <2>6 DEF CNext, SafeStep
<1>3. TypeOK /\ [CNext]_cvars => [OnlyWithdraws]_cvars
  BY <1>2
<1>4. CSpec => [][OnlyWithdraws]_cvars
  BY <1>3, CoreOnlyWithholds, TypeCorrect, PTL DEF CSpec
<1>5. QED
  BY <1>4 DEF UnlistedSafeOnlyWithdraws
=============================================================================
