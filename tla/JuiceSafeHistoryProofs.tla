----------------------- MODULE JuiceSafeHistoryProofs -----------------------
(***************************************************************************)
(* Two factors: what neither the admin's key nor the passkey can do alone, *)
(* and how much leaves unqueued in a cooldown, for every bound, every set  *)
(* of principals and every order of calls.                                 *)
(***************************************************************************)
EXTENDS JuiceSafeHistory, JuiceSafeProofs, SumTheorems

\* The history variables only observe.
LEMMA HistoryObserves == HSpec => Spec
<1>1. HInit => Init
  BY DEF HInit
<1>2. [HNext]_<<vars, history>> => [Next]_vars
  BY DEF HNext, Next
<1>3. QED
  BY <1>1, <1>2, PTL DEF HSpec, Spec

\* The signature maps tell which factor made a call.
LEMMA WhoSpoke ==
  /\ \A c, enforce : ByPasskey(c, enforce) => PasskeySpoke
  /\ \A u : ByAdmin(u) => ~PasskeySpoke
  /\ \A c : Authorised(c) /\ PasskeySpoke => c.by = "passkey"
<1>1. \A c, enforce : ByPasskey(c, enforce) => PasskeySpoke
  BY DEF ByPasskey, ConsumeSignature, PasskeySpoke
<1>2. \A u : ByAdmin(u) => ~PasskeySpoke
  BY DEF ByAdmin, signatureVars, PasskeySpoke
<1>3. QED
  BY <1>1, <1>2 DEF Authorised

-----------------------------------------------------------------------------
(* The passkey alone.                                                       *)

\* What a passkey call does to the queue.
PasskeyQueueStep ==
  \/ UNCHANGED pendingOperations
  \/ \E op : Appended(op) /\ op.passkeyCreated
  \/ \E i : \/ Executed(i) /\ SecondFactor(pendingOperations[i])
            \/ Vetoed(i)

LEMMA PasskeySpends ==
  ASSUME TypeOK, PasskeySpoke, NEW asset, NEW type \in OpTypes, NEW amount \in Nat,
         NEW maxFee \in Nat, NEW memo \in Memos, NEW c,
         Spend(asset, type, amount, maxFee, memo, c)
  PROVE  PasskeyQueueStep
<1>1. c.by = "passkey"
  BY WhoSpoke DEF Spend
<1>2. CASE CreatePendingOperation(type, amount, maxFee, memo, c)
  <2> DEFINE op == [type |-> type, amount |-> amount, maxFee |-> maxFee, memo |-> memo,
                    created |-> burnHeight,
                    executeAfter |-> burnHeight + walletConfig.cooldown,
                    executed |-> FALSE, vetoed |-> FALSE,
                    passkeyCreated |-> (c.by = "passkey")]
  <2>0. op \in Operation
    BY DEF TypeOK, Operation
  <2>1. op.passkeyCreated
    <3>1. op.passkeyCreated = (c.by = "passkey")
      BY Zenon
    <3>2. QED
      BY <1>1, <3>1, Zenon
  <2>2. Appended(op)
    BY <1>2, <2>0 DEF CreatePendingOperation, Appended
  <2>3. QED
    BY <2>1, <2>2 DEF PasskeyQueueStep
<1>3. QED
  BY <1>2 DEF Spend, PasskeyQueueStep

LEMMA PasskeyQueueSteps ==
  ASSUME TypeOK, Next, PasskeySpoke
  PROVE  PasskeyQueueStep
<1>1. CASE Spending
  <2>1. PICK c \in Calls :
          \/ \E m \in Memos :
               \/ \E a \in Amounts["stx"] : StxTransfer(a, m, c)
               \/ \E token \in {"sbtc", "other"} :
                    \E a \in Amounts[token] : Sip010Transfer(token, a, m, c)
          \/ \E w \in Withdrawals : SbtcInitiateWithdrawal(w.amount, w.maxFee, c)
          \/ Sip009Transfer(c)
    BY <1>1 DEF Spending
  <2>2. Amounts["stx"] \subseteq Nat /\ Amounts["sbtc"] \subseteq Nat /\ 0 \in Nat
    BY InputsAssumption
  <2>3. ASSUME NEW m \in Memos, NEW a \in Amounts["stx"], StxTransfer(a, m, c)
        PROVE  PasskeyQueueStep
    BY <2>2, <2>3, PasskeySpends DEF StxTransfer, OpTypes
  <2>4. ASSUME NEW m \in Memos, NEW token \in {"sbtc", "other"}, NEW a \in Amounts[token],
               Sip010Transfer(token, a, m, c)
        PROVE  PasskeyQueueStep
    <3>1. CASE token = "sbtc" /\ Spend("sbtc", "sbtc-transfer", a, 0, m, c)
      BY <2>2, <3>1, PasskeySpends DEF OpTypes
    <3>2. CASE token = "other" /\ SendUncapped("other", a, c)
      BY <3>2 DEF SendUncapped, PasskeyQueueStep
    <3>3. QED
      BY <2>4, <3>1, <3>2 DEF Sip010Transfer
  <2>5. ASSUME NEW w \in Withdrawals, SbtcInitiateWithdrawal(w.amount, w.maxFee, c)
        PROVE  PasskeyQueueStep
    <3>1. w.amount \in Nat /\ w.maxFee \in Nat
      BY InputsAssumption
    <3>2. QED
      BY <2>5, <3>1, PasskeySpends DEF SbtcInitiateWithdrawal, OpTypes
  <2>6. Sip009Transfer(c) => PasskeyQueueStep
    BY DEF Sip009Transfer, SendUncapped, PasskeyQueueStep
  <2>7. QED
    BY <2>1, <2>3, <2>4, <2>5, <2>6
<1>2. CASE Settling
  <2>1. ASSUME NEW i, NEW type, NEW u, ExecutePending(type, i, u)
        PROVE  FALSE
    BY <2>1, WhoSpoke DEF ExecutePending
  <2>2. ASSUME NEW i, NEW type, NEW c, NEW m, ExecutePendingNow(type, i, m, c)
        PROVE  PasskeyQueueStep
    <3>1. Executed(i) /\ SecondFactor(pendingOperations[i])
      BY <2>2 DEF ExecutePendingNow, PayOut, Executed, PasskeySpoke
    <3>2. QED
      BY <3>1 DEF PasskeyQueueStep
  <2>3. ASSUME NEW i, NEW c, VetoOperation(i, c)
        PROVE  PasskeyQueueStep
    BY <2>3 DEF VetoOperation, PasskeyQueueStep, Vetoed
  <2>4. QED
    BY <1>2, <2>1, <2>2, <2>3 DEF Settling
<1>3. QED
  BY <1>1, <1>2, QueueSteps DEF PasskeyQueueStep

\* Stronger than the property: all the passkey alone can queue is marked as
\* its own, which is what the countersigning path refuses.
PasskeyQueueInv ==
  factors \subseteq {"passkey"} =>
    \A i \in DOMAIN pendingOperations :
      pendingOperations[i].passkeyCreated /\ ~pendingOperations[i].executed

LEMMA PasskeyQueuePreserved ==
  ASSUME TypeOK, PasskeyQueueInv, HNext
  PROVE  PasskeyQueueInv'
<1> SUFFICES ASSUME factors' \subseteq {"passkey"}
             PROVE  \A i \in DOMAIN pendingOperations' :
                      /\ pendingOperations'[i].passkeyCreated
                      /\ ~pendingOperations'[i].executed
  BY DEF PasskeyQueueInv
<1>1. pendingOperations \in Seq(Operation)
  BY DEF TypeOK
<1>2. CASE UNCHANGED <<factors, pendingOperations>>
  BY <1>2 DEF PasskeyQueueInv
<1>3. CASE /\ Spending \/ Staking \/ Settling \/ PolicyChange \/ Handover
           /\ Observe(IF PasskeySpoke THEN "passkey" ELSE "admin")
  <2>1. factors' = factors \cup {IF PasskeySpoke THEN "passkey" ELSE "admin"}
    BY <1>3 DEF Observe
  <2>2. PasskeySpoke /\ factors \subseteq {"passkey"}
    BY <2>1
  <2>3. \A i \in DOMAIN pendingOperations :
          pendingOperations[i].passkeyCreated /\ ~pendingOperations[i].executed
    BY <2>2 DEF PasskeyQueueInv
  <2>4. PasskeyQueueStep
    BY <1>3, <2>2, PasskeyQueueSteps DEF Next
  <2>5. ASSUME NEW op, Appended(op), op.passkeyCreated
        PROVE  \A i \in DOMAIN pendingOperations' :
                 pendingOperations'[i].passkeyCreated /\ ~pendingOperations'[i].executed
    <3>1. /\ \A i \in DOMAIN pendingOperations : pendingOperations'[i] = pendingOperations[i]
          /\ pendingOperations'[Len(pendingOperations) + 1] = op
          /\ DOMAIN pendingOperations'
               = DOMAIN pendingOperations \cup {Len(pendingOperations) + 1}
      BY <1>1, <2>5 DEF Appended
    <3>2. ~op.executed
      BY <2>5 DEF Appended
    <3>3. QED
      BY <2>3, <2>5, <3>1, <3>2
  <2>6. ASSUME NEW i, Executed(i), SecondFactor(pendingOperations[i])
        PROVE  FALSE
    BY <2>3, <2>6 DEF Executed, Payable, SecondFactor
  <2>7. ASSUME NEW i, Vetoed(i)
        PROVE  \A j \in DOMAIN pendingOperations' :
                 pendingOperations'[j].passkeyCreated /\ ~pendingOperations'[j].executed
    BY <1>1, <2>3, <2>7 DEF Vetoed, Operation
  <2>8. QED
    BY <2>3, <2>4, <2>5, <2>6, <2>7 DEF PasskeyQueueStep
<1>4. CASE (NextBlock \/ Unlock \/ Onboarding) /\ UNCHANGED factors
  BY <1>2, <1>4 DEF NextBlock, Unlock, Onboarding, Onboard
<1>5. CASE Recovery /\ Observe("recovery")
  BY <1>5 DEF Observe
<1>6. QED
  BY <1>3, <1>4, <1>5 DEF HNext, history

\* A passkey alone never makes a queued operation pay, whatever it queues,
\* vetoes and countersigns (execute-pending-*-now, create-pending-operation).
THEOREM PasskeyNeverSettlesAlone == HSpec => []PasskeyAloneNeverSettles
<1>1. HInit => PasskeyQueueInv
  BY DEF HInit, Init, PasskeyQueueInv
<1>2. TypeOK /\ PasskeyQueueInv /\ [HNext]_<<vars, history>> => PasskeyQueueInv'
  <2>1. PasskeyQueueInv /\ UNCHANGED <<vars, history>> => PasskeyQueueInv'
    BY DEF PasskeyQueueInv, vars, history
  <2>2. QED
    BY <2>1, PasskeyQueuePreserved
<1>3. PasskeyQueueInv => PasskeyAloneNeverSettles
  BY DEF PasskeyQueueInv, PasskeyAloneNeverSettles
<1>4. QED
  BY <1>1, <1>2, <1>3, HistoryObserves, TypeCorrect, PTL DEF HSpec

-----------------------------------------------------------------------------
(* Neither factor alone.                                                    *)

\* Whatever waits for the other factor tells which one has acted.
FactorInv ==
  /\ walletConfig.signaledAt # 0 => "admin" \in factors
  /\ pendingMaxGas.proposedAt # 0 => "admin" \in factors
  /\ pendingTransfer # Nobody => "admin" \in factors
  /\ pendingRecovery # Nobody => "passkey" \in factors
  /\ NeitherFactorAlone

SettingsButOwner == <<recoveryAddress, maxGasAmount, walletConfig.stx, walletConfig.sbtc,
                      walletConfig.cooldown>>
ClocksVars == <<walletConfig.signaledAt, pendingMaxGas.proposedAt, pendingTransfer,
                pendingRecovery>>

\* A step of an actor keeps the invariant if it keeps the settings, or changes
\* them once both factors have acted, and starts only its own clocks.
LEMMA FactorStep ==
  ASSUME FactorInv, NEW actor, Observe(actor),
         Both' \/ (UNCHANGED SettingsButOwner /\ (UNCHANGED owner \/ actor = "recovery")),
         walletConfig'.signaledAt \in {0, walletConfig.signaledAt} \/ actor = "admin",
         pendingMaxGas'.proposedAt \in {0, pendingMaxGas.proposedAt} \/ actor = "admin",
         pendingTransfer' \in {Nobody, pendingTransfer} \/ actor = "admin",
         pendingRecovery' \in {Nobody, pendingRecovery} \/ actor = "passkey"
  PROVE  FactorInv'
<1>1. /\ factors' = factors \cup {actor} /\ UNCHANGED onboarded
  BY DEF Observe
<1>2. NeitherFactorAlone'
  <2>1. CASE Both'
    BY <2>1 DEF NeitherFactorAlone
  <2>2. CASE UNCHANGED SettingsButOwner /\ (UNCHANGED owner \/ actor = "recovery")
    <3>1. [Settings' EXCEPT !.owner = onboarded'.owner]
            = [Settings EXCEPT !.owner = onboarded.owner]
      BY <1>1, <2>2 DEF Settings, SettingsButOwner
    <3>2. Both => Both'
      BY <1>1 DEF Both
    <3>3. [Settings' EXCEPT !.owner = onboarded'.owner] # onboarded' => Both'
      BY <1>1, <3>1, <3>2 DEF FactorInv, NeitherFactorAlone
    <3>4. owner' # onboarded'.owner => Both' \/ "recovery" \in factors'
      BY <1>1, <2>2, <3>2 DEF FactorInv, NeitherFactorAlone
    <3>5. QED
      BY <3>3, <3>4 DEF NeitherFactorAlone
  <2>3. QED
    BY <2>1, <2>2
<1>3. QED
  BY <1>1, <1>2 DEF FactorInv

LEMMA PolicyChangeFactors ==
  ASSUME TypeOK, FactorInv, PolicyChange,
         Observe(IF PasskeySpoke THEN "passkey" ELSE "admin")
  PROVE  FactorInv'
<1> DEFINE actor == IF PasskeySpoke THEN "passkey" ELSE "admin"
<1>1. ASSUME NEW a, NEW u, ProposeMaxGasAmount(a, u)
      PROVE  FactorInv'
  <2>1. actor = "admin"
    BY <1>1, WhoSpoke DEF ProposeMaxGasAmount
  <2>2. UNCHANGED <<SettingsButOwner, owner, walletConfig, pendingTransfer, pendingRecovery>>
    BY <1>1 DEF ProposeMaxGasAmount, seatVars, handoverVars, configVars, SettingsButOwner
  <2>3. QED
    BY <2>1, <2>2, FactorStep
<1>2. ASSUME NEW f, NEW u, SignalConfigChange(f, u)
      PROVE  FactorInv'
  <2>1. actor = "admin"
    BY <1>2, WhoSpoke DEF SignalConfigChange
  <2>2. UNCHANGED <<recoveryAddress, maxGasAmount, owner, pendingMaxGas, pendingTransfer,
                    pendingRecovery>>
    BY <1>2 DEF SignalConfigChange, seatVars, handoverVars, gasLimitVars
  <2>3. UNCHANGED <<walletConfig.stx, walletConfig.sbtc, walletConfig.cooldown>>
    BY <1>2 DEF SignalConfigChange, TypeOK
  <2>4. UNCHANGED SettingsButOwner
    BY <2>2, <2>3 DEF SettingsButOwner
  <2>5. QED
    BY <2>1, <2>2, <2>4, FactorStep
<1>3. ASSUME NEW c, ConfirmMaxGasAmount(c)
      PROVE  FactorInv'
  <2>1. actor = "passkey"
    BY <1>3, WhoSpoke DEF ConfirmMaxGasAmount
  <2>2. "admin" \in factors
    BY <1>3 DEF ConfirmMaxGasAmount, TimelockPassed, FactorInv
  <2>3. Both'
    BY <2>1, <2>2 DEF Observe, Both
  <2>4. /\ UNCHANGED <<walletConfig, pendingTransfer, pendingRecovery>>
        /\ pendingMaxGas'.proposedAt = 0
    BY <1>3 DEF ConfirmMaxGasAmount, handoverVars, configVars
  <2>5. QED
    BY <2>3, <2>4, FactorStep
<1>4. ASSUME NEW c, SetWalletConfig(c)
      PROVE  FactorInv'
  <2>1. actor = "passkey"
    BY <1>4, WhoSpoke DEF SetWalletConfig
  <2>2. "admin" \in factors
    BY <1>4 DEF SetWalletConfig, TimelockPassed, FactorInv
  <2>3. Both'
    BY <2>1, <2>2 DEF Observe, Both
  <2>4. UNCHANGED <<pendingMaxGas, pendingTransfer, pendingRecovery>>
    BY <1>4 DEF SetWalletConfig, handoverVars, gasLimitVars
  <2>5. walletConfig'.signaledAt = 0
    BY <1>4 DEF SetWalletConfig
  <2>6. QED
    BY <2>3, <2>4, <2>5, FactorStep
<1>5. ASSUME NEW enabled, NEW c, ToggleTokenLock(enabled, c)
      PROVE  FactorInv'
  <2>1. UNCHANGED <<SettingsButOwner, owner, walletConfig, pendingMaxGas, pendingTransfer,
                    pendingRecovery>>
    BY <1>5 DEF ToggleTokenLock, seatVars, handoverVars, configVars, gasLimitVars,
      SettingsButOwner
  <2>2. QED
    BY <2>1, FactorStep
<1>6. QED
  BY <1>1, <1>2, <1>3, <1>4, <1>5 DEF PolicyChange

LEMMA HandoverFactors ==
  ASSUME FactorInv, Handover, Observe(IF PasskeySpoke THEN "passkey" ELSE "admin")
  PROVE  FactorInv'
<1> DEFINE actor == IF PasskeySpoke THEN "passkey" ELSE "admin"
<1>1. ASSUME NEW n, NEW u, ProposeTransferWallet(n, u)
      PROVE  FactorInv'
  <2>1. actor = "admin"
    BY <1>1, WhoSpoke DEF ProposeTransferWallet
  <2>2. UNCHANGED <<SettingsButOwner, owner, walletConfig, pendingMaxGas, pendingRecovery>>
    BY <1>1 DEF ProposeTransferWallet, seatVars, configVars, gasLimitVars, SettingsButOwner
  <2>3. QED
    BY <2>1, <2>2, FactorStep
<1>2. ASSUME NEW n, NEW c, ProposeRecovery(n, c)
      PROVE  FactorInv'
  <2>1. actor = "passkey"
    BY <1>2, WhoSpoke DEF ProposeRecovery
  <2>2. UNCHANGED <<SettingsButOwner, owner, walletConfig, pendingMaxGas, pendingTransfer>>
    BY <1>2 DEF ProposeRecovery, seatVars, configVars, gasLimitVars, SettingsButOwner
  <2>3. QED
    BY <2>1, <2>2, FactorStep
<1>3. ASSUME NEW c, ConfirmTransferWallet(c)
      PROVE  FactorInv'
  <2>1. actor = "passkey"
    BY <1>3, WhoSpoke DEF ConfirmTransferWallet
  <2>2. "admin" \in factors
    BY <1>3 DEF ConfirmTransferWallet, FactorInv
  <2>3. Both'
    BY <2>1, <2>2 DEF Observe, Both
  <2>4. UNCHANGED <<walletConfig, pendingMaxGas, pendingRecovery>> /\ pendingTransfer' = Nobody
    BY <1>3 DEF ConfirmTransferWallet, configVars, gasLimitVars
  <2>5. QED
    BY <2>3, <2>4, FactorStep
<1>4. ASSUME NEW u, ConfirmRecovery(u)
      PROVE  FactorInv'
  <2>1. actor = "admin"
    BY <1>4, WhoSpoke DEF ConfirmRecovery
  <2>2. "passkey" \in factors
    BY <1>4 DEF ConfirmRecovery, FactorInv
  <2>3. Both'
    BY <2>1, <2>2 DEF Observe, Both
  <2>4. UNCHANGED <<walletConfig, pendingMaxGas, pendingTransfer>> /\ pendingRecovery' = Nobody
    BY <1>4 DEF ConfirmRecovery, configVars, gasLimitVars
  <2>5. QED
    BY <2>3, <2>4, FactorStep
<1>5. QED
  BY <1>1, <1>2, <1>3, <1>4 DEF Handover

LEMMA FactorPreserved ==
  ASSUME TypeOK, FactorInv, HNext
  PROVE  FactorInv'
<1>1. CASE (NextBlock \/ Unlock) /\ UNCHANGED history
  <2>1. UNCHANGED <<Settings, owner, walletConfig, pendingMaxGas, pendingTransfer,
                    pendingRecovery, factors, onboarded>>
    BY <1>1 DEF NextBlock, Unlock, history, seatVars, handoverVars, configVars,
      gasLimitVars, Settings
  <2>2. QED
    BY <2>1 DEF FactorInv, NeitherFactorAlone, Both
<1>2. CASE Onboarding /\ onboarded' = Settings' /\ UNCHANGED factors
  <2>1. /\ walletConfig'.signaledAt = 0
        /\ UNCHANGED <<pendingMaxGas, pendingTransfer, pendingRecovery>>
    BY <1>2 DEF Onboarding, Onboard, gasLimitVars
  <2>2. onboarded'.owner = owner' /\ [Settings' EXCEPT !.owner = onboarded'.owner] = onboarded'
    BY <1>2 DEF Settings
  <2>3. QED
    BY <1>2, <2>1, <2>2 DEF FactorInv, NeitherFactorAlone
<1>3. CASE /\ Spending \/ Staking \/ Settling
           /\ Observe(IF PasskeySpoke THEN "passkey" ELSE "admin")
  <2>1. Next
    BY <1>3 DEF Next
  <2>2. UNCHANGED <<configVars, gasLimitVars, seatVars, handoverVars>>
    BY <1>3 DEF Spending, StxTransfer, Sip010Transfer, Sip009Transfer,
      SbtcInitiateWithdrawal, Spend, SendUncapped, Staking, StakeStxJuice,
      UpdateStakeStxJuice, Unstake, LockStx, Settling, ExecutePending, ExecutePendingNow,
      PayOut, VetoOperation
  <2>3. UNCHANGED <<SettingsButOwner, owner, walletConfig, pendingMaxGas, pendingTransfer,
                    pendingRecovery>>
    BY <2>2 DEF configVars, gasLimitVars, seatVars, handoverVars, SettingsButOwner
  <2>4. QED
    BY <1>3, <2>3, FactorStep
<1>4. CASE Recovery /\ Observe("recovery")
  <2>1. UNCHANGED <<configVars, gasLimitVars, handoverVars>>
    BY <1>4 DEF Recovery, RecoverInactiveWallet
  <2>2. UNCHANGED <<SettingsButOwner, walletConfig, pendingMaxGas, pendingTransfer,
                    pendingRecovery>>
    BY <2>1 DEF configVars, gasLimitVars, handoverVars, SettingsButOwner
  <2>3. QED
    BY <1>4, <2>2, FactorStep
<1>5. QED
  BY <1>1, <1>2, <1>3, <1>4, PolicyChangeFactors, HandoverFactors DEF HNext

\* Neither the admin's key nor the passkey alone changes who owns the wallet,
\* who may recover it, its policy or its gas limit, in any number of calls;
\* only an inactive wallet's owner is replaced otherwise, by the recovery
\* address (signal-config-change and set-wallet-config, propose- and
\* confirm-max-gas-amount, -transfer-wallet and -recovery).
THEOREM TwoFactors == HSpec => []NeitherFactorAlone
<1>1. HInit => FactorInv
  <2> SUFFICES ASSUME HInit
               PROVE  FactorInv
    OBVIOUS
  <2>1. /\ walletConfig.signaledAt = 0 /\ pendingMaxGas.proposedAt = 0
        /\ pendingTransfer = Nobody /\ pendingRecovery = Nobody
    BY DEF HInit, Init
  <2>2. onboarded.owner = owner /\ [Settings EXCEPT !.owner = onboarded.owner] = onboarded
    BY DEF HInit, Settings
  <2>3. QED
    BY <2>1, <2>2 DEF FactorInv, NeitherFactorAlone
<1>2. TypeOK /\ FactorInv /\ [HNext]_<<vars, history>> => FactorInv'
  <2>1. FactorInv /\ UNCHANGED <<vars, history>> => FactorInv'
    <3> SUFFICES ASSUME FactorInv, UNCHANGED <<vars, history>>
                 PROVE  FactorInv'
      OBVIOUS
    <3>1. UNCHANGED <<Settings, owner, walletConfig, pendingMaxGas, pendingTransfer,
                      pendingRecovery, factors, onboarded>>
      BY DEF vars, history, seatVars, handoverVars, configVars, gasLimitVars, Settings
    <3>2. QED
      BY <3>1 DEF FactorInv, NeitherFactorAlone, Both
  <2>2. QED
    BY <2>1, FactorPreserved
<1>3. FactorInv => NeitherFactorAlone
  BY DEF FactorInv
<1>4. QED
  BY <1>1, <1>2, <1>3, HistoryObserves, TypeCorrect, PTL DEF HSpec

-----------------------------------------------------------------------------
(* Twice the threshold.                                                     *)

\* What Observe books of a step as having left unqueued.
LeftUnqueued ==
  IF \E i \in DOMAIN pendingOperations : JustExecuted(i) THEN 0 ELSE Drop("stx")

\* A step that lets n STX leave unqueued either leaves the period's counter as
\* it was, and then n is 0, or counts at least n in the period of now, within
\* the threshold in force.
CountsAtLeast(n) ==
  LET now == CurrentSpent(spentThisPeriod)
  IN  \/ /\ n = 0 /\ spentThisPeriod'.stx = spentThisPeriod.stx
         /\ spentThisPeriod'.periodStart = spentThisPeriod.periodStart
      \/ /\ spentThisPeriod'.periodStart = now.periodStart
         /\ spentThisPeriod'.stx >= now.stx + n
         /\ spentThisPeriod'.stx <= walletConfig.stx \/ spentThisPeriod'.stx = now.stx

\* Paying gas opens the period of now, or leaves it to the transfer to do so.
LEMMA PeriodAfterGas ==
  ASSUME TypeOK, NEW gas \in {NoGas} \cup GasFees
  PROVE  LET now == CurrentSpent(spentThisPeriod)
             spent == SpentAfterGas(gas)
         IN  /\ now \in Counters /\ CurrentSpent(spent) \in Counters
             /\ \/ spent = spentThisPeriod
                \/ spent.periodStart = now.periodStart /\ spent.stx = now.stx
             /\ CurrentSpent(spent).periodStart = now.periodStart
             /\ CurrentSpent(spent).stx = now.stx
<1> DEFINE now == CurrentSpent(spentThisPeriod)
           spent == SpentAfterGas(gas)
<1>1. now \in Counters
  BY CurrentSpentType DEF TypeOK
<1>2. CASE gas = NoGas
  BY <1>1, <1>2 DEF SpentAfterGas
<1>3. CASE gas # NoGas
  <2>1. spent = [now EXCEPT !.gas = @ + gas] /\ gas \in Nat
    BY <1>3, InputsAssumption DEF SpentAfterGas, AddSpent
  <2>2. ~PeriodExpired(now)
    BY DEF CurrentSpent, PeriodExpired, TypeOK
  <2> HIDE DEF now, spent
  <2>3. /\ spent \in Counters
        /\ spent.periodStart = now.periodStart /\ spent.stx = now.stx
    BY <1>1, <2>1 DEF Counters
  <2>4. CurrentSpent(spent) = spent
    BY <2>2, <2>3 DEF CurrentSpent, PeriodExpired
  <2> QED BY <1>1, <2>3, <2>4 DEF now, spent
<1> QED BY <1>2, <1>3

\* What leaves unqueued is counted.
LEMMA UnqueuedIsCounted ==
  ASSUME TypeOK, OneSeat, Next
  PROVE  LeftUnqueued \in Nat /\ CountsAtLeast(LeftUnqueued)
<1>1. PICK gas \in {NoGas} \cup GasFees, enforce \in BOOLEAN :
        /\ gas # NoGas => PasskeySpoke
        /\ GasAllowed(gas, enforce)
        /\ Out(gas)
  BY EveryStepIsAMoneyStep DEF MoneyStep
<1> DEFINE held == FundsAfterGas(gas)
           spent == SpentAfterGas(gas)
           now == CurrentSpent(spentThisPeriod)
<1>2. held \in Ledger /\ Held(held, "stx") = Held(funds, "stx") /\ Held(funds, "stx") \in Nat
  <2>1. held \in Ledger
    BY <1>1, GasType
  <2>2. Held(funds, "stx") \in Nat
    BY HeldType DEF TypeOK
  <2>3. PICK g \in {0} : Held(held, "stx") = Held(funds, "stx") - g
    BY <1>1, HeldAfterGas
  <2> QED BY <2>1, <2>2, <2>3
<1>3. /\ now \in Counters /\ CurrentSpent(spent) \in Counters
      /\ \/ spent = spentThisPeriod
         \/ spent.periodStart = now.periodStart /\ spent.stx = now.stx
      /\ CurrentSpent(spent).periodStart = now.periodStart
      /\ CurrentSpent(spent).stx = now.stx
  BY PeriodAfterGas
<1>4. CASE spentThisPeriod' = spent /\ LeftUnqueued = 0
  BY <1>3, <1>4 DEF CountsAtLeast, Counters
<1>5. CASE NothingMore(gas)
  <2>1. Drop("stx") = 0
    BY <1>2, <1>5 DEF NothingMore, Drop
  <2>2. LeftUnqueued = 0
    BY <2>1 DEF LeftUnqueued
  <2> QED BY <1>4, <1>5, <2>2 DEF NothingMore
<1>6. ASSUME NEW i \in DOMAIN pendingOperations, Settled(gas, i)
      PROVE  LeftUnqueued \in Nat /\ CountsAtLeast(LeftUnqueued)
  BY <1>4, <1>6 DEF Settled, LeftUnqueued
<1>7. ASSUME NEW asset \in {"stx", "sbtc"}, NEW cost \in Nat, Counted(gas, asset, cost)
      PROVE  LeftUnqueued \in Nat /\ CountsAtLeast(LeftUnqueued)
  <2>1. /\ funds' = [held EXCEPT ![asset] = @ - cost]
        /\ spentThisPeriod' = [CurrentSpent(spent) EXCEPT ![asset] = @ + cost]
        /\ ~(CurrentSpent(spent)[asset] + cost > walletConfig[asset])
    BY <1>7 DEF Counted, AddSpent, WouldExceed
  <2> DEFINE counted == CurrentSpent(spent)
  <2>2. Held(funds', "stx") = IF asset = "stx" THEN Held(held, "stx") - cost
                                               ELSE Held(held, "stx")
    <3> HIDE DEF held
    <3> QED BY <1>2, <2>1, HeldAfterPayment
  <2>3. walletConfig.stx \in Nat
    BY DEF TypeOK
  <2> HIDE DEF counted
  <2>4. /\ spentThisPeriod'.periodStart = counted.periodStart
        /\ spentThisPeriod'.stx = IF asset = "stx" THEN counted.stx + cost ELSE counted.stx
    BY <1>3, <2>1 DEF Counters, counted
  <2>5. LeftUnqueued = 0 \/ (asset = "stx" /\ LeftUnqueued = cost)
    BY <1>2, <2>2 DEF LeftUnqueued, Drop
  <2>6. now.stx \in Nat /\ counted.stx = now.stx /\ counted.periodStart = now.periodStart
    BY <1>3 DEF Counters, counted
  <2>7. asset = "stx" => counted.stx + cost <= walletConfig.stx
    BY <2>1, <2>3, <2>6 DEF counted
  <2> HIDE DEF now
  <2>8. /\ spentThisPeriod'.periodStart = now.periodStart
        /\ spentThisPeriod'.stx >= now.stx + LeftUnqueued
        /\ spentThisPeriod'.stx <= walletConfig.stx \/ spentThisPeriod'.stx = now.stx
    BY <2>4, <2>5, <2>6, <2>7
  <2> QED BY <2>5, <2>8 DEF CountsAtLeast, now
<1> QED BY <1>1, <1>5, <1>6, <1>7 DEF Out

-----------------------------------------------------------------------------
Blocks == 1 .. MaxHeight
UnqueuedSince(h) == SumFunctionOnSet(unqueuedStx, h .. MaxHeight)

\* What left after the block that began the period is counted in the period; one
\* cooldown further back only the period before adds to it, and no period ever
\* counts more than the highest threshold.
PeriodsDisjoint ==
  LET start == spentThisPeriod.periodStart
      spent == spentThisPeriod.stx
  IN  /\ start <= burnHeight /\ spent <= loosest.stx
      /\ \A h \in Blocks : h > start => UnqueuedSince(h) <= spent
      /\ \A h \in Blocks : h + loosest.cooldown >= start =>
           UnqueuedSince(h) <= loosest.stx + spent

HistoryTyped ==
  /\ unqueuedStx \in [Blocks -> Nat] /\ loosest \in [stx : Nat, cooldown : Nat]
  /\ walletConfig.stx <= loosest.stx /\ loosest.cooldown <= walletConfig.cooldown
  /\ \A k \in Blocks : k > burnHeight => unqueuedStx[k] = 0

NothingLeft == spentThisPeriod.stx = 0 /\ \A k \in Blocks : unqueuedStx[k] = 0

UnqueuedInv ==
  /\ HistoryTyped /\ PeriodsDisjoint /\ UnqueuedWithinTwoThresholds
  /\ ~pubkeyInitialized => NothingLeft

\* Sums over blocks.
LEMMA BlocksFinite ==
  /\ IsFiniteSet(Blocks)
  /\ \A h \in Blocks : /\ IsFiniteSet(h .. MaxHeight) /\ h .. MaxHeight \subseteq Blocks
                       /\ \A n \in Nat : {k \in h .. h + n : k <= MaxHeight}
                                           \subseteq h .. MaxHeight
<1>1. MaxHeight \in Nat
  BY LimitsAssumption
<1>2. IsFiniteSet(Blocks)
  BY <1>1, FS_Interval DEF Blocks
<1>3. ASSUME NEW h \in Blocks
      PROVE  /\ h .. MaxHeight \subseteq Blocks
             /\ \A n \in Nat : {k \in h .. h + n : k <= MaxHeight} \subseteq h .. MaxHeight
  BY <1>1 DEF Blocks
<1> QED BY <1>2, <1>3, FS_Subset

LEMMA SinceAndStretch ==
  ASSUME NEW f \in [Blocks -> Nat], NEW h \in Blocks, NEW n \in Nat
  PROVE  LET s == {k \in h .. h + n : k <= MaxHeight}
         IN  /\ SumFunctionOnSet(f, h .. MaxHeight) \in Nat /\ SumFunctionOnSet(f, s) \in Nat
             /\ SumFunctionOnSet(f, s) <= SumFunctionOnSet(f, h .. MaxHeight)
<1> DEFINE s == {k \in h .. h + n : k <= MaxHeight}
<1>1. /\ IsFiniteSet(h .. MaxHeight) /\ IsFiniteSet(s) /\ s \subseteq h .. MaxHeight
      /\ \A k \in h .. MaxHeight : f[k] \in Nat
  BY BlocksFinite, FS_Subset
<1> HIDE DEF s
<1>2. SumFunctionOnSet(f, h .. MaxHeight) \in Nat
  BY <1>1, SumNat
<1>3. SumFunctionOnSet(f, s) \in Nat
  BY <1>1, SumNat
<1>4. SumFunctionOnSet(f, s) <= SumFunctionOnSet(f, h .. MaxHeight)
  BY <1>1, SumOfFewer
<1> QED BY <1>2, <1>3, <1>4 DEF s

LEMMA BookedType ==
  ASSUME NEW f \in [Blocks -> Nat], NEW b, NEW n \in Nat
  PROVE  [f EXCEPT ![b] = @ + n] \in [Blocks -> Nat]
<1>1. \A k \in Blocks : f[k] + n \in Nat
  OBVIOUS
<1> QED BY <1>1

\* One more entry adds to the sums over the sets that hold its block.
Booked(g, f, b, n) ==
  /\ \A k \in Blocks \ {b} : g[k] = f[k]
  /\ b \in Blocks => g[b] = f[b] + n

LEMMA BookedSum ==
  ASSUME NEW f, \A k \in Blocks : f[k] \in Nat, NEW b, NEW n \in Nat,
         NEW g, Booked(g, f, b, n), NEW S \in SUBSET Blocks
  PROVE  SumFunctionOnSet(g, S) = SumFunctionOnSet(f, S) + (IF b \in S THEN n ELSE 0)
<1>1. IsFiniteSet(S)
  BY BlocksFinite, FS_Subset
<1>2. \A s \in S : f[s] \in Int
  OBVIOUS
<1>3. SumFunctionOnSet(f, S) \in Int
  BY <1>1, <1>2, SumInt
<1>4. CASE b \in S
  <2>1. g[b] = f[b] + n /\ g[b] \in Int
    BY <1>4 DEF Booked
  <2>2. \A s \in S \ {b} : g[s] = f[s]
    BY DEF Booked
  <2>3. SumFunctionOnSet(g, S) = SumFunctionOnSet(f, S) + g[b] - f[b]
    BY ONLY <1>1, <1>2, <1>4, <2>1, <2>2, SumUpdate
  <2> QED BY <1>2, <1>3, <1>4, <2>1, <2>3
<1>5. CASE b \notin S
  <2>1. \A s \in S : g[s] = f[s]
    BY <1>5 DEF Booked
  <2>2. SumFunctionOnSet(g, S) = SumFunctionOnSet(f, S)
    BY <1>1, <1>2, <2>1, SumSame
  <2> QED BY <1>3, <1>5, <2>2
<1> QED BY <1>4, <1>5

LEMMA ExceptBooks ==
  ASSUME NEW f \in [Blocks -> Nat], NEW b, NEW n
  PROVE  Booked([f EXCEPT ![b] = @ + n], f, b, n)
BY DEF Booked

\* What a stretch held is at most what left since its first block; and once the
\* stretches that reach the period are within bounds, so are all: the others
\* end before now, and nothing is booked in them any more.
LEMMA StretchesFollow ==
  ASSUME TypeOK, TypeOK', HistoryTyped, HistoryTyped', PeriodsDisjoint',
         UnqueuedWithinTwoThresholds,
         loosest'.stx >= loosest.stx, loosest'.cooldown <= loosest.cooldown,
         NEW n \in Nat, unqueuedStx' = [unqueuedStx EXCEPT ![burnHeight] = @ + n],
         burnHeight' = burnHeight
  PROVE  UnqueuedWithinTwoThresholds'
<1> DEFINE most == loosest.stx
           wait == loosest.cooldown
           wait1 == loosest'.cooldown
           start1 == spentThisPeriod'.periodStart
<1>1. /\ most \in Nat /\ wait \in Nat /\ loosest'.stx \in Nat /\ wait1 \in Nat
      /\ burnHeight \in Nat /\ start1 \in Nat /\ spentThisPeriod'.stx \in Nat
  BY DEF HistoryTyped, TypeOK, Counters
<1> SUFFICES ASSUME NEW h \in Blocks
             PROVE  SumFunctionOnSet(unqueuedStx', {k \in h .. h + wait1 : k <= MaxHeight})
                      <= 2 * loosest'.stx
  BY DEF UnqueuedWithinTwoThresholds, Blocks
<1> DEFINE stretch1 == {k \in h .. h + wait1 : k <= MaxHeight}
           stretch == {k \in h .. h + wait : k <= MaxHeight}
<1>2. h \in Nat /\ MaxHeight \in Nat
  BY LimitsAssumption DEF Blocks
<1>3. CASE h + wait1 >= start1
  <2>1. UnqueuedSince(h)' <= loosest'.stx + spentThisPeriod'.stx
    BY <1>3 DEF PeriodsDisjoint
  <2>2. spentThisPeriod'.stx <= loosest'.stx
    BY DEF PeriodsDisjoint
  <2>3. /\ UnqueuedSince(h)' \in Nat
        /\ SumFunctionOnSet(unqueuedStx', stretch1) \in Nat
        /\ SumFunctionOnSet(unqueuedStx', stretch1) <= UnqueuedSince(h)'
    <3>1. unqueuedStx' \in [Blocks -> Nat]
      BY DEF HistoryTyped
    <3> HIDE DEF wait1
    <3> QED BY <1>1, <3>1, SinceAndStretch DEF UnqueuedSince
  <2> HIDE DEF wait1
  <2> QED BY <1>1, <2>1, <2>2, <2>3
<1>4. CASE h + wait1 < start1
  <2>1. start1 <= burnHeight
    BY DEF PeriodsDisjoint
  <2>2. burnHeight \notin stretch1 /\ stretch1 \subseteq stretch /\ stretch \subseteq Blocks
    BY <1>1, <1>2, <1>4, <2>1 DEF Blocks
  <2> HIDE DEF stretch1, stretch
  <2>3. SumFunctionOnSet(unqueuedStx', stretch1) = SumFunctionOnSet(unqueuedStx, stretch1)
    <3>1. (\A k \in Blocks : unqueuedStx[k] \in Nat) /\ stretch1 \in SUBSET Blocks
      BY <2>2 DEF HistoryTyped
    <3>2. n \in Nat /\ Booked(unqueuedStx', unqueuedStx, burnHeight, n)
      BY ExceptBooks DEF HistoryTyped
    <3>3. SumFunctionOnSet(unqueuedStx', stretch1)
            = SumFunctionOnSet(unqueuedStx, stretch1) + (IF burnHeight \in stretch1 THEN n ELSE 0)
      BY ONLY <3>1, <3>2, BookedSum
    <3>4. SumFunctionOnSet(unqueuedStx, stretch1) \in Nat
      BY ONLY <3>1, BlocksFinite, FS_Subset, SumNat
    <3> QED BY <2>2, <3>3, <3>4
  <2>4. /\ SumFunctionOnSet(unqueuedStx, stretch1) <= SumFunctionOnSet(unqueuedStx, stretch)
        /\ SumFunctionOnSet(unqueuedStx, stretch1) \in Nat
        /\ SumFunctionOnSet(unqueuedStx, stretch) \in Nat
    <3>1. /\ IsFiniteSet(stretch) /\ \A k \in stretch : unqueuedStx[k] \in Nat
          /\ IsFiniteSet(stretch1) /\ \A k \in stretch1 : unqueuedStx[k] \in Nat
      BY <2>2, BlocksFinite, FS_Subset DEF HistoryTyped
    <3>2. SumFunctionOnSet(unqueuedStx, stretch1) <= SumFunctionOnSet(unqueuedStx, stretch)
      BY <2>2, <3>1, SumOfFewer
    <3> QED BY <3>1, <3>2, SumNat
  <2>5. SumFunctionOnSet(unqueuedStx, stretch) <= 2 * most
    BY DEF UnqueuedWithinTwoThresholds, Blocks, stretch
  <2>6. loosest'.stx >= most
    OBVIOUS
  <2> HIDE DEF most
  <2> QED BY <1>1, <2>3, <2>4, <2>5, <2>6 DEF stretch1
<1> QED BY <1>1, <1>2, <1>3, <1>4

\* A call of an actor books what it lets leave in the period of now.
LEMMA BookedInPeriod ==
  ASSUME TypeOK, TypeOK', UnqueuedInv, NEW actor, Observe(actor),
         LeftUnqueued \in Nat, CountsAtLeast(LeftUnqueued), burnHeight' = burnHeight
  PROVE  HistoryTyped' /\ PeriodsDisjoint' /\ UnqueuedWithinTwoThresholds'
<1> DEFINE n == LeftUnqueued
           most == loosest.stx
           wait == loosest.cooldown
           most1 == loosest'.stx
           wait1 == loosest'.cooldown
           start == spentThisPeriod.periodStart
           spent == spentThisPeriod.stx
           start1 == spentThisPeriod'.periodStart
           spent1 == spentThisPeriod'.stx
           cooldown == walletConfig.cooldown
<1>1. /\ most \in Nat /\ wait \in Nat /\ start \in Nat /\ spent \in Nat
      /\ start1 \in Nat /\ spent1 \in Nat /\ burnHeight \in Nat /\ cooldown \in Nat
      /\ walletConfig.stx \in Nat /\ walletConfig'.stx \in Nat
      /\ walletConfig'.cooldown \in Nat
  BY DEF UnqueuedInv, HistoryTyped, TypeOK, Counters
<1>2. unqueuedStx' = [unqueuedStx EXCEPT ![burnHeight] = @ + n]
  BY DEF Observe, LeftUnqueued
<1>3. /\ most1 = Max2(most, walletConfig'.stx) /\ wait1 = Min2(wait, walletConfig'.cooldown)
      /\ loosest' = [stx |-> Max2(most, walletConfig'.stx),
                     cooldown |-> Min2(wait, walletConfig'.cooldown)]
  BY DEF Observe
<1>4. /\ most1 \in Nat /\ wait1 \in Nat /\ most1 >= most /\ wait1 <= wait
      /\ walletConfig'.stx <= most1 /\ wait1 <= walletConfig'.cooldown
  BY <1>1, <1>3 DEF Max2, Min2
<1>5. HistoryTyped'
  <2>1. unqueuedStx' \in [Blocks -> Nat]
    <3>1. unqueuedStx \in [Blocks -> Nat] /\ n \in Nat
      BY DEF UnqueuedInv, HistoryTyped
    <3> HIDE DEF n
    <3> QED BY ONLY <1>2, <3>1, BookedType
  <2>2. loosest' \in [stx : Nat, cooldown : Nat]
    BY <1>3, <1>4
  <2>3. \A k \in Blocks : k > burnHeight => unqueuedStx'[k] = 0
    BY <1>1, <1>2 DEF UnqueuedInv, HistoryTyped, Blocks
  <2> QED BY <1>4, <2>1, <2>2, <2>3 DEF HistoryTyped
<1>6. ASSUME NEW h \in Blocks
      PROVE  /\ UnqueuedSince(h) \in Nat /\ UnqueuedSince(h)' \in Nat
             /\ UnqueuedSince(h)' = UnqueuedSince(h)
                                      + (IF burnHeight \in h .. MaxHeight THEN n ELSE 0)
  <2>1. h .. MaxHeight \in SUBSET Blocks
    BY BlocksFinite
  <2>2. UnqueuedSince(h) \in Nat
    BY BlocksFinite, SumNat DEF UnqueuedSince, UnqueuedInv, HistoryTyped
  <2>3. UnqueuedSince(h)' = UnqueuedSince(h)
                              + (IF burnHeight \in h .. MaxHeight THEN n ELSE 0)
    <3>1. (\A k \in Blocks : unqueuedStx[k] \in Nat) /\ n \in Nat
      BY DEF UnqueuedInv, HistoryTyped
    <3>2. Booked(unqueuedStx', unqueuedStx, burnHeight, n)
      BY <1>2, ExceptBooks DEF UnqueuedInv, HistoryTyped
    <3> DEFINE later == h .. MaxHeight
    <3>3. later \in SUBSET Blocks
      BY <2>1
    <3> HIDE DEF n, later
    <3>4. SumFunctionOnSet(unqueuedStx', later)
            = SumFunctionOnSet(unqueuedStx, later) + (IF burnHeight \in later THEN n ELSE 0)
      BY ONLY <3>1, <3>2, <3>3, BookedSum
    <3> QED BY <3>4 DEF UnqueuedSince, later
  <2> QED BY <2>2, <2>3
<1>7. /\ start <= burnHeight /\ spent <= most
      /\ walletConfig.stx <= most /\ wait <= cooldown
      /\ \A h \in Blocks : h > start => UnqueuedSince(h) <= spent
      /\ \A h \in Blocks : h + wait >= start => UnqueuedSince(h) <= most + spent
  BY DEF UnqueuedInv, HistoryTyped, PeriodsDisjoint
<1>8. \A h \in Blocks : h \in Nat
  BY DEF Blocks
<1>9. \A h \in Blocks : h > burnHeight => UnqueuedSince(h)' = 0
  <2> SUFFICES ASSUME NEW h \in Blocks, h > burnHeight PROVE UnqueuedSince(h)' = 0
    OBVIOUS
  <2>1. \A k \in h .. MaxHeight : unqueuedStx'[k] = 0
    BY <1>1, <1>5, <1>8 DEF HistoryTyped, Blocks
  <2> QED BY <2>1, BlocksFinite, SumOfZeros DEF UnqueuedSince
<1>10. PeriodExpired(spentThisPeriod) <=> burnHeight > start + cooldown
  BY DEF PeriodExpired
<1>11. \/ /\ n = 0 /\ spent1 = spent /\ start1 = start
       \/ /\ ~PeriodExpired(spentThisPeriod) /\ start1 = start /\ spent1 >= spent + n
          /\ spent1 <= walletConfig.stx \/ spent1 = spent
       \/ /\ PeriodExpired(spentThisPeriod) /\ start1 = burnHeight /\ spent1 >= n
          /\ spent1 <= walletConfig.stx \/ spent1 = 0
  <2>1. CASE n = 0 /\ spent1 = spent /\ start1 = start
    BY <2>1
  <2>2. CASE ~PeriodExpired(spentThisPeriod)
    BY <2>1, <2>2 DEF CountsAtLeast, CurrentSpent
  <2>3. CASE PeriodExpired(spentThisPeriod)
    BY <2>1, <2>3 DEF CountsAtLeast, CurrentSpent
  <2> QED BY <2>2, <2>3
<1>12. /\ start1 <= burnHeight /\ spent1 <= most1
       /\ \A h \in Blocks : h > start1 => UnqueuedSince(h)' <= spent1
       /\ \A h \in Blocks : h + wait1 >= start1 => UnqueuedSince(h)' <= most1 + spent1
  <2>0. n \in Nat
    OBVIOUS
  <2> HIDE DEF n, most, wait, most1, wait1, start, spent, start1, spent1, cooldown
  <2>1. CASE start1 = start /\ spent1 >= spent + n /\ (spent1 <= walletConfig.stx \/ spent1 = spent)
    BY <1>1, <1>4, <1>6, <1>7, <1>8, <2>0, <2>1
  <2>2. CASE /\ PeriodExpired(spentThisPeriod) /\ start1 = burnHeight /\ spent1 >= n
             /\ spent1 <= walletConfig.stx \/ spent1 = 0
    <3>1. start1 <= burnHeight /\ spent1 <= most1
      BY <1>1, <1>4, <1>7, <2>2
    <3>2. \A h \in Blocks : h > start1 => UnqueuedSince(h)' <= spent1
      BY <1>1, <1>9, <2>2
    <3>3. ASSUME NEW h \in Blocks, h + wait1 >= start1
          PROVE  UnqueuedSince(h)' <= most1 + spent1
      <4>1. h > start
        BY <1>1, <1>4, <1>7, <1>8, <1>10, <2>2, <3>3
      <4>2. UnqueuedSince(h) <= spent
        BY <1>7, <4>1
      <4>3. UnqueuedSince(h)' <= UnqueuedSince(h) + n
        BY <1>6, <2>0
      <4> QED BY <1>1, <1>4, <1>6, <1>7, <2>0, <2>2, <4>2, <4>3
    <3> QED BY <3>1, <3>2, <3>3
  <2> QED BY <1>1, <1>11, <2>0, <2>1, <2>2
<1>13. burnHeight' = burnHeight
  OBVIOUS
<1>14. PeriodsDisjoint'
  BY <1>12, <1>13 DEF PeriodsDisjoint
<1>15. UnqueuedWithinTwoThresholds'
  BY <1>2, <1>4, <1>5, <1>14, StretchesFollow DEF UnqueuedInv
<1> QED BY <1>5, <1>14, <1>15

\* Before onboard nobody can call: the seat is empty and the passkey unmapped.
LEMMA NobodyCalls ==
  ASSUME SeatInv, ~pubkeyInitialized
  PROVE  ~(Spending \/ Staking \/ Settling \/ PolicyChange \/ Handover \/ Recovery)
<1> USE PrincipalsAssumption DEF SeatInv, OneSeat
<1>1. \A u \in Users : ~ByAdmin(u) /\ u # recoveryAddress
  BY DEF ByAdmin, IsAdminCalling
<1>2. \A c, enforce : ~ByPasskey(c, enforce)
  BY DEF ByPasskey, ConsumeSignature
<1>3. \A c \in Calls : ~Authorised(c)
  BY <1>1, <1>2 DEF Authorised, Calls
<1>4. ~(Spending \/ Staking)
  <2>1. \A c, asset, type, a, fee, m : Spend(asset, type, a, fee, m, c) => Authorised(c)
    BY ONLY DEF Spend
  <2>2. \A c, asset, a : SendUncapped(asset, a, c) => Authorised(c)
    BY ONLY DEF SendUncapped
  <2>3. \A c, a : LockStx(a, c) => Authorised(c)
    BY ONLY DEF LockStx
  <2> QED BY ONLY <1>3, <2>1, <2>2, <2>3 DEF Spending, StxTransfer, Sip010Transfer, Sip009Transfer,
        SbtcInitiateWithdrawal, Staking, StakeStxJuice, UpdateStakeStxJuice, Unstake
<1>5. ~Settling
  BY <1>1, <1>2, <1>3 DEF Settling, ExecutePending, ExecutePendingNow, VetoOperation
<1>6. ~PolicyChange
  BY <1>1, <1>2, <1>3 DEF PolicyChange, ProposeMaxGasAmount, SignalConfigChange,
       ConfirmMaxGasAmount, SetWalletConfig, ToggleTokenLock
<1>7. ~(Handover \/ Recovery)
  BY <1>1, <1>2 DEF Handover, ProposeTransferWallet, ConfirmTransferWallet, ProposeRecovery,
       ConfirmRecovery, Recovery, RecoverInactiveWallet
<1> QED BY <1>4, <1>5, <1>6, <1>7

\* The calls of an actor take no block and undo no onboarding.
LEMMA CallsKeepTheBlock ==
  ASSUME Spending \/ Staking \/ Settling \/ PolicyChange \/ Handover \/ Recovery
  PROVE  burnHeight' = burnHeight /\ pubkeyInitialized' = pubkeyInitialized
<1>1. CASE Spending \/ Staking
  <2> DEFINE Kept == burnHeight' = burnHeight /\ pubkeyInitialized' = pubkeyInitialized
  <2>1. \A c, asset, type, a, fee, m : Spend(asset, type, a, fee, m, c) => Kept
    BY ONLY DEF Spend, seatVars
  <2>2. \A c, asset, a : SendUncapped(asset, a, c) => Kept
    BY ONLY DEF SendUncapped, seatVars
  <2>3. \A c, a : LockStx(a, c) => Kept
    BY ONLY DEF LockStx, seatVars
  <2> HIDE DEF Kept
  <2>4. Kept
    BY ONLY <1>1, <2>1, <2>2, <2>3 DEF Spending, StxTransfer, Sip010Transfer, Sip009Transfer,
        SbtcInitiateWithdrawal, Staking, StakeStxJuice, UpdateStakeStxJuice, Unstake
  <2> QED BY <2>4 DEF Kept
<1>2. CASE Settling
  BY <1>2 DEF Settling, ExecutePending, ExecutePendingNow, PayOut, VetoOperation, seatVars
<1>3. CASE PolicyChange
  BY <1>3 DEF PolicyChange, ProposeMaxGasAmount, SignalConfigChange, ConfirmMaxGasAmount,
       SetWalletConfig, ToggleTokenLock, seatVars
<1>4. CASE Handover \/ Recovery
  BY <1>4 DEF Handover, ProposeTransferWallet, ConfirmTransferWallet, ProposeRecovery,
       ConfirmRecovery, Recovery, RecoverInactiveWallet, seatVars
<1> QED BY <1>1, <1>2, <1>3, <1>4

\* With nothing spent, every sum is 0.
LEMMA SumsOfNothing ==
  ASSUME NEW f, \A k \in Blocks : f[k] = 0
  PROVE  \A S \in SUBSET Blocks : SumFunctionOnSet(f, S) = 0
<1> SUFFICES ASSUME NEW S \in SUBSET Blocks PROVE SumFunctionOnSet(f, S) = 0
  OBVIOUS
<1>1. IsFiniteSet(S) /\ \A k \in S : f[k] = 0
  BY BlocksFinite, FS_Subset
<1> QED BY <1>1, SumOfZeros

LEMMA StretchesAreBlocks ==
  \A h \in Blocks : /\ h .. MaxHeight \in SUBSET Blocks
                    /\ \A n \in Nat : {k \in h .. h + n : k <= MaxHeight} \in SUBSET Blocks
BY BlocksFinite

LEMMA UnqueuedPreserved ==
  ASSUME TypeOK, TypeOK', SeatInv, UnqueuedInv, HNext
  PROVE  UnqueuedInv'
<1>1. CASE (NextBlock \/ Unlock) /\ UNCHANGED history
  <2>1. /\ UNCHANGED <<factors, onboarded, unqueuedStx, loosest>>
        /\ UNCHANGED <<walletConfig, spentThisPeriod, pubkeyInitialized>>
        /\ burnHeight' >= burnHeight
    BY <1>1 DEF NextBlock, Unlock, history, configVars, moneyVars, seatVars, TypeOK
  <2>2. /\ burnHeight \in Nat /\ burnHeight' \in Nat /\ spentThisPeriod.periodStart \in Nat
    BY DEF TypeOK, Counters
  <2>3. HistoryTyped'
    BY <2>1, <2>2 DEF UnqueuedInv, HistoryTyped, Blocks
  <2>4. PeriodsDisjoint'
    BY <2>1, <2>2 DEF UnqueuedInv, PeriodsDisjoint, UnqueuedSince
  <2>5. UnqueuedWithinTwoThresholds' /\ (~pubkeyInitialized' => NothingLeft')
    BY <2>1 DEF UnqueuedInv, UnqueuedWithinTwoThresholds, NothingLeft
  <2> QED BY <2>3, <2>4, <2>5 DEF UnqueuedInv
<1>2. CASE /\ Onboarding /\ onboarded' = Settings' /\ loosest' = Limits'
           /\ UNCHANGED <<factors, unqueuedStx>>
  <2>1. /\ ~pubkeyInitialized /\ pubkeyInitialized'
        /\ UNCHANGED <<burnHeight, spentThisPeriod>>
    BY <1>2 DEF Onboarding, Onboard, moneyVars
  <2>2. NothingLeft' /\ spentThisPeriod'.periodStart <= burnHeight'
    BY <1>2, <2>1 DEF UnqueuedInv, NothingLeft, PeriodsDisjoint
  <2>3. HistoryTyped'
    <3>1. walletConfig'.stx \in Nat /\ walletConfig'.cooldown \in Nat
      BY DEF TypeOK
    <3>2. loosest' = [stx |-> walletConfig'.stx, cooldown |-> walletConfig'.cooldown]
      BY <1>2 DEF Limits
    <3> QED BY <1>2, <2>1, <3>1, <3>2 DEF UnqueuedInv, HistoryTyped
  <2>4. \A S \in SUBSET Blocks : SumFunctionOnSet(unqueuedStx', S) = 0
    BY <2>2, SumsOfNothing DEF NothingLeft
  <2>5. loosest'.stx \in Nat /\ loosest'.cooldown \in Nat
    BY <2>3 DEF HistoryTyped
  <2>6. PeriodsDisjoint'
    <3>1. \A h \in Blocks : UnqueuedSince(h)' = 0
      BY <2>4, StretchesAreBlocks DEF UnqueuedSince
    <3>2. spentThisPeriod'.stx = 0 /\ spentThisPeriod'.periodStart <= burnHeight'
      BY <2>2 DEF NothingLeft
    <3> QED BY <2>5, <3>1, <3>2 DEF PeriodsDisjoint
  <2>7. UnqueuedWithinTwoThresholds'
    BY <2>4, <2>5, StretchesAreBlocks DEF UnqueuedWithinTwoThresholds, Blocks
  <2> QED BY <2>1, <2>3, <2>6, <2>7 DEF UnqueuedInv
<1>3. ASSUME NEW actor, Observe(actor),
             Spending \/ Staking \/ Settling \/ PolicyChange \/ Handover \/ Recovery
      PROVE  UnqueuedInv'
  <2>1. Next /\ OneSeat
    BY <1>3 DEF Next, SeatInv
  <2>2. LeftUnqueued \in Nat /\ CountsAtLeast(LeftUnqueued)
    BY <2>1, UnqueuedIsCounted
  <2>3. burnHeight' = burnHeight /\ pubkeyInitialized'
    BY <1>3, CallsKeepTheBlock, NobodyCalls DEF TypeOK
  <2>4. HistoryTyped' /\ PeriodsDisjoint' /\ UnqueuedWithinTwoThresholds'
    BY <1>3, <2>2, <2>3, BookedInPeriod
  <2> QED BY <2>3, <2>4 DEF UnqueuedInv
<1> QED BY <1>1, <1>2, <1>3 DEF HNext

\* In any stretch of one cooldown at most twice the threshold leaves unqueued,
\* however the spending is spread over calls and blocks and whatever policy
\* changes fall in between: the lazily reset counter lets one period end and
\* the next one start inside the stretch, never a third (current-spent,
\* add-spent-stx, stx-transfer, set-wallet-config).
THEOREM TwoThresholdsAtMost == HSpec => []UnqueuedWithinTwoThresholds
<1>1. HInit => UnqueuedInv
  <2> SUFFICES ASSUME HInit PROVE UnqueuedInv
    OBVIOUS
  <2>1. TypeOK
    BY InitType DEF HInit
  <2>2. HistoryTyped
    <3>1. walletConfig.stx \in Nat /\ walletConfig.cooldown \in Nat
      BY <2>1 DEF TypeOK
    <3>2. loosest = [stx |-> walletConfig.stx, cooldown |-> walletConfig.cooldown]
      BY DEF HInit, Limits
    <3>3. unqueuedStx = [k \in Blocks |-> 0]
      BY DEF HInit, Blocks
    <3> QED BY <3>1, <3>2, <3>3 DEF HistoryTyped
  <2>3. NothingLeft /\ spentThisPeriod.periodStart <= burnHeight
    BY DEF HInit, Init, NothingLeft, Blocks
  <2>4. \A S \in SUBSET Blocks : SumFunctionOnSet(unqueuedStx, S) = 0
    BY <2>3, SumsOfNothing DEF NothingLeft
  <2>5. loosest.stx \in Nat /\ loosest.cooldown \in Nat
    BY <2>2 DEF HistoryTyped
  <2>6. PeriodsDisjoint
    <3>1. \A h \in Blocks : UnqueuedSince(h) = 0
      BY <2>4, StretchesAreBlocks DEF UnqueuedSince
    <3>2. spentThisPeriod.stx = 0 /\ spentThisPeriod.periodStart <= burnHeight
      BY <2>3 DEF NothingLeft
    <3> QED BY <2>5, <3>1, <3>2 DEF PeriodsDisjoint
  <2>7. UnqueuedWithinTwoThresholds
    BY <2>4, <2>5, StretchesAreBlocks DEF UnqueuedWithinTwoThresholds, Blocks
  <2> QED BY <2>2, <2>3, <2>6, <2>7 DEF UnqueuedInv
<1>2. TypeOK /\ TypeOK' /\ SeatInv /\ UnqueuedInv /\ [HNext]_<<vars, history>> => UnqueuedInv'
  <2>1. UnqueuedInv /\ UNCHANGED <<vars, history>> => UnqueuedInv'
    <3> SUFFICES ASSUME UnqueuedInv, UNCHANGED <<vars, history>>
                 PROVE  UnqueuedInv'
      OBVIOUS
    <3>1. UNCHANGED <<unqueuedStx, loosest, walletConfig, spentThisPeriod, burnHeight,
                      pubkeyInitialized>>
      BY DEF vars, history, configVars, moneyVars, seatVars
    <3> QED BY <3>1 DEF UnqueuedInv, HistoryTyped, PeriodsDisjoint, NothingLeft,
                        UnqueuedWithinTwoThresholds, UnqueuedSince
  <2> QED BY <2>1, UnqueuedPreserved
<1>3. UnqueuedInv => UnqueuedWithinTwoThresholds
  BY DEF UnqueuedInv
<1> QED BY <1>1, <1>2, <1>3, HistoryObserves, TypeCorrect, SeatsStayInvariant, PTL DEF HSpec
=============================================================================
