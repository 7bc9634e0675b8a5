------------------------------ MODULE JuiceSafe ------------------------------
(***************************************************************************)
(* The two-factor wallet of contracts/juice-safe-v9.clar: an admin key     *)
(* (the transaction sender) and a passkey (a WebAuthn assertion any relay  *)
(* may submit) share one safe.  Transfers below a per-period threshold     *)
(* leave at once, larger ones are queued; policy, ownership and recovery   *)
(* change through propose/confirm pairs that need both factors.            *)
(*                                                                         *)
(* A Clarity transaction is atomic: a call that returns an error leaves no *)
(* trace, so an action is the whole successful call and an error return is *)
(* the action not being enabled.  What interleaves are the calls of the    *)
(* admin, of whoever relays passkey assertions, of the recovery address,   *)
(* of the deployer, and the burn chain.                                    *)
(*                                                                         *)
(* Definitions named Slip... are plausible mistakes in the definition that *)
(* follows them.  Nothing uses them: each shows that some property would   *)
(* notice the mistake.                                                     *)
(***************************************************************************)
EXTENDS Integers, Sequences, FiniteSets

CONSTANTS
  Users,          \* principals that can send transactions
  Nobody,         \* the placeholder principal 'SP000000000000000000002Q6VF78
  Self,           \* the wallet contract itself (current-contract)
  Deployer,       \* FAKFUN-DEPLOYER, the only caller of onboard
  NoKey,          \* "no entry" in pubkey-to-admin
  Assertions,     \* WebAuthn assertions: one per passkey gesture
  Hashes,         \* operation hashes (operation, arguments and auth-id)
  Signs,          \* <<assertion, hash>>: the helper accepts it for that hash
  NoGas,          \* the call names no gas station
  GasFees,        \* fees a gas station may take, in sats
  Memos,          \* memos of transfers
  Amounts,        \* amounts of transfers: a set for each of "stx", "sbtc", "other"
  Withdrawals,    \* [amount, maxFee] of sBTC withdrawals
  Stakes,         \* amounts of STX staked or added to the stake
  Onboardings,    \* [owner, recovery, config] the deployer may onboard with
  Configs,        \* [stx, sbtc, cooldown] signal-config-change may ask for
  GasAmounts,     \* amounts propose-max-gas-amount may ask for
  Candidates,     \* principals named as a new admin or a new recovery address
  InitialFunds,   \* [stx, sbtc, other, nft, staked] the wallet holds; stx is unlocked
  InitialMaxGas,  \* max-gas-amount at deployment
  DefaultConfig,  \* wallet-config at deployment
  MinCooldown,    \* MIN-COOLDOWN
  MaxCooldown,    \* MAX-CONFIG-COOLDOWN
  MaxGasCeiling,  \* MAX-GAS-CEILING
  GasCalls,       \* GAS-CALLS-PER-PERIOD
  Inactivity,     \* INACTIVITY-PERIOD
  MaxHeight,      \* bound: the last burn block explored
  MaxOps          \* bound: operations ever queued

Principals == Users \cup {Nobody, Self}
Assets == {"stx", "sbtc", "other", "nft"}
OpTypes == {"stx-transfer", "sbtc-transfer", "sbtc-withdraw"}
Ledger == [stx : Nat, sbtc : Nat, other : Nat, nft : Nat, staked : Nat]
Counters == [stx : Nat, sbtc : Nat, gas : Nat, periodStart : Nat]
Policy == [stx : Nat, sbtc : Nat, cooldown : Nat]

ASSUME PrincipalsAssumption ==
  /\ Nobody \notin Users /\ Self \notin Users /\ Nobody # Self
  /\ NoKey \notin Principals
  /\ Deployer \in Users
  /\ Candidates \subseteq Principals
ASSUME SignaturesAssumption == Signs \subseteq Assertions \X Hashes
ASSUME InputsAssumption ==
  /\ NoGas \notin Nat /\ GasFees \subseteq Nat
  /\ Amounts \in [{"stx", "sbtc", "other"} -> SUBSET Nat] /\ \A a \in DOMAIN Amounts : 0 \notin Amounts[a]
  /\ Withdrawals \subseteq [amount : Nat, maxFee : Nat] /\ Stakes \subseteq Nat \ {0}
  /\ Onboardings \subseteq [owner : Principals, recovery : Principals, config : Policy]
  /\ Configs \subseteq Policy /\ GasAmounts \subseteq Nat
  /\ InitialFunds \in Ledger
ASSUME LimitsAssumption ==
  /\ MinCooldown \in Nat \ {0} /\ MaxCooldown \in Nat /\ MinCooldown <= MaxCooldown
  /\ MaxGasCeiling \in Nat /\ GasCalls \in Nat /\ Inactivity \in Nat
  /\ InitialMaxGas \in 0 .. MaxGasCeiling
  /\ DefaultConfig \in Policy
  /\ DefaultConfig.cooldown \in MinCooldown .. MaxCooldown
  /\ MaxHeight \in Nat /\ MaxOps \in Nat

VARIABLES
  burnHeight,                 \* burn-block-height
  lastActivityBlock,
  owner, admins,              \* admins: the keys of the map that are present
  pubkeyInitialized,
  pubkeyToAdmin,              \* the principal the one onboarded passkey maps to
  recoveryAddress, pendingRecovery, pendingTransfer,
  usedPubkeyAuthorizations, usedAssertions,
  walletConfig,               \* signaledAt = 0 stands for none
  pendingConfig, maxGasAmount, pendingMaxGas, tokenLockEnabled,
  spentThisPeriod,
  pendingOperations,          \* operation op-id is entry op-id + 1
  funds                       \* external: the ledgers' balances of the wallet

seatVars == <<owner, admins, pubkeyInitialized, pubkeyToAdmin>>
handoverVars == <<recoveryAddress, pendingRecovery, pendingTransfer>>
signatureVars == <<usedPubkeyAuthorizations, usedAssertions>>
configVars == <<walletConfig, pendingConfig>>
gasLimitVars == <<maxGasAmount, pendingMaxGas>>
moneyVars == <<spentThisPeriod, funds>>
vars == <<burnHeight, lastActivityBlock, seatVars, handoverVars, signatureVars,
          configVars, gasLimitVars, tokenLockEnabled, moneyVars, pendingOperations>>

Operation == [type : OpTypes, amount : Nat, maxFee : Nat, memo : Memos,
              created : Nat,       \* history: the block that queued it
              executeAfter : Nat, executed : BOOLEAN, vetoed : BOOLEAN,
              passkeyCreated : BOOLEAN]

\* A call authorised by the transaction sender, or by a passkey assertion
\* that may also name a gas station; `gas` is read on the passkey path only.
Calls == [by : {"admin"}, sender : Users, gas : {NoGas}]
           \cup [by : {"passkey"}, sig : Signs, gas : {NoGas} \cup GasFees]
PasskeyCalls == {c \in Calls : c.by = "passkey"}

Min2(a, b) == IF a <= b THEN a ELSE b
-----------------------------------------------------------------------------
(* Spending periods.  The counters are reset lazily: whoever writes them    *)
(* next starts a new period if the cooldown in force by then has passed.    *)

PeriodExpired(s) == burnHeight > s.periodStart + walletConfig.cooldown
SlipNewPeriodKeepsStart(s) ==
  IF PeriodExpired(s) THEN [stx |-> 0, sbtc |-> 0, gas |-> 0, periodStart |-> s.periodStart] ELSE s
CurrentSpent(s) == IF PeriodExpired(s)
                   THEN [stx |-> 0, sbtc |-> 0, gas |-> 0, periodStart |-> burnHeight]
                   ELSE s
AddSpent(s, counter, amount) == [CurrentSpent(s) EXCEPT ![counter] = @ + amount]
WouldExceed(s, asset, amount) == CurrentSpent(s)[asset] + amount > walletConfig[asset]
MaxGasPerPeriod == maxGasAmount * GasCalls

\* pay-gas-accounted: the fee is the drop of the sBTC balance, bounded by the
\* allowance; GAS-ENFORCED calls also keep the period's gas within its cap.
SlipGasCapPerCallOnly(gas, enforce) ==
  gas # NoGas => gas <= maxGasAmount /\ gas <= funds.sbtc
GasAllowed(gas, enforce) ==
  gas # NoGas =>
    /\ gas <= maxGasAmount /\ gas <= funds.sbtc
    /\ enforce => CurrentSpent(spentThisPeriod).gas + gas <= MaxGasPerPeriod
SlipGasClearsSpent(gas) ==
  IF gas = NoGas THEN spentThisPeriod
  ELSE [AddSpent(spentThisPeriod, "gas", gas) EXCEPT !.sbtc = 0]
SpentAfterGas(gas) ==
  IF gas = NoGas THEN spentThisPeriod ELSE AddSpent(spentThisPeriod, "gas", gas)
FundsAfterGas(gas) ==
  IF gas = NoGas THEN funds ELSE [funds EXCEPT !.sbtc = @ - gas]
PayGas(gas) == spentThisPeriod' = SpentAfterGas(gas) /\ funds' = FundsAfterGas(gas)
-----------------------------------------------------------------------------
(* Authorisation.                                                           *)

IsAdminCalling(u) == u \in admins
SlipActivityAhead == lastActivityBlock' = burnHeight + 1
UpdateActivity == lastActivityBlock' = burnHeight

\* verify-signature and consume-signature: the passkey must map to a seated
\* admin, and neither the operation hash nor the assertion may have been used.
SlipAnyPasskey(sig) ==
  /\ sig[2] \notin usedPubkeyAuthorizations /\ sig[1] \notin usedAssertions
  /\ usedPubkeyAuthorizations' = usedPubkeyAuthorizations \cup {sig[2]}
  /\ usedAssertions' = usedAssertions \cup {sig[1]}
SlipReplayByHashOnly(sig) ==
  /\ pubkeyToAdmin # NoKey /\ IsAdminCalling(pubkeyToAdmin)
  /\ sig[2] \notin usedPubkeyAuthorizations
  /\ usedPubkeyAuthorizations' = usedPubkeyAuthorizations \cup {sig[2]}
  /\ usedAssertions' = usedAssertions \cup {sig[1]}
ConsumeSignature(sig) ==
  /\ pubkeyToAdmin # NoKey /\ IsAdminCalling(pubkeyToAdmin)
  /\ sig[2] \notin usedPubkeyAuthorizations
  /\ sig[1] \notin usedAssertions
  /\ usedPubkeyAuthorizations' = usedPubkeyAuthorizations \cup {sig[2]}
  /\ usedAssertions' = usedAssertions \cup {sig[1]}

ByAdmin(u) == IsAdminCalling(u) /\ UNCHANGED signatureVars
SlipUnverifiedPasskey(c, enforce) == GasAllowed(c.gas, enforce) /\ UNCHANGED signatureVars
ByPasskey(c, enforce) == ConsumeSignature(c.sig) /\ GasAllowed(c.gas, enforce)
Authorised(c) ==
  \/ c.by = "admin" /\ ByAdmin(c.sender)
  \/ c.by = "passkey" /\ ByPasskey(c, TRUE)
\* The spending entry points refuse passkeys while the token lock is on.
NotLockedOut(c) == c.by = "passkey" => ~tokenLockEnabled
-----------------------------------------------------------------------------
Init ==
  /\ burnHeight = 1 /\ lastActivityBlock = 1
  /\ owner = Nobody /\ admins = {Nobody}
  /\ pubkeyInitialized = FALSE /\ pubkeyToAdmin = NoKey
  /\ recoveryAddress = Nobody /\ pendingRecovery = Nobody /\ pendingTransfer = Nobody
  /\ usedPubkeyAuthorizations = {} /\ usedAssertions = {}
  /\ walletConfig = [stx |-> DefaultConfig.stx, sbtc |-> DefaultConfig.sbtc,
                     cooldown |-> DefaultConfig.cooldown, signaledAt |-> 0]
  /\ pendingConfig = [stx |-> 0, sbtc |-> 0, cooldown |-> 0]
  /\ maxGasAmount = InitialMaxGas /\ pendingMaxGas = [amount |-> 0, proposedAt |-> 0]
  /\ tokenLockEnabled = FALSE
  /\ spentThisPeriod = [stx |-> 0, sbtc |-> 0, gas |-> 0, periodStart |-> 1]
  /\ pendingOperations = <<>>
  /\ funds = InitialFunds

\* The burn chain grows.
NextBlock ==
  /\ burnHeight < MaxHeight
  /\ burnHeight' = burnHeight + 1
  /\ UNCHANGED <<lastActivityBlock, seatVars, handoverVars, signatureVars, configVars,
                 gasLimitVars, tokenLockEnabled, moneyVars, pendingOperations>>

LegalCooldown(n) == n \in MinCooldown .. MaxCooldown

\* onboard: the deployer binds the passkey to the first owner, once.
Onboard(newOwner, recovery, config, u) ==
  /\ u = Deployer
  /\ ~pubkeyInitialized
  /\ newOwner # Self /\ recovery # Self /\ recovery # newOwner
  /\ LegalCooldown(config.cooldown)
  /\ pubkeyToAdmin' = newOwner
  /\ admins' = (admins \ {Nobody}) \cup {newOwner}
  /\ owner' = newOwner
  /\ recoveryAddress' = recovery
  /\ walletConfig' = [stx |-> config.stx, sbtc |-> config.sbtc,
                      cooldown |-> config.cooldown, signaledAt |-> 0]
  /\ pubkeyInitialized' = TRUE
  /\ UpdateActivity
  /\ UNCHANGED <<burnHeight, pendingRecovery, pendingTransfer, signatureVars,
                 pendingConfig, gasLimitVars, tokenLockEnabled, moneyVars,
                 pendingOperations>>
-----------------------------------------------------------------------------
(* Money leaving the wallet.                                                *)

CreatePendingOperation(type, amount, maxFee, memo, c) ==
  /\ Len(pendingOperations) < MaxOps
  /\ pendingOperations' = Append(pendingOperations,
       [type |-> type, amount |-> amount, maxFee |-> maxFee, memo |-> memo,
        created |-> burnHeight,
        executeAfter |-> burnHeight + walletConfig.cooldown,
        executed |-> FALSE, vetoed |-> FALSE, passkeyCreated |-> (c.by = "passkey")])

\* The thresholded transfers: pay the gas, then queue the transfer if it would
\* push the period's counter over the threshold, else count it and send it.
Spend(asset, type, amount, maxFee, memo, c) ==
  LET cost == amount + maxFee
      spent == SpentAfterGas(c.gas)
      held == FundsAfterGas(c.gas)
  IN  /\ NotLockedOut(c) /\ Authorised(c) /\ UpdateActivity
      /\ \/ /\ WouldExceed(spent, asset, cost)
            /\ CreatePendingOperation(type, amount, maxFee, memo, c)
            /\ spentThisPeriod' = spent /\ funds' = held
         \/ /\ ~WouldExceed(spent, asset, cost)
            /\ cost <= held[asset]
            /\ spentThisPeriod' = AddSpent(spent, asset, cost)
            /\ funds' = [held EXCEPT ![asset] = @ - cost]
            /\ UNCHANGED pendingOperations
      /\ UNCHANGED <<burnHeight, seatVars, handoverVars, configVars, gasLimitVars,
                     tokenLockEnabled>>

\* Tokens without a threshold: any SIP-010 token but sBTC, and any SIP-009 NFT.
SendUncapped(asset, amount, c) ==
  /\ NotLockedOut(c) /\ Authorised(c) /\ UpdateActivity
  /\ amount <= funds[asset]
  /\ spentThisPeriod' = SpentAfterGas(c.gas)
  /\ funds' = [FundsAfterGas(c.gas) EXCEPT ![asset] = @ - amount]
  /\ UNCHANGED <<burnHeight, seatVars, handoverVars, configVars, gasLimitVars,
                 tokenLockEnabled, pendingOperations>>

StxTransfer(amount, memo, c) == Spend("stx", "stx-transfer", amount, 0, memo, c)
Sip010Transfer(token, amount, memo, c) ==
  \/ token = "sbtc" /\ Spend("sbtc", "sbtc-transfer", amount, 0, memo, c)
  \/ token = "other" /\ SendUncapped("other", amount, c)
Sip009Transfer(c) == SendUncapped("nft", 1, c)
\* The queued payload of a withdrawal is {recipient, max-fee}; it has no memo.
SbtcInitiateWithdrawal(amount, maxFee, c) ==
  \E noMemo \in Memos : Spend("sbtc", "sbtc-withdraw", amount, maxFee, noMemo, c)

AssetOf(op) == IF op.type = "stx-transfer" THEN "stx" ELSE "sbtc"
CostOf(op) == op.amount + op.maxFee
SlipVetoIgnored(i) == i \in DOMAIN pendingOperations /\ ~pendingOperations[i].executed
Payable(i) == i \in DOMAIN pendingOperations /\ ~pendingOperations[i].executed
                                             /\ ~pendingOperations[i].vetoed
SlipCooldownOfNow(op) == burnHeight >= op.created + walletConfig.cooldown
CooldownPassed(op) == burnHeight >= op.executeAfter

\* The wallet, holding `held` after gas, pays operation i out.
PayOut(i, held) ==
  LET op == pendingOperations[i]
  IN  /\ CostOf(op) <= held[AssetOf(op)]
      /\ funds' = [held EXCEPT ![AssetOf(op)] = @ - CostOf(op)]
      /\ pendingOperations' = [pendingOperations EXCEPT ![i].executed = TRUE]
      /\ UpdateActivity
      /\ UNCHANGED <<burnHeight, seatVars, handoverVars, configVars, gasLimitVars,
                     tokenLockEnabled>>

\* execute-pending-{stx-transfer, sbtc-transfer, sbtc-withdrawal}: the admin,
\* after the cooldown.  The memo of the payment is the caller's, not compared
\* with the queued one.
ExecutePending(type, i, u) ==
  /\ Payable(i) /\ pendingOperations[i].type = type
  /\ CooldownPassed(pendingOperations[i])
  /\ ByAdmin(u)
  /\ UNCHANGED spentThisPeriod
  /\ PayOut(i, funds)

\* execute-pending-*-now: the passkey countersigns what the admin queued.
SlipOneFactor(op) == TRUE
SecondFactor(op) == ~op.passkeyCreated
ExecutePendingNow(type, i, memo, c) ==
  /\ Payable(i) /\ pendingOperations[i].type = type
  /\ type # "sbtc-withdraw" => memo = pendingOperations[i].memo
  /\ SecondFactor(pendingOperations[i])
  /\ ~tokenLockEnabled
  /\ ByPasskey(c, TRUE)
  /\ spentThisPeriod' = SpentAfterGas(c.gas)
  /\ PayOut(i, FundsAfterGas(c.gas))

VetoOperation(i, c) ==
  /\ i \in DOMAIN pendingOperations
  /\ Authorised(c) /\ PayGas(c.gas)
  /\ ~pendingOperations[i].executed
  /\ pendingOperations' = [pendingOperations EXCEPT ![i].vetoed = TRUE]
  /\ UpdateActivity
  /\ UNCHANGED <<burnHeight, seatVars, handoverVars, configVars, gasLimitVars,
                 tokenLockEnabled>>
-----------------------------------------------------------------------------
(* Staking.  Locked STX stays the wallet's but cannot be spent; what pox-5  *)
(* checks beyond that (signer, cycles, calldata) is abstracted.             *)

SlipStakeWhileLocked(amount, c) ==
  /\ Authorised(c) /\ UpdateActivity
  /\ amount <= funds.stx
  /\ spentThisPeriod' = SpentAfterGas(c.gas)
  /\ funds' = [FundsAfterGas(c.gas) EXCEPT !.stx = @ - amount, !.staked = @ + amount]
  /\ UNCHANGED <<burnHeight, seatVars, handoverVars, configVars, gasLimitVars,
                 tokenLockEnabled, pendingOperations>>
\* A staking call that moves `amount` from the unlocked to the locked balance.
LockStx(amount, c) ==
  /\ NotLockedOut(c) /\ Authorised(c) /\ UpdateActivity
  /\ amount <= funds.stx
  /\ spentThisPeriod' = SpentAfterGas(c.gas)
  /\ funds' = [FundsAfterGas(c.gas) EXCEPT !.stx = @ - amount, !.staked = @ + amount]
  /\ UNCHANGED <<burnHeight, seatVars, handoverVars, configVars, gasLimitVars,
                 tokenLockEnabled, pendingOperations>>

StakeStxJuice(amount, c) == amount > 0 /\ funds.staked = 0 /\ LockStx(amount, c)
\* An increase of 0 extends the number of cycles only.
UpdateStakeStxJuice(increase, c) == funds.staked > 0 /\ LockStx(increase, c)
\* Unstaking shortens the lock; the balance unlocks when pox-5 says so.
Unstake(c) == funds.staked > 0 /\ LockStx(0, c)
Unlock ==
  /\ funds.staked > 0
  /\ funds' = [funds EXCEPT !.stx = @ + funds.staked, !.staked = 0]
  /\ UNCHANGED <<burnHeight, lastActivityBlock, seatVars, handoverVars, signatureVars,
                 configVars, gasLimitVars, tokenLockEnabled, spentThisPeriod,
                 pendingOperations>>
-----------------------------------------------------------------------------
(* Policy: thresholds and cooldown, the gas ceiling, the token lock.        *)

\* The proposal clocks wait for the cooldown in force at confirmation.
SlipUnproposed(since) == burnHeight >= since + Min2(walletConfig.cooldown, MaxCooldown)
SlipAtOnce(since) == since # 0
TimelockPassed(since) ==
  since # 0 /\ burnHeight >= since + Min2(walletConfig.cooldown, MaxCooldown)

ProposeMaxGasAmount(amount, u) ==
  /\ ByAdmin(u)
  /\ amount <= MaxGasCeiling
  /\ pendingMaxGas' = [amount |-> amount, proposedAt |-> burnHeight]
  /\ UpdateActivity
  /\ UNCHANGED <<burnHeight, seatVars, handoverVars, configVars, maxGasAmount,
                 tokenLockEnabled, moneyVars, pendingOperations>>

ConfirmMaxGasAmount(c) ==
  /\ ByPasskey(c, TRUE) /\ PayGas(c.gas)
  /\ TimelockPassed(pendingMaxGas.proposedAt)
  /\ maxGasAmount' = pendingMaxGas.amount
  /\ pendingMaxGas' = [amount |-> 0, proposedAt |-> 0]
  /\ UpdateActivity
  /\ UNCHANGED <<burnHeight, seatVars, handoverVars, configVars, tokenLockEnabled,
                 pendingOperations>>

\* Either factor may engage the lock, only the admin releases it.
ToggleTokenLock(enabled, c) ==
  /\ owner # Nobody
  /\ \/ enabled /\ Authorised(c) /\ PayGas(c.gas)
     \/ ~enabled /\ c.by = "admin" /\ ByAdmin(c.sender) /\ UNCHANGED moneyVars
  /\ tokenLockEnabled' = enabled
  /\ UpdateActivity
  /\ UNCHANGED <<burnHeight, seatVars, handoverVars, configVars, gasLimitVars,
                 pendingOperations>>

SignalConfigChange(config, u) ==
  /\ ByAdmin(u)
  /\ LegalCooldown(config.cooldown)
  /\ pendingConfig' = config
  /\ walletConfig' = [walletConfig EXCEPT !.signaledAt = burnHeight]
  /\ UpdateActivity
  /\ UNCHANGED <<burnHeight, seatVars, handoverVars, gasLimitVars, tokenLockEnabled,
                 moneyVars, pendingOperations>>

SetWalletConfig(c) ==
  /\ ByPasskey(c, TRUE) /\ PayGas(c.gas)
  /\ TimelockPassed(walletConfig.signaledAt)
  /\ walletConfig' = [stx |-> pendingConfig.stx, sbtc |-> pendingConfig.sbtc,
                      cooldown |-> pendingConfig.cooldown, signaledAt |-> 0]
  /\ pendingConfig' = [stx |-> 0, sbtc |-> 0, cooldown |-> 0]
  /\ UpdateActivity
  /\ UNCHANGED <<burnHeight, seatVars, handoverVars, gasLimitVars, tokenLockEnabled,
                 pendingOperations>>
-----------------------------------------------------------------------------
(* Ownership and recovery.                                                  *)

ProposeTransferWallet(newAdmin, u) ==
  /\ ByAdmin(u)
  /\ newAdmin # u
  /\ pendingTransfer' = newAdmin
  /\ UpdateActivity
  /\ UNCHANGED <<burnHeight, seatVars, recoveryAddress, pendingRecovery, configVars,
                 gasLimitVars, tokenLockEnabled, moneyVars, pendingOperations>>

\* The one gas-exempt call: a handover must not be starved by the gas cap.
ConfirmTransferWallet(c) ==
  /\ pendingTransfer # Nobody
  /\ ByPasskey(c, FALSE) /\ PayGas(c.gas)
  /\ pendingTransfer # Self /\ pendingTransfer # owner
  /\ admins' = (admins \cup {pendingTransfer}) \ {owner}
  /\ owner' = pendingTransfer
  /\ pendingTransfer' = Nobody
  /\ UpdateActivity
  /\ UNCHANGED <<burnHeight, pubkeyInitialized, pubkeyToAdmin, recoveryAddress,
                 pendingRecovery, configVars, gasLimitVars, tokenLockEnabled,
                 pendingOperations>>

ProposeRecovery(newRecovery, c) ==
  /\ ByPasskey(c, TRUE) /\ PayGas(c.gas)
  /\ newRecovery # Self
  /\ pendingRecovery' = newRecovery
  /\ UpdateActivity
  /\ UNCHANGED <<burnHeight, seatVars, recoveryAddress, pendingTransfer, configVars,
                 gasLimitVars, tokenLockEnabled, pendingOperations>>

ConfirmRecovery(u) ==
  /\ pendingRecovery # Nobody
  /\ ByAdmin(u)
  /\ recoveryAddress' = pendingRecovery
  /\ pendingRecovery' = Nobody
  /\ UpdateActivity
  /\ UNCHANGED <<burnHeight, seatVars, pendingTransfer, configVars, gasLimitVars,
                 tokenLockEnabled, moneyVars, pendingOperations>>

SlipInactiveOneEarly == burnHeight >= Inactivity + lastActivityBlock
SlipInactiveUnlessLocked == ~tokenLockEnabled /\ burnHeight > Inactivity + lastActivityBlock
IsInactive == burnHeight > Inactivity + lastActivityBlock

\* The old seat is removed first, so recovering to the same owner keeps it.
SlipSeatRemovedLast(n) == admins' = (admins \cup {n}) \ {owner} /\ owner' = n
SeatRecovered(n) == admins' = (admins \ {owner}) \cup {n} /\ owner' = n

RecoverInactiveWallet(newAdmin, u) ==
  /\ IsInactive
  /\ u = recoveryAddress
  /\ newAdmin # Self
  /\ SeatRecovered(newAdmin)
  /\ UpdateActivity
  /\ UNCHANGED <<burnHeight, pubkeyInitialized, pubkeyToAdmin, handoverVars,
                 signatureVars, configVars, gasLimitVars, tokenLockEnabled, moneyVars,
                 pendingOperations>>
-----------------------------------------------------------------------------
Onboarding ==
  \E o \in Onboardings, u \in Users : Onboard(o.owner, o.recovery, o.config, u)
Spending ==
  \E c \in Calls :
    \/ \E m \in Memos :
         \/ \E a \in Amounts["stx"] : StxTransfer(a, m, c)
         \/ \E token \in {"sbtc", "other"} :
              \E a \in Amounts[token] : Sip010Transfer(token, a, m, c)
    \/ \E w \in Withdrawals : SbtcInitiateWithdrawal(w.amount, w.maxFee, c)
    \/ Sip009Transfer(c)
Staking ==
  \E c \in Calls :
    \/ \E a \in Stakes : StakeStxJuice(a, c)
    \/ \E a \in Stakes \cup {0} : UpdateStakeStxJuice(a, c)
    \/ Unstake(c)
Settling ==
  \E i \in 1 .. MaxOps :
    \/ \E type \in OpTypes :
         \/ \E u \in Users : ExecutePending(type, i, u)
         \/ \E c \in PasskeyCalls, m \in Memos : ExecutePendingNow(type, i, m, c)
    \/ \E c \in Calls : VetoOperation(i, c)
PolicyChange ==
  \/ \E u \in Users :
       \/ \E a \in GasAmounts : ProposeMaxGasAmount(a, u)
       \/ \E f \in Configs : SignalConfigChange(f, u)
  \/ \E c \in PasskeyCalls : ConfirmMaxGasAmount(c) \/ SetWalletConfig(c)
  \/ \E c \in Calls, enabled \in BOOLEAN : ToggleTokenLock(enabled, c)
Handover ==
  \/ \E n \in Candidates :
       \/ \E u \in Users : ProposeTransferWallet(n, u)
       \/ \E c \in PasskeyCalls : ProposeRecovery(n, c)
  \/ \E c \in PasskeyCalls : ConfirmTransferWallet(c)
  \/ \E u \in Users : ConfirmRecovery(u)
Recovery == \E n \in Candidates, u \in Users : RecoverInactiveWallet(n, u)

Next == \/ NextBlock \/ Unlock \/ Onboarding \/ Spending \/ Staking \/ Settling
        \/ PolicyChange \/ Handover \/ Recovery
Spec == Init /\ [][Next]_vars
-----------------------------------------------------------------------------
(* Invariants.                                                              *)

\* Every variable keeps its shape.
TypeOK ==
  /\ burnHeight \in Nat \ {0} /\ lastActivityBlock \in 1 .. burnHeight
  /\ owner \in Principals /\ admins \subseteq Principals
  /\ pubkeyInitialized \in BOOLEAN /\ pubkeyToAdmin \in Principals \cup {NoKey}
  /\ recoveryAddress \in Principals /\ pendingRecovery \in Principals
  /\ pendingTransfer \in Principals
  /\ usedPubkeyAuthorizations \subseteq Hashes /\ usedAssertions \subseteq Assertions
  /\ walletConfig \in [stx : Nat, sbtc : Nat, cooldown : Nat, signaledAt : Nat]
  /\ pendingConfig \in Policy
  /\ maxGasAmount \in Nat /\ pendingMaxGas \in [amount : Nat, proposedAt : Nat]
  /\ tokenLockEnabled \in BOOLEAN
  /\ spentThisPeriod \in Counters
  /\ pendingOperations \in Seq(Operation)
  /\ funds \in Ledger

\* There is always exactly one admin seat and it is the owner's, through
\* onboarding, transfers and recoveries in any order (even back to a former
\* owner); the wallet itself never holds that seat nor the recovery right, so
\* no call made as-contract can pass is-admin-calling.
OneSeat ==
  /\ admins = {owner}
  /\ owner # Self /\ recoveryAddress # Self

\* Whatever was signalled, re-signalled and applied, the cooldown in force
\* stays inside its bounds (a pending-config of zeroes is never applied), and
\* so does the gas limit: set-wallet-config and confirm-max-gas-amount check
\* neither bound themselves, they rely on what the proposal step let in.
PolicyLegal ==
  /\ walletConfig.cooldown \in MinCooldown .. MaxCooldown
  /\ walletConfig.signaledAt # 0 => pendingConfig.cooldown \in MinCooldown .. MaxCooldown
  /\ maxGasAmount <= MaxGasCeiling /\ pendingMaxGas.amount <= MaxGasCeiling

\* No operation is both paid and vetoed, and the delay fixed when it was queued
\* lies between the two cooldown bounds whatever the configuration did: the
\* owner always has the minimum time to veto, and nothing is frozen for longer
\* than the maximum.
QueueSound ==
  \A i \in DOMAIN pendingOperations :
    LET op == pendingOperations[i]
    IN  /\ ~(op.executed /\ op.vetoed)
        /\ op.executeAfter \in op.created + MinCooldown .. op.created + MaxCooldown

\* One user gesture authorises one call: as many operation hashes as
\* assertions are spent, although the helper may accept one assertion for
\* several hashes and several assertions for one hash.
OneGestureOneCall ==
  Cardinality(usedAssertions) = Cardinality(usedPubkeyAuthorizations)
-----------------------------------------------------------------------------
(* Action properties.                                                       *)

PasskeySpoke == usedAssertions' # usedAssertions
Held(f, asset) == IF asset = "stx" THEN f.stx + f.staked ELSE f[asset]
Drop(asset) == Held(funds, asset) - Held(funds', asset)
JustExecuted(i) == /\ i \in DOMAIN pendingOperations
                   /\ ~pendingOperations[i].executed
                   /\ pendingOperations'[i].executed

\* Money leaves (staked or not) in three ways only: within the threshold and counted in the
\* period's counter; as a queued operation of exactly that cost, at least the
\* minimum cooldown after it was queued or countersigned by the passkey when
\* the admin queued it; or, for sBTC, as a gas fee of a passkey call that the
\* period's gas counter shows.
GasCounted(g) == g = 0 \/ spentThisPeriod'.gas = CurrentSpent(spentThisPeriod).gas + g
OutflowAccounted ==
  [][\A asset \in {"stx", "sbtc"} :
       LET gas == IF asset = "sbtc" /\ PasskeySpoke THEN 0 .. maxGasAmount ELSE {0}
       IN  \E g \in gas :
             LET paid == Drop(asset) - g
             IN  /\ GasCounted(g)
                 /\ \/ paid = 0
                    \/ /\ spentThisPeriod'[asset] = CurrentSpent(spentThisPeriod)[asset] + paid
                       /\ spentThisPeriod'[asset] <= walletConfig[asset]
                    \/ \E i \in DOMAIN pendingOperations :
                         LET op == pendingOperations[i]
                         IN  /\ JustExecuted(i) /\ AssetOf(op) = asset /\ CostOf(op) = paid
                             /\ \/ burnHeight >= op.created + MinCooldown
                                \/ PasskeySpoke /\ ~op.passkeyCreated]_vars

\* While the token lock is on, a passkey call moves nothing but its gas fee,
\* stakes nothing and queues nothing, and it never turns the lock off.
LockHoldsPasskey ==
  [][tokenLockEnabled /\ PasskeySpoke =>
       /\ funds'.stx = funds.stx /\ funds'.staked = funds.staked
       /\ Drop("other") = 0 /\ Drop("nft") = 0
       /\ Drop("sbtc") <= maxGasAmount
       /\ Len(pendingOperations') = Len(pendingOperations)
       /\ tokenLockEnabled']_vars

\* A passkey speaks only while the principal it was onboarded for is the owner:
\* a handover or a recovery to somebody else silences it at once.
PasskeyFollowsOwner == [][PasskeySpoke => owner = pubkeyToAdmin]_vars

\* Every successful call refreshes the inactivity clock, whichever entry point
\* it came through: the recovery address can take over only after that many
\* blocks without any.
EveryCallIsActivity ==
  [][/\ burnHeight' = burnHeight /\ ~Unlock => lastActivityBlock' = burnHeight
     /\ admins' # admins /\ ~PasskeySpoke /\ pubkeyInitialized
          => burnHeight > lastActivityBlock + Inactivity]_vars

\* The gas a period's relayed calls take, which OutflowAccounted says the counter
\* shows, is capped: a call other than the
\* exempt handover never leaves the counter above the cap unless it was
\* above already, and then the call took no fee.
GasFuse ==
  [][PasskeySpoke /\ admins' = admins =>
       \/ spentThisPeriod'.gas <= MaxGasPerPeriod
       \/ spentThisPeriod'.gas = spentThisPeriod.gas]_vars
=============================================================================
