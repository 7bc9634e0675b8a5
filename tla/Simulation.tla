----------------------------- MODULE Simulation -----------------------------
(***************************************************************************)
(* The simulation scripts of the repository replayed on the models: the    *)
(* safe with or without a keeper, the trading wallet with its registries   *)
(* and the extension that swaps, the signer that pays staking rewards, and *)
(* the wager escrow, on one burn chain.  The next step of a script is      *)
(* performed wherever its action is enabled; a step the script expects to  *)
(* be refused may also be passed over.  The property compares the answers  *)
(* and the readings with those the script states.                          *)
(*                                                                         *)
(* Staking ties the wallet to the signer: what it locks are its shares of  *)
(* the cycles to come, and what the signer pays it raises its balance.     *)
(***************************************************************************)
EXTENDS AutostakeSafe, FakfunWallet, SimPlans

CONSTANTS
  Unpaid, NoFee, PoolStakers,     \* of StxSigner
  GameTokens, Wallets             \* of GameWager

VARIABLES
  distributionCycle, rewardCycle, shares, balance, signerAdmin, paused,
  feeBips, pendingFee, pendingFeeHeight, earnedFees, ogStakers,
  trancheCount, lastClaim, stxPot, tranchePaid, tranchePaidShares, stxPaid, premature,
  oracle, treasury, feeRate, withdrawFeeRate, whitelistedTokens,
  balances, accumulatedFees, games, usedSignatures, pubkeyWallet, ledger,
  swap,             \* of SwapExtension
  script, at,       \* the script replayed, and how many of its steps are done
  answer,           \* to the last of them: "ok" or "refused"
  seen              \* the readings taken so far, by name

walletVars == <<avars, initVars, listVars>>
signerVars == <<distributionCycle, rewardCycle, shares, balance, signerAdmin, paused,
                feeBips, pendingFee, pendingFeeHeight, earnedFees, ogStakers, trancheCount,
                lastClaim, stxPot, tranchePaid, tranchePaidShares, stxPaid, premature>>
wagerVars == <<oracle, treasury, feeRate, withdrawFeeRate, whitelistedTokens, balances,
               accumulatedFees, games, usedSignatures, pubkeyWallet, ledger>>
otherVars == <<wagerVars, swap>>
replayVars == <<script, at, answer, seen>>
simVars == <<walletVars, signerVars, otherVars, replayVars>>

Signer == INSTANCE StxSigner WITH
  Stakers <- PoolStakers \cup {"safe"}, Cycles <- 1 .. 3, Tranches <- 0 .. 2,
  ShareAmounts <- {}, Rewards <- {}, Fees <- {}, MaxBips <- 10000, MaxFeeBips <- 500,
  FeeCooldown <- 144, FirstAdmin <- "deployer", admin <- signerAdmin
Wager == INSTANCE GameWager WITH
  Players <- {PubA, PubB}, Self <- "game-wager", Deployer <- "deployer", FirstOracle <- "fakfun",
  Vouches <- {<<"test-wallet-a", PubA>>, <<"test-wallet-b", PubB>>},
  NoWallet <- None, NoWinner <- None, Tokens <- GameTokens, AuthIds <- {}, Amounts <- {},
  InitialTokens <- 0, FeeBasis <- 10000, FeeRates <- {}, WithdrawFeeRates <- {},
  MaxFeeRate <- 2000, MaxWithdrawFeeRate <- 1000, InitialFeeRate <- 500,
  InitialWithdrawFeeRate <- 100, GameTimeout <- 144, MaxGames <- MaxOps
SwapV2 == INSTANCE SwapExtension WITH
  FirstSponsor <- "deployer", NoSponsor <- None, InitialFee <- 20, MaxGas <- 5000,
  Cooldown <- 144, height <- burnHeight
-----------------------------------------------------------------------------
HasKeeper == Plans[script].wallet = "autostake"
IsTrading == Plans[script].wallet = "trading"

(* Signatures.                                                              *)

\* The message the wallet rebuilds from the call and from its own state.
SmartBuys == {"smart-buy-sbtc", "smart-buy-stx"}
SmartSells == {"smart-sell-sbtc", "smart-sell-stx"}
Topic(op) ==
  CASE op = "stake-stx-juice" -> "stake-stx-juice-pox5"
    [] op = "unstake" -> "unstake-stx-juice"
    [] op = "confirm-transfer-wallet" -> "confirm-transfer"
    [] op = "sbtc-initiate-withdrawal" -> "sbtc-withdrawal"
    [] op \in {"execute-pending-stx-transfer-now", "execute-pending-sbtc-transfer-now",
               "execute-pending-sbtc-withdrawal-now"} -> "execute-now"
    [] op = "propose-admin-with-signature" -> "add-admin"
    [] op = "confirm-admin-with-signature" -> "confirm-admin"
    [] op = "whitelist-extension-fast" -> "whitelist-fast"
    [] op = "execute-pending-whitelist" -> "whitelist-extension"
    [] op \in SmartBuys \cup SmartSells -> "smart-execute"
    [] OTHER -> op
BoundArgs(s) ==
  LET a == s.args
      topic == Topic(s.op)
  IN  CASE topic = "execute-now" -> [op |-> a.id]
        [] topic = "confirm-transfer" -> [newAdmin |-> pendingTransfer]
        [] topic = "confirm-max-gas-amount" -> [amount |-> pendingMaxGas.amount]
        [] topic = "set-wallet-config" -> pendingConfig
        [] topic = "confirm-admin" -> [newAdmin |-> pendingInit.newAdmin]
        [] topic = "whitelist-extension" ->
             [op |-> a.id, extension |-> pendingOperations[a.id + 1].extension]
        [] topic = "extension-call" -> [extension |-> a.extension, payload |-> a.payload]
        [] topic = "smart-execute" -> [trade |-> s.op, router |-> a.router, amount |-> a.amount]
        [] OTHER -> a
Rebuilt(s) == Message(Topic(s.op), s.auths[1].authId, BoundArgs(s))

\* clarity-webauthn: an assertion of the key, for a relying party that is
\* listed, over this message.
RelyingParties ==
  IF Plans[script].wallet \in {"safe", "autostake"} THEN {"juiceofbtc.com"}
  ELSE {"fak.fun", "fakfun.com"}
Verifies(auth, message) ==
  /\ auth.signed.key = auth.pubkey
  /\ auth.signed.rp \in RelyingParties
  /\ auth.signed.message = message
Registered(auth) == auth.pubkey = SafeKey
Genuine(s) == s.auths # <<>> => Registered(s.auths[1]) /\ Verifies(s.auths[1], Rebuilt(s))

CallOf(s) ==
  IF s.auths = <<>> THEN [by |-> "admin", sender |-> s.by, gas |-> NoGas]
  ELSE [by |-> "passkey", sig |-> <<s.auths[1].signed, Rebuilt(s)>>,
        gas |-> IF s.gas = NoStation THEN NoGas ELSE s.gas]
-----------------------------------------------------------------------------
(* Steps.                                                                   *)

\* What happens outside the contracts: burn blocks pass and with them reward
\* cycles, so that a lock may end; money comes in; the pool's other stakers
\* stake.  A distribution cycle of pox-5 is half a reward cycle.
Outside(s) ==
  LET a == s.args
  IN  \/ /\ s.op = "advance"
         /\ burnHeight' = burnHeight + a.blocks /\ preparing' = a.preparing
         /\ currentCycle' = currentCycle + a.cycles /\ rewardCycle' = rewardCycle + a.cycles
         /\ distributionCycle' = distributionCycle + a.blocks \div 1050
         /\ IF unlockCycle # 0 /\ unlockCycle <= currentCycle'
            THEN /\ unlockCycle' = 0
                 /\ funds' = [funds EXCEPT !.stx = @ + funds.staked, !.staked = 0]
            ELSE UNCHANGED <<unlockCycle, funds>>
         /\ UNCHANGED <<lastActivityBlock, seatVars, handoverVars, signatureVars, configVars,
                        gasLimitVars, tokenLockEnabled, spentThisPeriod, pendingOperations,
                        keeperVars, exitCycle, ownerCall, initVars, listVars, otherVars,
                        shares, balance, signerAdmin, paused, feeBips, pendingFee,
                        pendingFeeHeight, earnedFees, ogStakers, trancheCount, lastClaim,
                        stxPot, tranchePaid, tranchePaidShares, stxPaid, premature>>
      \/ /\ s.op = "fund"
         /\ funds' = [funds EXCEPT ![a.asset] = @ + a.amount]
         /\ UNCHANGED <<burnHeight, lastActivityBlock, seatVars, handoverVars, signatureVars,
                        configVars, gasLimitVars, tokenLockEnabled, spentThisPeriod,
                        pendingOperations, keeperVars, lockVars, ownerCall, initVars, listVars,
                        signerVars, otherVars>>
      \/ /\ s.op = "pool-stake" /\ Signer!Stake(s.by, a.amount)
         /\ UNCHANGED <<walletVars, otherVars>>

\* Staking by any of the wallets.
StakingStep(s) ==
  LET a == s.args
      c == CallOf(s)
  IN  /\ \/ /\ s.op = "stake-stx-juice" /\ Stake(a.amount, c)
            /\ Signer!Stake("safe", a.amount)
         \/ /\ s.op = "update-stake-stx-juice" /\ UpdateStake(a.increase, a.cycles, c)
            /\ Signer!SetFutureShares("safe", funds'.staked)
         \/ s.op = "unstake" /\ Leave(c) /\ Signer!Unstake("safe")
      /\ Genuine(s) /\ ownerCall' = burnHeight
      /\ UNCHANGED <<initVars, listVars, otherVars>>

\* claim and payment of rewards, by anybody.
RewardStep(s) ==
  LET a == s.args
      k == <<a.cycle, a.tranche>>
      paid == IF "safe" \in Signer!Payees(k, a.stakers) THEN Signer!Net(k, "safe") ELSE 0
  IN  \/ /\ s.op = "pox-claim-rewards" /\ Signer!PoxClaimRewards(a.cycle, a.amount)
         /\ UNCHANGED <<walletVars, otherVars>>
      \/ /\ s.op = "pay-stx-stakers" /\ Signer!PayStxStakers(k, a.stakers)
         /\ funds' = [funds EXCEPT !.sbtc = @ + paid]
         /\ UNCHANGED <<burnHeight, lastActivityBlock, seatVars, handoverVars, signatureVars,
                        configVars, gasLimitVars, tokenLockEnabled, spentThisPeriod,
                        pendingOperations, keeperVars, lockVars, ownerCall, initVars, listVars,
                        otherVars>>

\* Money leaving the safe.
Queued(s) == s.args.id + 1
PaymentStep(s) ==
  LET a == s.args
      c == CallOf(s)
  IN  /\ \/ s.op = "stx-transfer" /\ StxTransfer(a.amount, a.memo, c)
         \/ s.op = "sip010-transfer" /\ Sip010Transfer(a.token, a.amount, a.memo, c)
         \/ s.op = "sip009-transfer" /\ Sip009Transfer(c)
         \/ /\ s.op = "sbtc-initiate-withdrawal"
            /\ SbtcInitiateWithdrawal(a.amount, a.maxFee, c)
         \/ s.op = "veto-operation" /\ VetoOperation(Queued(s), c)
         \/ /\ s.op = "execute-pending-stx-transfer" /\ ~IsTrading
            /\ ExecutePending("stx-transfer", Queued(s), s.by)
         \/ /\ s.op = "execute-pending-sbtc-transfer" /\ ~IsTrading
            /\ ExecutePending("sbtc-transfer", Queued(s), s.by)
         \/ /\ s.op = "execute-pending-stx-transfer-now"
            /\ ExecutePendingNow("stx-transfer", Queued(s), a.memo, c)
         \/ /\ s.op = "execute-pending-sbtc-transfer-now"
            /\ ExecutePendingNow("sbtc-transfer", Queued(s), a.memo, c)
         \/ /\ s.op = "execute-pending-sbtc-withdrawal"
            /\ ExecutePending("sbtc-withdraw", Queued(s), s.by)
         \/ /\ s.op = "execute-pending-sbtc-withdrawal-now"
            /\ ExecutePendingNow("sbtc-withdraw", Queued(s), a.memo, c)
      /\ Genuine(s) /\ ownerCall' = burnHeight
      /\ UNCHANGED <<keeperVars, lockVars, initVars, listVars, signerVars, otherVars>>

\* The proposals and confirmations of its policy.
PolicyStep(s) ==
  LET a == s.args
      c == CallOf(s)
  IN  /\ \/ s.op = "propose-max-gas-amount" /\ ProposeMaxGasAmount(a.amount, s.by)
         \/ s.op = "confirm-max-gas-amount" /\ ConfirmMaxGasAmount(c)
         \/ s.op = "toggle-token-lock" /\ ToggleTokenLock(a.enabled, c)
         \/ s.op = "signal-config-change" /\ SignalConfigChange(a, s.by)
         \/ s.op = "set-wallet-config" /\ SetWalletConfig(c)
      /\ Genuine(s) /\ ownerCall' = burnHeight
      /\ UNCHANGED <<keeperVars, lockVars, initVars, listVars, signerVars, otherVars>>

\* Who holds its seat, and who may take it over.
SeatStep(s) ==
  LET a == s.args
      c == CallOf(s)
      Seated == \/ /\ s.op = "onboard" /\ ~IsTrading
                   /\ Onboard(a.owner, a.recovery, a.config, s.by)
                \/ s.op = "propose-transfer-wallet" /\ ProposeTransferWallet(a.newAdmin, s.by)
                \/ s.op = "propose-recovery" /\ ProposeRecovery(a.newRecovery, c)
                \/ s.op = "confirm-recovery" /\ ConfirmRecovery(s.by)
                \/ /\ s.op = "confirm-transfer-wallet" /\ ~HasKeeper
                   /\ ConfirmTransferWallet(c)
                \/ /\ s.op = "recover-inactive-wallet" /\ ~HasKeeper
                   /\ RecoverInactiveWallet(a.newAdmin, s.by)
  IN  /\ \/ Seated /\ UNCHANGED <<keeperVars, lockVars>>
         \/ s.op = "confirm-transfer-wallet" /\ HasKeeper /\ ConfirmTransfer(c)
         \/ s.op = "recover-inactive-wallet" /\ HasKeeper /\ Recover(a.newAdmin, s.by)
      /\ Genuine(s) /\ ownerCall' = burnHeight
      /\ UNCHANGED <<initVars, listVars, signerVars, otherVars>>

\* The calls only the wallet with a keeper has.  What the keeper stakes is
\* part of its shares like any other stake.
KeeperStep(s) ==
  /\ \/ /\ s.op = "set-keeper" /\ SetKeeper(s.args.keeper, CallOf(s)) /\ Genuine(s)
        /\ ownerCall' = burnHeight /\ UNCHANGED signerVars
     \/ /\ s.op = "restake" /\ Restake(s.by)
        /\ Signer!SetFutureShares("safe", funds'.staked)
  /\ UNCHANGED <<initVars, listVars, otherVars>>

\* The calls only the trading wallet has, and those it makes in its own way.
TradingStep(s) ==
  LET a == s.args
      c == CallOf(s)
      coin == IF s.op \in {"smart-buy-sbtc", "smart-sell-sbtc"} THEN "sbtc" ELSE "stx"
  IN  /\ IsTrading
      /\ \/ s.op = "onboard" /\ FOnboard(s.by)
         \/ /\ s.op = "propose-admin-with-signature"
            /\ ProposeAdminWithSignature(a.newAdmin, c)
         \/ s.op = "accept-admin-proposal" /\ AcceptAdminProposal(s.by)
         \/ s.op = "confirm-admin-with-signature" /\ ConfirmAdminWithSignature(c)
         \/ /\ s.op = "execute-pending-stx-transfer"
            /\ FExecutePending("stx-transfer", Queued(s), s.by)
         \/ /\ s.op = "execute-pending-sbtc-transfer"
            /\ FExecutePending("sbtc-transfer", Queued(s), s.by)
         \/ s.op = "whitelist-extension" /\ WhitelistExtension(a.extension, s.by)
         \/ s.op = "execute-pending-whitelist" /\ ExecutePendingWhitelist(Queued(s), c)
         \/ s.op = "whitelist-extension-fast" /\ ListAtOnce(a.extension, c)
         \/ s.op = "remove-extension-whitelist" /\ RemoveExtensionWhitelist(a.extension, c)
         \/ /\ s.op \in SmartBuys /\ IsApprovedRouter(a.router)
            /\ TradeFor({coin}, "other", a.amount, a.out, c)
         \/ /\ s.op \in SmartSells /\ IsApprovedRouter(a.router)
            /\ TradeFor({"other"}, coin, a.amount, a.out, c)
      /\ Genuine(s) /\ ownerCall' = burnHeight
      /\ UNCHANGED <<keeperVars, lockVars, signerVars, otherVars>>

\* Its extension registry.
ApprovalStep(s) ==
  LET a == s.args
  IN  /\ \/ s.op = "propose-extension" /\ ExtensionRegistry!Propose(a.extension, s.by)
         \/ s.op = "confirm-extension" /\ ExtensionRegistry!Confirm(a.extension, s.by)
         \/ s.op = "revoke-pending" /\ ExtensionRegistry!RevokePending(a.extension, s.by)
         \/ s.op = "revoke-extension" /\ ExtensionRegistry!RevokeExtension(a.extension, s.by)
         \/ s.op = "propose-owner" /\ ExtensionRegistry!ProposeOwner(a.newOwner, s.by)
         \/ s.op = "accept-owner" /\ ExtensionRegistry!AcceptOwner(s.by)
      /\ UNCHANGED <<avars, initVars, whitelistedExtensions, routerRegistry, signerVars,
                     otherVars>>

\* The extension that swaps: its governance, and a swap called by the wallet.
SwapGovernance(s) ==
  LET a == s.args
  IN  /\ \/ s.op = "propose-fee" /\ SwapV2!ProposeFee(a.amount, s.by)
         \/ s.op = "confirm-fee" /\ SwapV2!ConfirmFee(s.by)
         \/ s.op = "cancel-fee-change" /\ SwapV2!CancelFeeChange(s.by)
         \/ s.op = "propose-sponsor" /\ SwapV2!ProposeSponsor(a.newSponsor, s.by)
         \/ s.op = "confirm-sponsor" /\ SwapV2!ConfirmSponsor(s.by)
         \/ s.op = "cancel-sponsor-change" /\ SwapV2!CancelSponsorChange(s.by)
      /\ UNCHANGED <<walletVars, signerVars, wagerVars>>
SwapCalled(s) ==
  LET a == s.args
      c == CallOf(s)
      held == FundsAfterGas(c.gas)
      left == [held EXCEPT !.sbtc = SwapV2!SbtcAfter(a.payload, a.out, @),
                           !.other = SwapV2!UsdcxAfter(a.payload, a.out, @)]
  IN  /\ s.op = "extension-call"
      /\ SwapV2!Swaps(a.payload, a.out)
      /\ left.sbtc >= 0 /\ left.other >= 0
      /\ ExtensionCallLeaving(a.extension, c, left)
      /\ Genuine(s) /\ ownerCall' = burnHeight
      /\ UNCHANGED <<keeperVars, lockVars, signerVars, otherVars>>

WagerStep(s) ==
  LET a == s.args
      auth == s.auths
      id(i) == auth[i].authId
      to == Wager!ActualRecipient(auth[1].pubkey, a.recipient)
  IN  /\ \/ /\ s.op = "mint"
            /\ ledger' = [ledger EXCEPT ![a.token][s.by] = @ + a.amount]
            /\ UNCHANGED <<oracle, treasury, feeRate, withdrawFeeRate, whitelistedTokens,
                           balances, accumulatedFees, games, usedSignatures, pubkeyWallet>>
         \/ s.op = "deposit" /\ Wager!Deposit(a.token, a.amount, a.player, s.by)
         \/ /\ s.op = "create-game"
            /\ Wager!CreateGame(a.a, a.b, a.token, a.wager, id(1), id(2), s.by)
            /\ Verifies(auth[1], Wager!WagerHash(id(1), a.b, a.token, a.wager))
            /\ Verifies(auth[2], Wager!WagerHash(id(2), a.a, a.token, a.wager))
         \/ s.op = "resolve-game" /\ Wager!ResolveGame(a.game + 1, a.winner, s.by)
         \/ s.op = "cancel-game" /\ Wager!CancelGame(a.game + 1, s.by)
         \/ /\ s.op = "register-wallet" /\ Wager!RegisterWallet(auth[1].pubkey, a.wallet, id(1))
            /\ Verifies(auth[1], Wager!RegisterHash(id(1), a.wallet))
         \/ /\ s.op = "withdraw"
            /\ Wager!Withdraw(auth[1].pubkey, a.token, a.amount, a.recipient, id(1))
            /\ Verifies(auth[1], Wager!WithdrawHash(id(1), a.amount, to, a.token))
         \/ s.op = "set-token-whitelist" /\ Wager!SetTokenWhitelist(a.token, a.enabled, s.by)
         \/ s.op = "set-fee-rate" /\ Wager!SetFeeRate(a.value, s.by)
         \/ s.op = "set-withdraw-fee-rate" /\ Wager!SetWithdrawFeeRate(a.value, s.by)
         \/ s.op = "set-treasury" /\ Wager!SetTreasury(a.value, s.by)
         \/ s.op = "set-oracle" /\ Wager!SetOracle(a.value, s.by)
         \/ s.op = "sweep-fees" /\ Wager!SweepFees(a.token, s.by)
      /\ UNCHANGED <<walletVars, signerVars, swap>>

View ==
  [owner |-> owner, admins |-> admins, keeper |-> keeper, inactive |-> IsInactive,
   lastActivity |-> lastActivityBlock,
   recovery |-> recoveryAddress, pendingRecovery |-> pendingRecovery, funds |-> funds,
   currentCycle |-> currentCycle, unlockCycle |-> unlockCycle,
   operations |-> pendingOperations, locked |-> tokenLockEnabled,
   config |-> walletConfig, pendingConfig |-> pendingConfig,
   maxGas |-> maxGasAmount, spent |-> spentThisPeriod, pendingMaxGas |-> pendingMaxGas,
   signer |-> [shares |-> shares, stxPot |-> stxPot, stxPaid |-> stxPaid],
   games |-> games, balances |-> balances, accumulatedFees |-> accumulatedFees,
   ledger |-> ledger, oracle |-> oracle, feeRate |-> feeRate,
   withdrawFeeRate |-> withdrawFeeRate,
   extensions |-> whitelistedExtensions, registry |-> extensionRegistry,
   routers |-> routerRegistry.approved, swap |-> swap]

Perform(s) == \/ Outside(s) \/ StakingStep(s) \/ RewardStep(s) \/ PaymentStep(s)
              \/ PolicyStep(s) \/ SeatStep(s) \/ KeeperStep(s) \/ WagerStep(s)
              \/ TradingStep(s) \/ ApprovalStep(s) \/ SwapGovernance(s) \/ SwapCalled(s)
-----------------------------------------------------------------------------
SimInit ==
  /\ AInit /\ FInit /\ Signer!Init /\ Wager!Init /\ SwapV2!Init
  /\ script \in DOMAIN Plans /\ at = 0 /\ answer = Ok /\ seen = [n \in {} |-> None]

Steps == Plans[script].steps
Current == Steps[at + 1]
Advances == at < Len(Steps) /\ at' = at + 1 /\ UNCHANGED script
Reading ==
  /\ Advances /\ Current.op = "see"
  /\ seen' = (Current.args.name :> View) @@ seen /\ answer' = Ok
  /\ UNCHANGED <<walletVars, signerVars, otherVars>>
\* A call that is not enabled is no step here, so that a script whose call the
\* contract does not accept stops before its end, which TLC reports as a deadlock.
Accepted ==
  /\ Advances
  /\ \E s \in {Current} : Perform(s)
  /\ answer' = Ok /\ UNCHANGED seen
\* A call that fails changes nothing.
Turned ==
  /\ Advances /\ Current.answer # Ok
  /\ answer' = "refused"
  /\ UNCHANGED <<walletVars, signerVars, otherVars, seen>>
Finished == at = Len(Steps) /\ UNCHANGED simVars
SimNext == Reading \/ Accepted \/ Turned \/ Finished
SimSpec == SimInit /\ [][SimNext]_simVars
-----------------------------------------------------------------------------
(* Refusals: each code names a guard.                                       *)

\* Who may make the call, besides the passkey.
Entitled(s) ==
  CASE s.op = "restake" -> s.by = keeper
    [] s.op = "recover-inactive-wallet" -> s.by = recoveryAddress
    [] s.op = "toggle-token-lock" ->
         owner # Nobody /\ (IF s.auths = <<>> THEN IsAdminCalling(s.by) ELSE s.args.enabled)
    [] s.op = "onboard" -> s.args.recovery \notin {Self, s.args.owner}
    [] s.op = "propose-recovery" -> s.args.newRecovery # Self
    [] s.op = "confirm-transfer-wallet" -> pendingTransfer \notin {Self, owner}
    [] OTHER -> IsAdminCalling(s.by)

TypeOf(op) ==
  CASE op \in {"execute-pending-stx-transfer", "execute-pending-stx-transfer-now"} ->
         {"stx-transfer"}
    [] op \in {"execute-pending-sbtc-transfer", "execute-pending-sbtc-transfer-now"} ->
         {"sbtc-transfer"}
    [] op \in {"execute-pending-sbtc-withdrawal", "execute-pending-sbtc-withdrawal-now"} ->
         {"sbtc-withdraw"}
    [] OTHER -> OpTypes
Cooldown(s) == IF s.op = "onboard" THEN s.args.config.cooldown ELSE s.args.cooldown
Signalled(s) == IF s.op = "set-wallet-config" THEN walletConfig.signaledAt
                ELSE pendingMaxGas.proposedAt

SeatRefusal(s) ==
  CASE s.answer = "u4001" -> ~Entitled(s)
    [] s.answer = "u4002" -> ~Verifies(s.auths[1], Rebuilt(s))
    [] s.answer = "u4004" -> ~Registered(s.auths[1])
    [] s.answer = "u4005" -> ~IsAdminCalling(pubkeyToAdmin)
    [] s.answer = "u4006" -> CallOf(s).sig[2] \in usedPubkeyAuthorizations
    [] s.answer = "u4009" -> ~IsInactive
    [] s.answer = "u4010" -> pendingRecovery = Nobody
    [] OTHER -> FALSE
QueueRefusal(s) ==
  LET known == Queued(s) \in DOMAIN pendingOperations
      op == pendingOperations[Queued(s)]
  IN  CASE s.answer = "u4013" -> ~known \/ op.type \notin TypeOf(s.op)
        [] s.answer = "u4003" -> known /\ op.passkeyCreated
        [] s.answer = "u4014" -> known /\ op.executed
        [] s.answer = "u4015" -> known /\ op.vetoed
        [] s.answer = "u4041" -> known /\ s.args.memo # op.memo
        [] s.answer = "u4017" -> known /\ ~CooldownPassed(op)
        [] OTHER -> FALSE
PolicyRefusal(s) ==
  CASE s.answer = "u4012" -> Signalled(s) # 0 /\ ~TimelockPassed(Signalled(s))
    [] s.answer = "u4016" -> Signalled(s) = 0
    [] s.answer = "u4018" ->
         IF s.op = "propose-max-gas-amount" THEN s.args.amount > MaxGasCeiling
         ELSE s.gas > maxGasAmount \/ CurrentSpent(spentThisPeriod).gas + s.gas > MaxGasPerPeriod
    [] s.answer = "u4019" -> Cooldown(s) > MaxCooldown
    [] s.answer = "u4031" -> Cooldown(s) < MinCooldown
    [] s.answer = "u4023" -> tokenLockEnabled /\ s.auths # <<>>
    [] OTHER -> FALSE
StakingRefusal(s) ==
  CASE s.answer = "u4026" ->
         CASE s.op = "restake" -> funds.stx = 0 /\ CyclesToExtend = 0
           [] s.op = "stake-stx-juice" -> s.args.amount = 0
           [] OTHER -> s.args.increase = 0 /\ s.args.cycles = 0
    [] s.answer = "u4030" -> s.args.amount = 0
    [] s.answer = "u4040" -> ~Restakable
    [] s.answer = "u20" -> ~LegalLock(unlockCycle + s.args.cycles)    \* of pox-5
    [] OTHER -> FALSE
WagerRefusal(s) ==
  CASE s.answer = "u7001" -> s.by # oracle
    [] s.answer = "u7002" -> s.by # "deployer"
    [] s.answer = "u7003" -> ~Verifies(s.auths[1], Wager!RegisterHash(s.auths[1].authId,
                                                                      s.args.wallet))
    [] s.answer = "u7009" -> s.args.value > IF s.op = "set-fee-rate" THEN 2000 ELSE 1000
    [] s.answer = "u7010" -> Wager!RegisterHash(s.auths[1].authId, s.args.wallet)
                               \in usedSignatures
    [] s.answer = "u7012" -> s.args.a = s.args.b
    [] s.answer = "u7013" -> s.args.token \notin whitelistedTokens
    [] OTHER -> FALSE
\* The registries, of extensions and of routers.
TooEarly(s) ==
  LET r == extensionRegistry
      proposed == IF s.op = "accept-owner" THEN r.ownerProposedAt ELSE r.pending[s.args.extension]
  IN  proposed # 0 /\ burnHeight < proposed + RegistryCooldown
ApprovalRefusal(s) ==
  CASE s.answer = "u4033" -> ~IsApprovedRouter(s.args.router)
    [] s.answer = "u4034" -> ~IsApprovedExtension(s.args.extension)
    [] s.answer = "u7101" -> s.by # extensionRegistry.owner
    [] s.answer = "u7103" -> TooEarly(s)
    [] s.answer = "u7104" -> IsApprovedExtension(s.args.extension)
    [] OTHER -> FALSE
SwapRefusal(s) ==
  CASE s.answer = "u300" -> s.args.payload.action = Undecodable
    [] s.answer = "u301" -> s.args.payload.action \notin SwapV2!Actions
    [] s.answer = "u302" -> s.args.payload.amount = 0
    [] s.answer = "u303" -> s.args.payload.minOut = 0
    [] s.answer = "u304" -> ~SwapV2!FeeFits(s.args.payload)
    [] s.answer = "u305" -> ~SwapV2!IsSponsor(s.by)
    [] s.answer = "u306" -> swap.pendingSponsor = None
    [] s.answer = "u307" -> ~SwapV2!CooldownPassed(IF s.op = "confirm-fee" THEN swap.pendingFeeBlock
                                                   ELSE swap.pendingSponsorBlock)
    [] s.answer = "u308" -> s.args.amount > 5000
    [] OTHER -> FALSE
Grounds(s) == \/ s.answer = "any" \/ SeatRefusal(s) \/ QueueRefusal(s) \/ PolicyRefusal(s)
              \/ StakingRefusal(s) \/ WagerRefusal(s) \/ ApprovalRefusal(s) \/ SwapRefusal(s)
-----------------------------------------------------------------------------
\* The contract answers as the step of the script expects: what it accepts is
\* what the script expects it to accept, and the balances move by just what the
\* script says; what it refuses, it refuses because the guard that the error code
\* names does not hold.
AnsweredAsExpected ==
  IF answer' = Ok
  THEN /\ Current.answer = Ok
       /\ Current.moved # <<>> =>
            \A asset \in DOMAIN NoMove :
              funds'[asset] = funds[asset] + Current.moved[1][asset]
  ELSE Grounds(Current)

\* Every script runs as it says: each step is answered as it expects, and at its
\* end the readings taken on the way are those it states.
RunsAsSimulated ==
  [][at' # at =>
       AnsweredAsExpected /\ (at' = Len(Steps) => Checks(script, seen'))]_simVars
=============================================================================
