------------------------------ MODULE SimSafe ------------------------------
(* The simulations of juice-safe: the lifecycle of its money, hand-over    *)
(* and recovery, stake and unstake (SimSafeVersions: the versions before). *)
EXTENDS SimSteps

\* The principals of the scripts and the relying party they sign for.
SafeRpId == "juiceofbtc.com"
SafeKey == "passkey"
SafeSign(message) == SignChallengeWithRpId(message, SafeKey, SafeRpId)
SafeAuth(message) == SigAuth(message.authId, SafeKey, SafeSign(message))
Signed(op, args, message) == Relayed("relayer", op, args, SafeAuth(message))

\* A call relayed with the passkey's signature over a message.
Presented(call, message) == Relayed("relayer", call.op, call.args, SafeAuth(message))
GasSats == 20

Onboarded(owner, recovery, stx, sbtc, cooldown) ==
  Call("fakfun", "onboard",
       [owner |-> owner, recovery |-> recovery,
        config |-> [stx |-> stx, sbtc |-> sbtc, cooldown |-> cooldown]])
OnboardSafe == Onboarded("owner", "recovery", 100, 100000, 144)
\* Up to v4 the caller gives no cooldown.
FixedCooldown == 144
OnboardUpToV4 == Onboarded("owner", "recovery", 100, 100000, FixedCooldown)

StakeCall(by, amount) == Call(by, "stake-stx-juice", [amount |-> amount])
UpdateStakeCall(by, increase, cycles) ==
  Call(by, "update-stake-stx-juice", [increase |-> increase, cycles |-> cycles])
UnstakeCall(by) == Call(by, "unstake", NoArgs)
StxTransferCall(by, amount) ==
  Call(by, "stx-transfer", [amount |-> amount, recipient |-> "recipient", memo |-> None])
SbtcTransferCall(by, amount) ==
  Call(by, "sip010-transfer",
       [token |-> "sbtc", amount |-> amount, recipient |-> "recipient", memo |-> None])
ExecuteCall(by, op, id) == Call(by, op, [id |-> id, memo |-> None])

ToggleLockCall(by, enabled) == Call(by, "toggle-token-lock", [enabled |-> enabled])
ProposeTransferCall(by, newAdmin) ==
  Call(by, "propose-transfer-wallet", [newAdmin |-> newAdmin])
ConfirmTransferCall == Call("relayer", "confirm-transfer-wallet", NoArgs)
RecoverTo(by, newAdmin) == Call(by, "recover-inactive-wallet", [newAdmin |-> newAdmin])

\* tStake, tUpdateStake, tExecuteNow, tUnstake, tConfirmTransfer.
TStake(id, amount) == Message("stake-stx-juice-pox5", id, [amount |-> amount])
TUpdateStake(id, increase, cycles) ==
  Message("update-stake-stx-juice", id, [increase |-> increase, cycles |-> cycles])
TExecuteNow(id, op) == Message("execute-now", id, [op |-> op])
TUnstake(id) == Message("unstake-stx-juice", id, NoArgs)
TConfirmTransfer(id, newAdmin) == Message("confirm-transfer", id, [newAdmin |-> newAdmin])
-----------------------------------------------------------------------------
(* simul-juice-safe-v7-lifecycle.js.  Sats of rewards are thousands here.   *)

\* Where the chain stands: the reward cycle paid (142 is 1, the one before it
\* 0) and the blocks that lead past the next boundary.
EarlyFork == [rewardCycle |-> 1, advance |-> 1360]
LateFork == [rewardCycle |-> 1, advance |-> 1900]

LifecycleStakers ==
  ("pool-1" :> 50055) @@ ("pool-2" :> 42025) @@ ("pool-3" :> 10000) @@ ("pool-4" :> 370) @@
  ("pool-5" :> 290) @@ ("pool-6" :> 218) @@ ("pool-7" :> 101) @@ ("pool-8" :> 100)
LifecycleActors(fork) ==
  fork @@ [under |-> 50, over |-> 400, sbtc |-> 1000, sbtcFund |-> 5000,
           sbtcBigFund |-> 500000, sbtcOver |-> 150000, gas |-> 20, gasTopup |-> 50,
           rewards |-> 2000, stakers |-> DOMAIN LifecycleStakers,
           fund |-> 2800, stake |-> 1000, topup |-> 200]
LifecycleSigned(a) ==
  [stake |-> Signed("stake-stx-juice", [amount |-> a.stake], TStake(1, a.stake)),
   extend |-> Signed("update-stake-stx-juice", [increase |-> 0, cycles |-> 1],
                     TUpdateStake(2, 0, 1)),
   unstake |-> Signed("unstake", NoArgs, TUnstake(3)),
   gasTopup |-> PayingGas(Signed("update-stake-stx-juice",
                                 [increase |-> a.gasTopup, cycles |-> 0],
                                 TUpdateStake(7, a.gasTopup, 0)), a.gas),
   now0 |-> Signed("execute-pending-stx-transfer-now", [id |-> 0, memo |-> None],
                   TExecuteNow(8, 0)),
   nowSbtc |-> Signed("execute-pending-sbtc-transfer-now", [id |-> 2, memo |-> None],
                      TExecuteNow(9, 2))]

\* A to E: stake, top-up, gas, the cycle boundary, top-up and extension.
LifecycleStaking(a, signed, onboard) ==
  <<Fund("stx", a.fund), onboard, See("onboarded"),
        Refused(StakeCall("random", a.stake), "u4001"),
        Refused(StakeCall("owner", 0), "u4026"),
        signed.stake, See("staked"),
        UpdateStakeCall("owner", a.topup, 0), Fund("sbtc", a.sbtcFund),
        See("gasBefore"), signed.gasTopup, See("gasAfter"),
        Refused(UpdateStakeCall("owner", 0, 0), "u4026"),
        Advance(a.advance, 1), See("advanced"),
        UpdateStakeCall("owner", a.topup, 0), See("liveTopup"),
        signed.extend, See("extended")>>

\* R: rewards are claimed into the signer's pot and paid to the safe and to the
\* stakers of the pool.  Then U: the admin unstakes, stakes again, and the
\* passkey unstakes.
ClaimCall(cycle, amount) == Call("relayer", "pox-claim-rewards", [cycle |-> cycle, amount |-> amount])
PayCall(cycle, tranche, stakers) ==
  Call("relayer", "pay-stx-stakers", [cycle |-> cycle, tranche |-> tranche, stakers |-> stakers])
LifecycleRewards(a, signed) ==
  LET pay == PayCall(a.rewardCycle, 0, {"safe"} \cup a.stakers)
  IN  <<Advance(1100, 0), ClaimCall(a.rewardCycle, a.rewards),
        See("beforePay"), pay, See("paid"), pay, See("paidTwice"),
        Refused(UnstakeCall("random"), "u4001"), UnstakeCall("owner"), See("adminUnstaked"),
        UpdateStakeCall("owner", 50, 1), signed.unstake, See("unstaked"),
        Advance(3000, 2), See("unlocked")>>

\* W and S: below the thresholds, over them with the passkey, over them after
\* the cooldown.
LifecycleWithdrawals(a, signed) ==
  LET Execute(id) == ExecuteCall("owner", "execute-pending-stx-transfer", id)
      ExecuteSbtc(id) == ExecuteCall("owner", "execute-pending-sbtc-transfer", id)
      send == StxTransferCall("owner", a.over)
      sendSbtc == SbtcTransferCall("owner", a.sbtcOver)
  IN  <<StxTransferCall("owner", a.under), See("stx1"), send, See("stx2"),
        Refused(Execute(0), "u4017"), signed.now0, See("stx3"),
        send, Advance(150, 0), Execute(1), See("stx4"),
        Fund("sbtc", a.sbtcBigFund), See("sbtc0"),
        sendSbtc, See("sbtc1"), Refused(ExecuteSbtc(2), "u4017"), signed.nowSbtc, See("sbtc2"),
        sendSbtc, Advance(150, 0), ExecuteSbtc(3), See("sbtc3"),
        SbtcTransferCall("owner", a.sbtc), See("sbtc4")>>

PoolStakes(stakers) ==
  LET names == <<"pool-1", "pool-2", "pool-3", "pool-4", "pool-5", "pool-6", "pool-7", "pool-8">>
  IN  [i \in DOMAIN names |-> Call(names[i], "pool-stake", [amount |-> stakers[names[i]]])]
\* The script of juice-safe-v7.
LifecycleV7 ==
  LET a == LifecycleActors(LateFork)
      signed == LifecycleSigned(a)
  IN  PoolStakes(LifecycleStakers) \o LifecycleStaking(a, signed, OnboardSafe)
        \o LifecycleRewards(a, signed) \o LifecycleWithdrawals(a, signed)

LifecycleChecks(a, seen) ==
  LET Left(asset, before, after) == seen[before].funds[asset] - seen[after].funds[asset]
      Locked(name) == seen[name].funds.staked
      Shares(name) == seen[name].signer.shares[a.rewardCycle]["safe"]
      PaidTo(name) == seen[name].signer.stxPaid[<<a.rewardCycle, 0>>]
  IN  /\ seen.onboarded.owner = "owner" /\ Locked("onboarded") = 0
      /\ Locked("staked") = a.stake /\ seen.staked.unlockCycle # 0
      /\ Locked("advanced") > 0 /\ Locked("liveTopup") > Locked("advanced")
      /\ Shares("extended") > 0 /\ seen.extended.unlockCycle = seen.staked.unlockCycle + 1
      /\ Left("sbtc", "gasBefore", "gasAfter") = a.gas
      /\ seen.beforePay.signer.stxPot[<<a.rewardCycle, 0>>] > 0
      /\ Left("sbtc", "beforePay", "paid") < 0 /\ Left("sbtc", "paid", "paidTwice") = 0
      /\ \A s \in a.stakers : PaidTo("paid")[s] > 0
      /\ Locked("extended") > Locked("staked")
      /\ seen.adminUnstaked.unlockCycle # 0 /\ Locked("unstaked") > 0
      /\ Locked("unlocked") = 0 /\ seen.unlocked.unlockCycle = 0
      /\ Left("stx", "unlocked", "stx1") = a.under /\ Left("stx", "stx1", "stx2") = 0
      /\ Left("stx", "stx2", "stx3") = a.over /\ Left("stx", "stx3", "stx4") = a.over
      /\ Left("sbtc", "sbtc0", "sbtc1") = 0 /\ Left("sbtc", "sbtc1", "sbtc2") = a.sbtcOver
      /\ Left("sbtc", "sbtc2", "sbtc3") = a.sbtcOver /\ Left("sbtc", "sbtc3", "sbtc4") = a.sbtc
-----------------------------------------------------------------------------
(* simul-juice-safe-v7-recovery.js                                          *)

RecoveryAdvance == 52560 + 100
RecoveryProposal(by) == ProposeTransferCall(by, "new-owner")
RecoveryConfirmation(id, rp) ==
  LET message == TConfirmTransfer(id, "new-owner")
  IN  Relayed("random", "confirm-transfer-wallet", NoArgs,
              SigAuth(id, SafeKey, SignChallengeWithRpId(message, SafeKey, rp)))
RecoverCall(by) == RecoverTo(by, "rescued")
RecoverySimulation(onboard) ==
  <<onboard, See("onboarded"),
    Refused(RecoverCall("recovery"), "u4009"),
    Refused(RecoveryProposal("random"), "u4001"), RecoveryProposal("owner"), See("proposed"),
    Refused(RecoveryConfirmation(2, "example.com"), "u4002"),
    RecoveryConfirmation(1, SafeRpId), See("transferred"),
    Advance(RecoveryAdvance, 26), See("idle"),
    Refused(RecoverCall("random"), "u4001"), RecoverCall("recovery"), See("recovered")>>
RecoveryChecks(seen) ==
  /\ seen.onboarded.owner = "owner" /\ ~seen.onboarded.inactive
  /\ seen.proposed.owner = "owner" /\ seen.transferred.owner = "new-owner"
  /\ seen.idle.inactive
  /\ seen.recovered.owner = "rescued" /\ ~seen.recovered.inactive
-----------------------------------------------------------------------------
(* simul-juice-safe-v6.js: stake, top-up, unstake, unlock.                  *)

StakeAndUnstake(onboard) ==
  <<onboard, Fund("stx", 800), StakeCall("owner", 500), See("staked"),
    UpdateStakeCall("owner", 100, 0), See("toppedUp"), UnstakeCall("owner"), See("unstaked"),
    Advance(1600, 1), See("unlocked")>>
StakeAndUnstakeChecks(seen) ==
  /\ seen.staked.funds.staked = 500 /\ seen.toppedUp.funds.staked = 600
  /\ seen.unlocked.funds.staked = 0 /\ seen.unlocked.unlockCycle = 0
=============================================================================
