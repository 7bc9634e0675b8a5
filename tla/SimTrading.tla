----------------------------- MODULE SimTrading -----------------------------
(* The simulations of the trading wallet: its initialisation in three       *)
(* steps, staking and payments as in the safe, the limit of gas, its        *)
(* extensions, and the markets behind the router registry.                  *)
EXTENDS SimGas

\* The wallet lists fak.fun and not the site of the safe.
Passkey(call, message) == ForSite(Presented(call, message), TestRpId)

TAddAdmin(id, newAdmin) == Message("add-admin", id, [newAdmin |-> newAdmin])
TConfirmAdmin(id, newAdmin) == Message("confirm-admin", id, [newAdmin |-> newAdmin])
OnboardTrading == Call("fakfun", "onboard", NoArgs)
ProposeAdmin(id) ==
  Passkey(Call("relayer", "propose-admin-with-signature", [newAdmin |-> "owner"]),
          TAddAdmin(id, "owner"))
AcceptAdmin == Call("owner", "accept-admin-proposal", NoArgs)
ConfirmAdmin(id) ==
  Passkey(Call("relayer", "confirm-admin-with-signature", NoArgs), TConfirmAdmin(id, "owner"))
\* onboard by the deployer; the passkey names the admin, who accepts; after the
\* cooldown the passkey confirms.
Initialised(first, second) ==
  <<OnboardTrading, ProposeAdmin(first), AcceptAdmin, Advance(440, 0), ConfirmAdmin(second)>>
-----------------------------------------------------------------------------
(* simul-v16-full.js, and without the counters of gas                       *)
(* simul-fakfun-wallet-v11.js                                               *)

FullActors == [LifecycleActors(EarlyFork) EXCEPT !.stake = 800]
FullSigned(a) ==
  [stake |-> Passkey(StakeCall("relayer", a.stake), TStake(3, a.stake)),
   extend |-> Passkey(UpdateStakeCall("relayer", 0, 1), TUpdateStake(4, 0, 1)),
   unstake |-> Passkey(UnstakeCall("relayer"), TUnstake(5)),
   gasTopup |-> PayingGas(Passkey(UpdateStakeCall("relayer", a.gasTopup, 0),
                                  TUpdateStake(6, a.gasTopup, 0)), a.gas)]
FullOnboarded(a) ==
  Initialised(1, 2) \o <<See("seated"), Fund("stx", a.fund), Fund("sbtc", a.sbtcFund)>>
FullStaking(a, signed) ==
  <<Refused(StakeCall("random", a.stake), "u4001"), Refused(StakeCall("owner", 0), "u4030"),
    signed.stake, See("staked"), UpdateStakeCall("owner", a.topup, 0), See("toppedUp"),
    signed.gasTopup, See("gasPaid"), Advance(1000, 1),
    signed.extend, See("extended")>>
FullRewards(a) ==
  LET pay == PayCall(a.rewardCycle, 0, {"safe"} \cup a.stakers)
  IN  <<Advance(1100, 0), ClaimCall(a.rewardCycle, a.rewards),
        See("beforePay"), pay, See("paid"), pay, See("paidTwice")>>
FullUnstaking(signed) ==
  <<Refused(UnstakeCall("random"), "u4001"), UnstakeCall("owner"),
    UpdateStakeCall("owner", 50, 1), signed.unstake, See("unstaked"),
    Advance(2600, 1), See("unlocked")>>
\* Over the thresholds the cooldown is the only way out.
FullWithdrawals(a) ==
  LET execute == ExecuteCall("owner", "execute-pending-stx-transfer", 0)
      executeSbtc == ExecuteCall("owner", "execute-pending-sbtc-transfer", 1)
  IN  <<StxTransferCall("owner", a.under), See("stx1"),
        StxTransferCall("owner", a.over), See("stx2"), Refused(execute, "u4017"),
        Fund("sbtc", a.sbtcBigFund), See("sbtc0"),
        SbtcTransferCall("owner", a.sbtc), See("sbtc1"),
        SbtcTransferCall("owner", a.sbtcOver), See("sbtc2"), Advance(150, 0), See("waited"),
        execute, See("stx3"), executeSbtc, See("sbtc3")>>
FullSimulation ==
  LET a == FullActors
      signed == FullSigned(a)
  IN  PoolStakes(LifecycleStakers) \o FullOnboarded(a) \o FullStaking(a, signed)
        \o FullRewards(a) \o FullUnstaking(signed) \o FullWithdrawals(a)

Left(seen, asset, before, after) == seen[before].funds[asset] - seen[after].funds[asset]
FullChecks(seen) ==
  LET a == FullActors
      Staked(name) == seen[name].funds.staked
      pot == <<a.rewardCycle, 0>>
  IN  /\ seen.seated.owner = "owner"
      /\ Staked("staked") = a.stake /\ Staked("toppedUp") = a.stake + a.topup
      /\ Staked("gasPaid") = a.stake + a.topup + a.gasTopup
      /\ seen.extended.unlockCycle > seen.toppedUp.unlockCycle
      /\ seen.unstaked.unlockCycle = seen.staked.currentCycle + 2
      /\ seen.extended.signer.shares[a.rewardCycle]["safe"] > 0
      /\ Left(seen, "sbtc", "toppedUp", "gasPaid") = GasSats
      /\ Staked("unlocked") = 0 /\ seen.unlocked.unlockCycle = 0
      /\ Left(seen, "stx", "unlocked", "stx1") = a.under
      /\ Left(seen, "stx", "stx1", "stx2") = 0
      /\ Left(seen, "stx", "waited", "stx3") = a.over
      /\ Left(seen, "sbtc", "sbtc0", "sbtc1") = a.sbtc
      /\ Left(seen, "sbtc", "sbtc1", "sbtc2") = 0
      /\ Left(seen, "sbtc", "stx3", "sbtc3") = a.sbtcOver
      /\ seen.beforePay.signer.stxPot[pot] > 0
      /\ Left(seen, "sbtc", "beforePay", "paid") < 0
      /\ Left(seen, "sbtc", "paid", "paidTwice") = 0
      /\ \A s \in a.stakers : seen.paid.signer.stxPaid[pot][s] > 0
\* A fee counts as gas and as nothing else.
MeteredChecks(seen) ==
  LET Spent(name) == seen[name].spent
  IN  /\ Spent("gasPaid").gas - Spent("toppedUp").gas = GasSats
      /\ Spent("gasPaid").sbtc = Spent("toppedUp").sbtc
      /\ Spent("gasPaid").gas < seen.gasPaid.maxGas * 25
      /\ Spent("gasPaid").gas - Spent("toppedUp").gas
           = Left(seen, "sbtc", "toppedUp", "gasPaid")
FullMeteredChecks(seen) == FullChecks(seen) /\ MeteredChecks(seen)
-----------------------------------------------------------------------------
(* simul-max-gas-cooldown-v16.js; -v14.js and -v11.js, where the admin still *)
(* confirmed without a signature.                                            *)
TradingMaxGasFunded == MaxGasFunded(Initialised(9, 10))
TradingMaxGasProposed == MaxGasProposed(TestRpId, TRUE)
TradingMaxGasPending == MaxGasPending(TestRpId)
TradingMaxGasConfirmed == MaxGasConfirmed(TestRpId)
TradingMaxGas ==
  TradingMaxGasFunded \o TradingMaxGasProposed \o TradingMaxGasPending \o TradingMaxGasConfirmed
TradingMaxGasChecks(seen) == MaxGasChecks(seen)
V14MaxGasFunded == MaxGasFunded(Initialised(9, 10))
V14MaxGasProposed == MaxGasProposed(TestRpId, FALSE)
V14MaxGasPending == MaxGasPending(TestRpId)
V14MaxGas == V14MaxGasFunded \o V14MaxGasProposed \o V14MaxGasPending
V14MaxGasChecks(seen) == MaxGasPendingChecks(seen)
V11MaxGasFunded == MaxGasFunded(Initialised(9, 10))
V11MaxGasProposed == MaxGasProposed(TestRpId, FALSE)
V11MaxGasPending == MaxGasPending(TestRpId)
V11MaxGas == V11MaxGasFunded \o V11MaxGasProposed \o V11MaxGasPending
V11MaxGasChecks(seen) == MaxGasPendingChecks(seen)
-----------------------------------------------------------------------------
(* The same as simul-v16-full.js at the versions before: simul-v14-full.js,  *)
(* and simul-fakfun-wallet-v11.js and -v10.js, which read no counters.       *)

V14FullActors == FullActors
V14FullSigned == FullSigned(V14FullActors)
V14FullOnboarded == FullOnboarded(V14FullActors)
V14FullStaking == FullStaking(V14FullActors, V14FullSigned)
V14FullRewards == FullRewards(V14FullActors)
V14FullUnstaking == FullUnstaking(V14FullSigned)
V14FullWithdrawals == FullWithdrawals(V14FullActors)
V14Full == PoolStakes(LifecycleStakers) \o V14FullOnboarded \o V14FullStaking
             \o V14FullRewards \o V14FullUnstaking \o V14FullWithdrawals
V14FullChecks(seen) == FullMeteredChecks(seen)

V11FullActors == FullActors
V11FullSigned == FullSigned(V11FullActors)
V11FullOnboarded == FullOnboarded(V11FullActors)
V11FullStaking == FullStaking(V11FullActors, V11FullSigned)
V11FullRewards == FullRewards(V11FullActors)
V11FullUnstaking == FullUnstaking(V11FullSigned)
V11FullWithdrawals == FullWithdrawals(V11FullActors)
V11Full == PoolStakes(LifecycleStakers) \o V11FullOnboarded \o V11FullStaking
             \o V11FullRewards \o V11FullUnstaking \o V11FullWithdrawals
V11FullChecks(seen) == FullChecks(seen)

V10FullActors == FullActors
V10FullSigned == FullSigned(V10FullActors)
V10FullOnboarded == FullOnboarded(V10FullActors)
V10FullStaking == FullStaking(V10FullActors, V10FullSigned)
V10FullRewards == FullRewards(V10FullActors)
V10FullUnstaking == FullUnstaking(V10FullSigned)
V10FullWithdrawals == FullWithdrawals(V10FullActors)
V10Full == PoolStakes(LifecycleStakers) \o V10FullOnboarded \o V10FullStaking
             \o V10FullRewards \o V10FullUnstaking \o V10FullWithdrawals
V10FullChecks(seen) == FullChecks(seen)
=============================================================================
