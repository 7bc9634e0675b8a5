---------------------------- MODULE SimAutostake ----------------------------
(* The simulations of juice-autostake-safe: the keeper across staking,      *)
(* leaving, hand-over and recovery; staking by the passkey.                 *)
EXTENDS SimSafe

\* "deployer" (chavita.btc) is the keeper at deployment.  What a script does with
\* a second copy of the wallet is replayed as a script of its own.
RestakeCall(by) == Call(by, "restake", NoArgs)
SetKeeperCall(by, newKeeper) == Call(by, "set-keeper", [keeper |-> newKeeper])
TSetKeeper(id, newKeeper) == Message("set-keeper", id, [keeper |-> newKeeper])
Free(view) == view.funds.stx
Locked(view) == view.funds.staked
AtMax(view) == view.unlockCycle = view.currentCycle + 1 + 96
Extended(before, after) == after.unlockCycle - before.unlockCycle
-----------------------------------------------------------------------------
(* simul-juice-autostake-safe.js                                            *)

KeeperAmounts ==
  [fund |-> 2000, stake |-> 1000, payouts |-> <<100, 50, 10, 5, 20>>, withdraw |-> 30,
   copyFund |-> 400, copyStake |-> 200]
Payout(n) == Fund("stx", KeeperAmounts.payouts[n])

KeeperOnboarded == <<Fund("stx", KeeperAmounts.fund), OnboardSafe, See("A"), Advance(2100, 1)>>
\* B and C: who may restake, and what: all that is free.
KeeperGate ==
  <<Refused(RestakeCall("deployer"), "u4040"),
    StakeCall("owner", KeeperAmounts.stake), See("B2"),
    Refused(RestakeCall("owner"), "u4001"), Refused(RestakeCall("random"), "u4001"),
    RestakeCall("deployer"), See("B5"),
    Refused(RestakeCall("deployer"), "u4026"),
    Payout(1), RestakeCall("deployer"), See("C1")>>
\* D to G: the lock is rolled back to its full length, however many cycles the
\* keeper missed, and no further, but not in a prepare phase.
KeeperRolls ==
  <<Advance(2100, 1), Payout(2), RestakeCall("deployer"), See("D1"),
    Advance(4200, 2), See("E0"), RestakeCall("deployer"), See("E1"),
    Refused(UpdateStakeCall("owner", 0, 1), "u20"),
    IntoPrepare(Advance(2030, 0)), Payout(3), Refused(RestakeCall("deployer"), "any"),
    Advance(100, 1), RestakeCall("deployer"), See("G2")>>
KeeperNamed ==
  LET named == Presented(SetKeeperCall("relayer", "random"), TSetKeeper(11, "random"))
  IN  <<Refused(SetKeeperCall("random", "random"), "u4001"),
        Refused(SetKeeperCall("deployer", "deployer"), "u4001"),
        SetKeeperCall("owner", "owner"), Payout(4),
        Refused(RestakeCall("deployer"), "u4001"), See("H4"),
        RestakeCall("owner"), See("H5"),
        named, See("H6"), Refused(named, "any"),
        SetKeeperCall("owner", "deployer"), See("H8")>>
OwnerLeaves ==
  <<UnstakeCall("owner"), See("I1"), Payout(5), Refused(RestakeCall("deployer"), "u4040"),
    Advance(2100, 1), Refused(RestakeCall("deployer"), "u4040"), See("I3"),
    Advance(2100, 1), Refused(RestakeCall("deployer"), "u4040"), See("I4"),
    Moving(StxTransferCall("owner", KeeperAmounts.withdraw), [stx |-> -KeeperAmounts.withdraw])>>
KeeperForGas ==
  <<Fund("sbtc", 5000),
    Moving(PayingGas(Presented(SetKeeperCall("relayer", "deployer"), TSetKeeper(12, "deployer")),
                     GasSats), [sbtc |-> -GasSats]),
    See("J1")>>
KeeperSimulation ==
  KeeperOnboarded \o KeeperGate \o KeeperRolls \o KeeperNamed \o OwnerLeaves \o KeeperForGas

\* L: a hand-over makes the new owner the keeper.  M: so does a recovery, and
\* the hand-over the former owner had proposed to the present one is refused.
HandoverOfCopy ==
  <<OnboardSafe, Fund("stx", KeeperAmounts.copyFund),
    StakeCall("owner", KeeperAmounts.copyStake), SetKeeperCall("owner", "random"),
    ProposeTransferCall("owner", "recipient"),
    Presented(ConfirmTransferCall, TConfirmTransfer(21, "recipient")), See("L2"),
    Refused(RestakeCall("random"), "u4001"), Refused(RestakeCall("deployer"), "u4001"),
    Refused(RestakeCall("owner"), "u4001"),
    Refused(SetKeeperCall("owner", "deployer"), "u4001"), SetKeeperCall("recipient", "deployer"),
    RestakeCall("deployer"), See("L5")>>
RecoveryOfCopy ==
  <<SetKeeperCall("recipient", "random"), ProposeTransferCall("recipient", "owner"),
    Refused(RecoverTo("recovery", "owner"), "u4009"),
    Advance(52600, 25), See("M1"), RecoverTo("recovery", "owner"), See("M2"),
    Refused(Presented(ConfirmTransferCall, TConfirmTransfer(22, "owner")), "u4001"), See("M2b"),
    Payout(3), Refused(RestakeCall("random"), "u4001"), Refused(RestakeCall("deployer"), "u4001"),
    SetKeeperCall("owner", "deployer"), RestakeCall("deployer"), See("M5")>>
CopySimulation == HandoverOfCopy \o RecoveryOfCopy

KeeperChecks(seen) ==
  /\ seen.A.keeper = "deployer"
  /\ Locked(seen.B2) = 1000 /\ AtMax(seen.B2)
  /\ Locked(seen.B5) = 2000 /\ Free(seen.B5) = 0 /\ Extended(seen.B2, seen.B5) = 0
  /\ Locked(seen.C1) = 2100 /\ Extended(seen.B5, seen.C1) = 0
  /\ Locked(seen.D1) = 2150 /\ AtMax(seen.D1) /\ Extended(seen.C1, seen.D1) = 1
  /\ Locked(seen.E1) = 2150 /\ AtMax(seen.E1) /\ Extended(seen.E0, seen.E1) = 2
  /\ Locked(seen.G2) = 2160 /\ AtMax(seen.G2) /\ Extended(seen.E1, seen.G2) = 1
  /\ Free(seen.H4) = 5 /\ Locked(seen.H5) = 2165
  /\ seen.H6.keeper = "random" /\ seen.H8.keeper = "deployer"
  /\ seen.I1.unlockCycle = seen.I1.currentCycle + 1
  /\ seen.I4.unlockCycle = 0 /\ Locked(seen.I4) = 0
  /\ seen.J1.keeper = "deployer"
CopyChecks(seen) ==
  /\ seen.L2.owner = "recipient" /\ seen.L2.keeper = "recipient"
  /\ Locked(seen.L5) = 400 /\ Free(seen.L5) = 0 /\ Extended(seen.L2, seen.L5) = 0
  /\ seen.M1.inactive
  /\ seen.M2.owner = "owner" /\ seen.M2.keeper = "owner"
  /\ seen.M2b.owner = "owner" /\ "owner" \in seen.M2b.admins
  /\ Locked(seen.M5) = 410 /\ Extended(seen.M2b, seen.M5) > 0 /\ AtMax(seen.M5)
-----------------------------------------------------------------------------
(* simul-juice-autostake-safe-stake-passkey.js.  The wallet A and its copy B *)
(* differ in the calls that name a gas station.                             *)

TStakeData(id, amount, data) ==
  Message("stake-stx-juice-pox5", id, [amount |-> amount, calldata |-> data])
TUpdateData(id, increase, cycles, data) ==
  Message("update-stake-stx-juice", id,
          [increase |-> increase, cycles |-> cycles, calldata |-> data])
StakeData(amount, data) ==
  Call("relayer", "stake-stx-juice", [amount |-> amount, calldata |-> data])
UpdateData(increase, cycles, data) ==
  Call("relayer", "update-stake-stx-juice",
       [increase |-> increase, cycles |-> cycles, calldata |-> data])
StakingSetup == <<OnboardSafe, Fund("stx", 1000), Fund("sbtc", 5000)>>
\* The passkey stakes, unless the token lock is on.
StakingOfA ==
  LET update == Presented(UpdateData(50, 0, None), TUpdateData(7, 50, 0, None))
      Unstaking(id) == Presented(UnstakeCall("relayer"), TUnstake(id))
  IN  <<ToggleLockCall("owner", TRUE),
        Refused(Presented(StakeData(500, None), TStakeData(1, 500, None)), "u4023"),
        Refused(Presented(UpdateData(100, 0, None), TUpdateData(2, 100, 0, None)), "u4023"),
        Refused(Unstaking(3), "u4023"),
        ToggleLockCall("owner", FALSE),
        Refused(StakeCall("owner", 0), "u4026"),
        Refused(Presented(StakeData(500, None), TStakeData(4, 501, None)), "u4002"), See("a0"),
        Presented(StakeData(500, "telegram"), TStakeData(5, 500, "telegram")), See("a1"),
        Refused(UpdateStakeCall("owner", 0, 0), "u4026"),
        PayingGas(Presented(UpdateData(100, 0, "telegram"), TUpdateData(6, 100, 0, "telegram")),
                  GasSats), See("a2"),
        update, See("a3"), Refused(update, "u4006"),
        PayingGas(Unstaking(8), GasSats), See("a4")>>
StakingOfB ==
  LET Staking(id) == PayingGas(Presented(StakeData(300, None), TStakeData(id, 300, None)), GasSats)
  IN  <<ToggleLockCall("owner", TRUE), Refused(Staking(1), "u4023"),
        ToggleLockCall("owner", FALSE), See("b0"), Staking(2), See("b1"),
        Presented(UnstakeCall("relayer"), TUnstake(3)), See("b2")>>
StakingChecksA(seen) ==
  LET Paid(before, after) == before.funds.sbtc - after.funds.sbtc
  IN  /\ Locked(seen.a0) = 0 /\ seen.a0.unlockCycle = 0
      /\ Locked(seen.a1) = 500 /\ AtMax(seen.a1) /\ Paid(seen.a0, seen.a1) = 0
      /\ Locked(seen.a2) = 600 /\ Paid(seen.a1, seen.a2) = GasSats
      /\ Locked(seen.a3) = 650 /\ Paid(seen.a2, seen.a3) = 0
      /\ seen.a4.unlockCycle = seen.a4.currentCycle + 1 /\ Paid(seen.a3, seen.a4) = GasSats
      /\ Locked(seen.a4) + Free(seen.a4) = 1000
StakingChecksB(seen) ==
  /\ Locked(seen.b1) = 300 /\ seen.b0.funds.sbtc - seen.b1.funds.sbtc = GasSats
  /\ seen.b2.unlockCycle = seen.b2.currentCycle + 1 /\ seen.b2.funds.sbtc = seen.b1.funds.sbtc
=============================================================================
