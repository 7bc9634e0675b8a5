------------------------------ MODULE SimFixes ------------------------------
(* The simulations of single changes to the safe: what a signature binds    *)
(* (memo, calldata, thresholds), what onboard and signal accept, and what   *)
(* of its STX the wallet may stake.                                         *)
EXTENDS SimOperations

(* simul-juice-safe-memo-binding.js, on the two safes that carry the change  *)
(* (juice-safe-v9 and juice-autostake-safe).                                *)
MemoQueued == "owner-acct-1001"
MemoOther == "acct-6666"
MemoAmounts ==
  [stx |-> 1000, sbtc |-> 400000, op0 |-> 400, op1 |-> 300, op2 |-> 150000, op3 |-> 120000,
   op4 |-> 200, op5 |-> 110000]
MemoSetup == <<Fund("stx", MemoAmounts.stx), Fund("sbtc", MemoAmounts.sbtc), OnboardSafe>>
\* Queued with one memo; neither the relayer's memo nor an added one is paid.
MemoStx ==
  LET Now(op, id, memo) == [StxNow(op, id) EXCEPT !.args.memo = memo]
      Wrong(step) == Unmoved(Refused(step, "u4041"))
  IN  <<StxCall("owner", MemoAmounts.op0, MemoQueued),
        Wrong(Now(0, 1, MemoOther)), See("op0x"),
        Moving(Now(0, 1, MemoQueued), [stx |-> -MemoAmounts.op0]),
        StxCall("owner", MemoAmounts.op1, None),
        Wrong(Now(1, 2, MemoOther)), Moving(Now(1, 2, None), [stx |-> -MemoAmounts.op1])>>
MemoSbtc ==
  LET Queue(amount, memo) == [TokenCall("owner", "sbtc", amount) EXCEPT !.args.memo = memo]
      Now(op, id, memo) == [SbtcNow(op, id) EXCEPT !.args.memo = memo]
      Wrong(step) == Unmoved(Refused(step, "u4041"))
  IN  <<Queue(MemoAmounts.op2, MemoQueued), Wrong(Now(2, 3, MemoOther)), See("op2x"),
        Moving(Now(2, 3, MemoQueued), [sbtc |-> -MemoAmounts.op2]),
        Queue(MemoAmounts.op3, None), Wrong(Now(3, 4, MemoOther)),
        Moving(Now(3, 4, None), [sbtc |-> -MemoAmounts.op3]),
        StxCall("owner", MemoAmounts.op4, MemoQueued), Queue(MemoAmounts.op5, MemoQueued)>>
MemoDelayed ==
  LET Stx == [ExecuteStx("owner", 4) EXCEPT !.args.memo = MemoQueued]
      Sbtc == [ExecuteSbtc("owner", 5) EXCEPT !.args.memo = MemoQueued]
  IN  <<Refused(Stx, "u4017"), Refused(Sbtc, "u4017"), Advance(145, 0),
        Moving(Stx, [stx |-> -MemoAmounts.op4]), Moving(Sbtc, [sbtc |-> -MemoAmounts.op5]),
        Refused(Stx, "u4014")>>
MemoSimulation == MemoSetup \o MemoStx \o MemoSbtc \o MemoDelayed
MemoChecks(seen) ==
  /\ seen.op0x.operations[1].memo = MemoQueued
  /\ seen.op2x.operations[2].memo = None /\ seen.op2x.operations[3].memo = MemoQueued
  /\ \A pending \in {seen.op0x.operations[1], seen.op2x.operations[3]} :
       ~pending.executed /\ ~pending.vetoed
-----------------------------------------------------------------------------
(* simul-config-passkey-v6.js.  That v6 refuses the burn address as recovery *)
(* is left out: v9 does not.                                                *)
FirstConfig == [stx |-> 100, sbtc |-> 100000, cooldown |-> 200]
ChangedConfig == [stx |-> 250, sbtc |-> 300000, cooldown |-> 288]
ConfigOnboarding ==
  LET Onboarding(recovery, cooldown) == Onboarded("owner", recovery, 100, 100000, cooldown)
  IN  <<Refused(Onboarding("self", 200), "u4001"), Refused(Onboarding("owner", 200), "u4001"),
        Refused(Onboarding("recovery", 100), "u4031"),
        Refused(Onboarding("recovery", 5000), "u4019"),
        Onboarding("recovery", 200), See("cfg0"), Fund("stx", 500)>>
ConfigBounds ==
  <<Refused(SignalCall("random", ChangedConfig), "u4001"),
    Refused(SignalCall("owner", [ChangedConfig EXCEPT !.cooldown = 10]), "u4031"),
    Refused(SignalCall("owner", [ChangedConfig EXCEPT !.cooldown = 9999]), "u4019")>>
\* The values are committed when they are signalled, and signed when confirmed.
ConfigSignalled ==
  LET other == [stx |-> 999, sbtc |-> 999000, cooldown |-> 1000]
  IN  <<SignalCall("owner", ChangedConfig), See("cfg1"),
        Refused(SignedConfig(1, other), "u4002"),
        Refused(SignedConfig(2, [ChangedConfig EXCEPT !.stx = 251]), "u4002"),
        Refused(SignedConfig(3, ChangedConfig), "u4012"), Advance(220, 0),
        SignedConfig(4, ChangedConfig), See("cfg2")>>
AdminCannotConfirm ==
  LET back == [FirstConfig EXCEPT !.cooldown = 144]
      garbage == SigAuth(9, SafeKey, Garbage(SafeSign(TConfig(9, back))))
  IN  <<SignalCall("owner", back), Advance(308, 0),
        Refused(Relayed("owner", "set-wallet-config", NoArgs, garbage), "u4002"), See("cfg3")>>
ConfigSimulation == ConfigOnboarding \o ConfigBounds \o ConfigSignalled \o AdminCannotConfirm
ConfigChecks(seen) ==
  LET Config(name) == [f \in {"stx", "sbtc", "cooldown"} |-> seen[name].config[f]]
  IN  /\ Config("cfg0") = FirstConfig /\ seen.cfg0.recovery = "recovery"
      /\ seen.cfg1.pendingConfig = ChangedConfig /\ Config("cfg1") = FirstConfig
      /\ Config("cfg2") = ChangedConfig
      /\ seen.cfg2.pendingConfig = [stx |-> 0, sbtc |-> 0, cooldown |-> 0]
      /\ seen.cfg2.lastActivity > seen.cfg0.lastActivity
      /\ seen.cfg3.config.cooldown = 288 /\ seen.cfg3.pendingConfig.cooldown = 144
-----------------------------------------------------------------------------
(* simul-juice-safe-v8-signer-calldata.js: the signature binds the calldata  *)
(* for the signer.  The safe A and its copy B.                              *)
CalldataX == "telegram:@juice_staker"
CalldataY == "telegram:@someone_else"
CalldataFund == 1000
CalldataScript(amount, id) ==
  LET Staking(data) ==
        Presented(Call("relayer", "stake-stx-juice", [amount |-> amount, calldata |-> data]),
                  Message("stake-stx-juice-pox5", id, [amount |-> amount, calldata |-> CalldataX]))
  IN  <<OnboardSafe, Fund("stx", CalldataFund),
        Refused(Staking(CalldataY), "u4002"), Refused(Staking(None), "u4002"), See("1s"),
        Staking(CalldataX), See("3s"), Refused(Staking(CalldataX), "u4006")>>
CalldataChecks(amount, seen) ==
  /\ seen["1s"].funds.staked = 0 /\ seen["1s"].unlockCycle = 0
  /\ seen["3s"].funds.staked = amount /\ seen["3s"].funds.stx = CalldataFund - amount
  /\ seen["3s"].unlockCycle = seen["3s"].currentCycle + 1 + 96
-----------------------------------------------------------------------------
(* simul-v6-v14-staking.js, and simul-v4-v14-staking.js                      *)
StakingAmounts == [fund |-> 800, stake |-> 500, topup |-> 100]
StakingScript(onboard) ==
  <<onboard, Fund("stx", StakingAmounts.fund), StakeCall("owner", StakingAmounts.stake),
    UpdateStakeCall("owner", StakingAmounts.topup, 0),
    Refused(UpdateStakeCall("owner", 0, 2), "u20"), Advance(2100, 1),
    UpdateStakeCall("owner", 0, 1), Refused(UpdateStakeCall("owner", 0, 0), "u4026"),
    UnstakeCall("owner"), Advance(1600, 1)>>
StakingV6 == StakingScript(OnboardSafe)
StakingV4 == StakingScript(OnboardUpToV4)
=============================================================================
