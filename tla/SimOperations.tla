--------------------------- MODULE SimOperations ---------------------------
(* simul-juice-autostake-safe-ops-coverage.js: every operation of the safe  *)
(* accepted once from each factor that may ask for it, and refused for each *)
(* reason it has.  Its operations are numbered as they are queued.          *)
EXTENDS SimSafe

OpsAmounts ==
  [stx |-> 10, stxOver |-> 150, stxLocked |-> 5, stxReset |-> 90,
   sbtc |-> 10000, sbtcOver |-> 150000, other |-> 1000,
   out |-> 20000, outFee |-> 3000, outOver |-> 120000, outOverFee |-> 1000, newGas |-> 2000]
NewConfig == [stx |-> 200, sbtc |-> 200000, cooldown |-> 150]
OpsMemo == "ops-coverage"

\* T: the messages the passkey signs.
TMaxGas(id, amount) == Message("confirm-max-gas-amount", id, [amount |-> amount])
TConfig(id, config) == Message("set-wallet-config", id, config)
TLock(id, enabled) == Message("toggle-token-lock", id, [enabled |-> enabled])
TVeto(id, op) == Message("veto-operation", id, [id |-> op])
TStx(id, amount, memo) ==
  Message("stx-transfer", id, [amount |-> amount, recipient |-> "recipient", memo |-> memo])
TToken(id, amount, token) ==
  Message("sip010-transfer", id,
          [token |-> token, amount |-> amount, recipient |-> "recipient", memo |-> None])
TWithdrawal(id, amount, maxFee) ==
  Message("sbtc-withdrawal", id, [amount |-> amount, maxFee |-> maxFee])
TNft(id, nft) == Message("sip009-transfer", id, [nft |-> nft, recipient |-> "recipient"])
TRecovery(id, newRecovery) == Message("propose-recovery", id, [newRecovery |-> newRecovery])

\* The calls, and what they move.
ProposeMaxGasCall(by, amount) == Call(by, "propose-max-gas-amount", [amount |-> amount])
ConfirmMaxGasCall == Call("relayer", "confirm-max-gas-amount", NoArgs)
SignalCall(by, config) == Call(by, "signal-config-change", config)
SetConfigCall == Call("relayer", "set-wallet-config", NoArgs)
StxCall(by, amount, memo) ==
  Call(by, "stx-transfer", [amount |-> amount, recipient |-> "recipient", memo |-> memo])
TokenCall(by, token, amount) ==
  Call(by, "sip010-transfer",
       [token |-> token, amount |-> amount, recipient |-> "recipient", memo |-> None])
WithdrawalCall(by, amount, maxFee) ==
  Call(by, "sbtc-initiate-withdrawal", [amount |-> amount, maxFee |-> maxFee])
NftCall(by, nft) == Call(by, "sip009-transfer", [nft |-> nft, recipient |-> "recipient"])
VetoCall(by, op) == Call(by, "veto-operation", [id |-> op])
ProposeRecoveryCall(newRecovery) ==
  Call("relayer", "propose-recovery", [newRecovery |-> newRecovery])
ConfirmRecoveryCall(by) == Call(by, "confirm-recovery", NoArgs)
ExecuteStx(by, op) == ExecuteCall(by, "execute-pending-stx-transfer", op)
ExecuteSbtc(by, op) == ExecuteCall(by, "execute-pending-sbtc-transfer", op)
ExecuteWithdrawal(by, op) == ExecuteCall(by, "execute-pending-sbtc-withdrawal", op)
StxNow(op, id) == Presented(ExecuteCall("relayer", "execute-pending-stx-transfer-now", op),
                            TExecuteNow(id, op))
SbtcNow(op, id) == Presented(ExecuteCall("relayer", "execute-pending-sbtc-transfer-now", op),
                             TExecuteNow(id, op))
WithdrawalNow(op, id) ==
  Presented(ExecuteCall("relayer", "execute-pending-sbtc-withdrawal-now", op),
            TExecuteNow(id, op))
SignedStx(id, amount) == Presented(StxCall("relayer", amount, None), TStx(id, amount, None))
SignedToken(id, token, amount) ==
  Presented(TokenCall("relayer", token, amount), TToken(id, amount, token))
SignedWithdrawal(id, amount, maxFee) ==
  Presented(WithdrawalCall("relayer", amount, maxFee), TWithdrawal(id, amount, maxFee))
SignedNft(id, nft) == Presented(NftCall("relayer", nft), TNft(id, nft))
SignedLock(id, enabled) == Presented(ToggleLockCall("relayer", enabled), TLock(id, enabled))
SignedVeto(id, op) == Presented(VetoCall("relayer", op), TVeto(id, op))
SignedMaxGas(id, amount) == Presented(ConfirmMaxGasCall, TMaxGas(id, amount))
SignedConfig(id, config) == Presented(SetConfigCall, TConfig(id, config))
ForGas(step, change) == Moving(PayingGas(step, GasSats), [sbtc |-> -GasSats] @@ change)
Unmoved(step) == Moving(step, NoMove)
-----------------------------------------------------------------------------
OpsOnboarded ==
  <<Refused(ToggleLockCall("owner", TRUE), "u4001"),
    Refused(ConfirmRecoveryCall("owner"), "u4010"),
    Fund("stx", 1000), Fund("sbtc", 1200000), Fund("other", 1000000), Fund("nft", 2), OnboardSafe>>
OpsMaxGas ==
  LET new == OpsAmounts.newGas
  IN  <<Refused(SignedMaxGas(1, 0), "u4016"),
        Refused(ProposeMaxGasCall("random", new), "u4001"),
        Refused(ProposeMaxGasCall("owner", 10001), "u4018"),
        ProposeMaxGasCall("owner", new), See("P3"),
        Refused(SignedMaxGas(2, new), "u4012"), Refused(SignedMaxGas(3, 3000), "u4002"),
        Refused(ByKey(SignedMaxGas(4, new), "other-key"), "u4004")>>
OpsConfig ==
  LET Lasting(cooldown) == [NewConfig EXCEPT !.cooldown = cooldown]
      nothing == [stx |-> 0, sbtc |-> 0, cooldown |-> 0]
  IN  <<Refused(SignedConfig(5, nothing), "u4016"),
        Refused(SignalCall("random", NewConfig), "u4001"),
        Refused(SignalCall("owner", Lasting(143)), "u4031"),
        Refused(SignalCall("owner", Lasting(4033)), "u4019"),
        SignalCall("owner", NewConfig), See("C4"),
        Refused(SignedConfig(6, NewConfig), "u4012")>>
OpsLock ==
  <<Refused(ToggleLockCall("random", TRUE), "u4001"),
    ToggleLockCall("owner", TRUE), See("T2"), ToggleLockCall("owner", FALSE),
    Refused(ToggleLockCall("random", FALSE), "u4001")>>
\* Operations 0 to 3.
OpsStx ==
  LET a == OpsAmounts
      over == StxCall("owner", a.stxOver, None)
  IN  <<Refused(StxCall("random", a.stx, None), "u4001"),
        Moving(StxCall("owner", a.stx, None), [stx |-> -a.stx]),
        ForGas(Presented(StxCall("relayer", a.stx, OpsMemo), TStx(7, a.stx, OpsMemo)),
               [stx |-> -a.stx]),
        Refused(ForSite(SignedStx(8, a.stx), "example.com"), "u4002"),
        Unmoved(over), Unmoved(SignedStx(9, a.stxOver)), over, over, See("S8"),
        Refused(ExecuteStx("owner", 99), "u4013"), Refused(ExecuteStx("owner", 0), "u4017"),
        Refused(VetoCall("random", 2), "u4001"), Refused(VetoCall("owner", 99), "u4013"),
        ForGas(SignedVeto(10, 2), NoMove), See("V3"),
        Refused(StxNow(1, 11), "u4003"),
        Refused([StxNow(0, 12) EXCEPT !.auths[1].signed = SafeSign(TExecuteNow(12, 3))], "u4002"),
        Refused(StxNow(2, 13), "u4015"), ForGas(StxNow(3, 14), [stx |-> -a.stxOver]),
        Refused(StxNow(3, 15), "u4014"), Refused(ExecuteStx("owner", 3), "u4014"),
        Refused(VetoCall("owner", 3), "u4014")>>
\* Operations 4 to 6.
OpsTokens ==
  LET a == OpsAmounts
      over == TokenCall("owner", "sbtc", a.sbtcOver)
  IN  <<Refused(TokenCall("random", "sbtc", a.sbtc), "u4001"),
        Moving(TokenCall("owner", "sbtc", a.sbtc), [sbtc |-> -a.sbtc]),
        Moving(PayingGas(SignedToken(16, "sbtc", a.sbtc), GasSats),
               [sbtc |-> -a.sbtc - GasSats]),
        Moving(TokenCall("owner", "other", a.other), [other |-> -a.other]),
        Moving(SignedToken(17, "other", a.other), [other |-> -a.other]),
        Refused(Presented(TokenCall("relayer", "other", a.other), TToken(18, a.other, "sbtc")),
                "u4002"),
        Unmoved(over), SignedToken(19, "sbtc", a.sbtcOver), over, See("B9"),
        Refused(ExecuteSbtc("owner", 99), "u4013"), Refused(ExecuteSbtc("owner", 0), "u4013"),
        Refused(ExecuteSbtc("owner", 4), "u4017"), Refused(ExecuteStx("owner", 4), "u4013"),
        VetoCall("owner", 6),
        Refused(SbtcNow(5, 20), "u4003"), Refused(SbtcNow(6, 21), "u4015"),
        Refused(SbtcNow(0, 22), "u4013"),
        Refused(ForSite(SbtcNow(4, 23), "example.com"), "u4002"),
        Refused(StxNow(4, 24), "u4013")>>
\* Operations 7 to 9.
OpsWithdrawals ==
  LET a == OpsAmounts
      out == WithdrawalCall("owner", a.out, a.outFee)
      over == WithdrawalCall("owner", a.outOver, a.outOverFee)
      cost == a.out + a.outFee
  IN  <<Refused(WithdrawalCall("random", a.out, a.outFee), "u4001"),
        Moving(out, [sbtc |-> -cost]),
        Moving(PayingGas(SignedWithdrawal(25, a.out, a.outFee), GasSats),
               [sbtc |-> -cost - GasSats]),
        Refused(Presented(WithdrawalCall("relayer", a.out, a.outFee), TWithdrawal(26, a.out, 1)),
                "u4002"),
        Unmoved(over), SignedWithdrawal(27, a.outOver, a.outOverFee), over, See("W7"),
        Refused(ExecuteWithdrawal("owner", 99), "u4013"),
        Refused(ExecuteWithdrawal("owner", 4), "u4013"),
        Refused(ExecuteWithdrawal("owner", 7), "u4017"),
        SignedVeto(28, 9),
        Refused(WithdrawalNow(8, 29), "u4003"), Refused(WithdrawalNow(9, 30), "u4015"),
        Refused(WithdrawalNow(4, 31), "u4013"),
        Refused(ByKey(WithdrawalNow(7, 32), "other-key"), "u4004"),
        Refused([WithdrawalNow(7, 33) EXCEPT !.auths[1].signed = SafeSign(TExecuteNow(33, 8))],
                "u4002")>>
\* Under the token lock the passkey spends nothing, and cannot lift it.
OpsLocked ==
  LET a == OpsAmounts
      lock == SignedLock(34, TRUE)
      Locked(step) == Refused(step, "u4023")
  IN  <<ForGas(lock, NoMove), See("L1"), Refused(lock, "u4006"),
        Locked(SignedStx(35, a.stx)), Locked(SignedToken(36, "sbtc", a.sbtc)),
        Locked(SignedWithdrawal(37, a.out, a.outFee)), Locked(SignedNft(38, "B")),
        Locked(StxNow(0, 39)), Locked(SbtcNow(4, 40)), Locked(WithdrawalNow(7, 41)),
        Moving(StxCall("owner", a.stxLocked, None), [stx |-> -a.stxLocked]),
        Refused(SignedLock(42, FALSE), "u4001"), ToggleLockCall("owner", FALSE), See("L12")>>
OpsNow ==
  LET a == OpsAmounts
  IN  <<Moving(PayingGas(SbtcNow(4, 43), GasSats), [sbtc |-> -a.sbtcOver - GasSats]),
        Refused(SbtcNow(4, 44), "u4014"),
        Moving(PayingGas(WithdrawalNow(7, 45), GasSats),
               [sbtc |-> -a.outOver - a.outOverFee - GasSats]),
        Refused(WithdrawalNow(7, 46), "u4014")>>
OpsNft ==
  <<Refused(NftCall("random", "A"), "u4001"), NftCall("owner", "A"),
    Refused(Presented(NftCall("relayer", "B"), TNft(47, "A")), "u4002"),
    ForGas(SignedNft(48, "B"), NoMove), See("NF4"), Refused(NftCall("owner", "A"), "any")>>
OpsRecovery ==
  LET Propose(id, named, signedFor) ==
        Presented(ProposeRecoveryCall(named), TRecovery(id, signedFor))
      proposal == Propose(51, "new-recovery", "new-recovery")
  IN  <<Refused(Propose(49, "new-recovery", "random"), "u4002"),
        Refused(Propose(50, "self", "self"), "u4001"),
        ForGas(proposal, NoMove), Refused(proposal, "u4006"),
        Refused(ConfirmRecoveryCall("random"), "u4001"), ConfirmRecoveryCall("owner"), See("R6"),
        Refused(ConfirmRecoveryCall("owner"), "u4010"), Advance(150, 0)>>
\* After the cooldown the admin alone executes what was not vetoed, whichever
\* factor asked for it; the counters of the period start again.
OpsExecuted ==
  LET a == OpsAmounts
  IN  <<Refused(ExecuteStx("random", 0), "u4001"), Refused(ExecuteStx("owner", 2), "u4015"),
        Moving(ExecuteStx("owner", 0), [stx |-> -a.stxOver]),
        Refused(ExecuteStx("owner", 0), "u4014"),
        Moving(ExecuteStx("owner", 1), [stx |-> -a.stxOver]),
        Refused(VetoCall("owner", 0), "u4014"),
        Refused(ExecuteSbtc("random", 5), "u4001"), Refused(ExecuteSbtc("owner", 6), "u4015"),
        Moving(ExecuteSbtc("owner", 5), [sbtc |-> -a.sbtcOver]),
        Refused(ExecuteSbtc("owner", 5), "u4014"),
        Refused(ExecuteWithdrawal("random", 8), "u4001"),
        Refused(ExecuteWithdrawal("owner", 9), "u4015"),
        Moving(ExecuteWithdrawal("owner", 8), [sbtc |-> -a.outOver - a.outOverFee]),
        Refused(ExecuteWithdrawal("owner", 8), "u4014"),
        Moving(SignedStx(52, a.stxReset), [stx |-> -a.stxReset])>>
\* Operations 10 to 12: no gas station is named.
OpsWithoutGas ==
  LET a == OpsAmounts
  IN  <<StxCall("owner", a.stxOver, OpsMemo), TokenCall("owner", "sbtc", a.sbtcOver),
        WithdrawalCall("owner", a.outOver, a.outOverFee),
        Moving([StxNow(10, 60) EXCEPT !.args.memo = OpsMemo], [stx |-> -a.stxOver]),
        Moving(SbtcNow(11, 61), [sbtc |-> -a.sbtcOver]),
        Moving(WithdrawalNow(12, 62), [sbtc |-> -a.outOver - a.outOverFee]),
        Unmoved(SignedLock(63, TRUE)), ToggleLockCall("owner", FALSE),
        Fund("nft", 1), Unmoved(SignedNft(64, "A")), See("G7")>>
OpsConfirmed ==
  <<ForGas(SignedMaxGas(53, OpsAmounts.newGas), NoMove), See("P7"),
    Refused(SignedMaxGas(54, 0), "u4016"),
    Refused(SignedConfig(55, [NewConfig EXCEPT !.cooldown = 144]), "u4002"),
    ForGas(SignedConfig(56, NewConfig), NoMove), See("C7"),
    Refused(SignedConfig(57, [stx |-> 0, sbtc |-> 0, cooldown |-> 0]), "u4016")>>
\* A gas station that takes nothing.
OpsFreeGas == <<Unmoved(PayingGas(SignedLock(65, TRUE), 0)), ToggleLockCall("owner", FALSE)>>
OpsHandover ==
  <<ProposeTransferCall("owner", "new-owner"),
    ForGas(Presented(ConfirmTransferCall, TConfirmTransfer(58, "new-owner")), NoMove), See("Y2"),
    Refused(SignedStx(59, OpsAmounts.stx), "u4005"),
    Refused(StxCall("owner", OpsAmounts.stx, None), "u4001"),
    Unmoved(SignalCall("new-owner", [stx |-> 100, sbtc |-> 100000, cooldown |-> 144]))>>

OperationsSimulation ==
  OpsOnboarded \o OpsMaxGas \o OpsConfig \o OpsLock \o OpsStx \o OpsTokens \o OpsWithdrawals
    \o OpsLocked \o OpsNow \o OpsNft \o OpsRecovery \o OpsExecuted \o OpsWithoutGas
    \o OpsConfirmed \o OpsFreeGas \o OpsHandover

OperationsChecks(seen) ==
  /\ seen.P3.pendingMaxGas.amount = 2000 /\ seen.P3.pendingMaxGas.proposedAt # 0
  /\ seen.C4.pendingConfig = NewConfig
  /\ seen.T2.locked /\ seen.L1.locked /\ ~seen.L12.locked
  /\ ~seen.S8.operations[1].passkeyCreated /\ seen.S8.operations[2].passkeyCreated
  /\ seen.S8.operations[1].amount = 150 /\ seen.V3.operations[3].vetoed
  /\ seen.B9.operations[5].type = "sbtc-transfer"
  /\ seen.W7.operations[8].type = "sbtc-withdraw"
  /\ seen.NF4.funds.nft = 0 /\ seen.G7.funds.nft = 0
  /\ seen.R6.recovery = "new-recovery" /\ seen.R6.pendingRecovery = "nobody"
  /\ seen.P7.maxGas = 2000 /\ seen.P7.pendingMaxGas = [amount |-> 0, proposedAt |-> 0]
  /\ seen.C7.config = [stx |-> 200, sbtc |-> 200000, cooldown |-> 150, signaledAt |-> 0]
  /\ seen.C7.pendingConfig = [stx |-> 0, sbtc |-> 0, cooldown |-> 0]
  /\ seen.Y2.owner = "new-owner"
=============================================================================
