------------------------------- MODULE SimGas -------------------------------
(* The simulations of what gas may cost: the limit of a fee and its         *)
(* cooldown, and the fuse on the fees of a period.                          *)
EXTENDS SimOperations

(* simul-max-gas-cooldown-v6.js.  Up to v4 the admin confirmed a limit       *)
(* without a signature: those versions' confirmations are left out.          *)
MaxGasAmounts == [overCeiling |-> 20000, newCap |-> 5000, stx |-> 500, sbtc |-> 500000, stake |-> 100]
\* A gas station that takes as much as the limit asked for.
GreedyStake(rp) ==
  LET a == MaxGasAmounts
  IN  PayingGas(ForSite(Presented(StakeCall("relayer", a.stake), TStake(1, a.stake)), rp),
                a.newCap)
OwnersConfirm(rp, id, amount) == [ForSite(SignedMaxGas(id, amount), rp) EXCEPT !.by = "owner"]

MaxGasFunded(onboarding) ==
  onboarding \o <<Fund("stx", MaxGasAmounts.stx), Fund("sbtc", MaxGasAmounts.sbtc), See("g0")>>
\* A confirmation is a step only where the version signs it.
MaxGasProposed(rp, signed) ==
  LET new == MaxGasAmounts.newCap
  IN  <<Refused(ProposeMaxGasCall("owner", MaxGasAmounts.overCeiling), "u4018"),
        Refused(ProposeMaxGasCall("random", new), "u4001")>>
      \o (IF signed THEN <<Refused(OwnersConfirm(rp, 2, 0), "u4016")>> ELSE <<>>)
      \o <<ProposeMaxGasCall("owner", new), See("g1")>>
      \o (IF signed THEN <<Refused(OwnersConfirm(rp, 3, new), "u4012")>> ELSE <<>>)
\* While the raise is pending, the old limit holds.
MaxGasPending(rp) == <<Refused(GreedyStake(rp), "any"), See("a1"), Advance(150, 0)>>
MaxGasConfirmed(rp) ==
  <<Refused(OwnersConfirm(rp, 5, 9999), "u4002"), OwnersConfirm(rp, 4, MaxGasAmounts.newCap),
    See("g2")>>
MaxGasSimulation(onboarding, rp, signed) ==
  MaxGasFunded(onboarding) \o MaxGasProposed(rp, signed) \o MaxGasPending(rp)
    \o (IF signed THEN MaxGasConfirmed(rp) ELSE <<>>)

MaxGasPendingChecks(seen) ==
  /\ seen.g1.maxGas = seen.g0.maxGas
  /\ seen.g1.funds.sbtc - seen.a1.funds.sbtc <= seen.g0.maxGas
MaxGasChecks(seen) ==
  /\ MaxGasPendingChecks(seen)
  /\ seen.g2.maxGas = MaxGasAmounts.newCap /\ seen.g2.pendingMaxGas.proposedAt = 0

MaxGasV6 == MaxGasSimulation(<<OnboardSafe>>, SafeRpId, TRUE)
(* simul-max-gas-cooldown-v4.js and, for juice-safe-v2, simul-max-gas-cooldown.js *)
MaxGasV4 == MaxGasSimulation(<<OnboardUpToV4>>, SafeRpId, FALSE)
V4MaxGasChecks(seen) == MaxGasPendingChecks(seen)
MaxGasV2 == MaxGasSimulation(<<OnboardUpToV4>>, SafeRpId, FALSE)
V2MaxGasChecks(seen) == MaxGasPendingChecks(seen)
-----------------------------------------------------------------------------
(* simul-gas-metering-v6.js, and -v4.js for an onboard without a cooldown.   *)
(* STX are counted in tenths here.                                           *)

MeteringAmounts ==
  [maxGas |-> 1000, cap |-> 25000, liarTakes |-> 10, creditSends |-> 50, fullCalls |-> 25,
   fullPasses |-> 24, stxFund |-> 8000, sbtcFund |-> 500000, stake |-> 1000, topup |-> 10,
   fuseStx |-> 1, sbtcUnder |-> 1000]
\* The stations: the fee is what a station takes, whatever it claims; one that
\* sends sBTC in takes nothing.
WithLiar(step) == PayingGas(step, MeteringAmounts.liarTakes)
WithFull(step) == PayingGas(step, MeteringAmounts.maxGas)
WithCredit(step) == <<Fund("sbtc", MeteringAmounts.creditSends), PayingGas(step, 0)>>

SignedStake(id, amount) == Presented(StakeCall("relayer", amount), TStake(id, amount))
SignedTopup(id) ==
  Presented(UpdateStakeCall("relayer", MeteringAmounts.topup, 0), TUpdateStake(id, MeteringAmounts.topup, 0))

MeteringFunded(cooldown) ==
  <<Onboarded("owner", "recovery", 1000, 100000, cooldown),
    Fund("stx", MeteringAmounts.stxFund), Fund("sbtc", MeteringAmounts.sbtcFund), See("s0")>>
LiarIsMetered ==
  <<Moving(WithLiar(SignedStake(1, MeteringAmounts.stake)),
           [stx |-> -MeteringAmounts.stake, sbtc |-> -MeteringAmounts.liarTakes]), See("s1")>>
CreditIsNoRefill == WithCredit(SignedTopup(2)) \o <<See("s2")>>
\* 24 fees fit under the cap, the next one trips the fuse.  A station named by
\* the admin is ignored.
FuseTrips ==
  LET FuseCall(k) == WithFull(SignedStx(2 + k, MeteringAmounts.fuseStx))
  IN  [k \in 1 .. MeteringAmounts.fullCalls |->
         IF k <= MeteringAmounts.fullPasses THEN FuseCall(k) ELSE Refused(FuseCall(k), "u4018")]
      \o <<See("s3"), WithFull(StxTransferCall("owner", MeteringAmounts.fuseStx)), See("s3b")>>
\* The blown fuse stops neither transfers nor the calls without a station.
FuseIsNoLockout ==
  <<Moving(SbtcTransferCall("owner", MeteringAmounts.sbtcUnder), [sbtc |-> -MeteringAmounts.sbtcUnder]),
    See("s4"), SignedTopup(28), UpdateStakeCall("owner", MeteringAmounts.topup, 0)>>
PeriodRolls == <<Advance(150, 0), WithFull(SignedTopup(29)), See("s6")>>
MeteringSimulation(cooldown) ==
  MeteringFunded(cooldown) \o LiarIsMetered \o CreditIsNoRefill \o FuseTrips \o FuseIsNoLockout
    \o PeriodRolls

MeteringChecks(seen) ==
  LET Gas(name) == seen[name].spent.gas
      a == MeteringAmounts
  IN  /\ seen.s0.maxGas = a.maxGas
      /\ Gas("s1") = a.liarTakes /\ Gas("s2") = Gas("s1")
      /\ seen.s2.funds.sbtc > seen.s1.funds.sbtc
      /\ Gas("s3") \in a.cap - a.maxGas .. a.cap /\ Gas("s3b") = Gas("s3")
      /\ seen.s4.spent.sbtc > seen.s3b.spent.sbtc /\ Gas("s4") = Gas("s3b")
      /\ Gas("s6") = a.maxGas /\ Gas("s6") < Gas("s4")
      /\ seen.s6.spent.periodStart > seen.s0.spent.periodStart

MeteringV6 == MeteringSimulation(144)
V4MeteringFunded == MeteringFunded(FixedCooldown)
V4LiarIsMetered == LiarIsMetered
V4CreditIsNoRefill == CreditIsNoRefill
V4FuseTrips == FuseTrips
V4FuseIsNoLockout == FuseIsNoLockout
V4PeriodRolls == PeriodRolls
V4MeteringChecks(seen) == MeteringChecks(seen)
MeteringV4 ==
  V4MeteringFunded \o V4LiarIsMetered \o V4CreditIsNoRefill \o V4FuseTrips \o V4FuseIsNoLockout
    \o V4PeriodRolls
=============================================================================
