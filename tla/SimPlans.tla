------------------------------ MODULE SimPlans ------------------------------
(* Which scripts are replayed, on which wallet, and what each checks.       *)
EXTENDS SimWager, SimSafeVersions, SimAutostake, SimFixes, SimMarkets

Plan(wallet, steps) == [wallet |-> wallet, steps |-> steps]
WagerPlans ==
  ("game-wager" :> Plan("none", WagerScript)) @@ ("game-wager-cancel" :> Plan("none", CancelGames))
    @@ ("game-wager-admin" :> Plan("none", AdminScript))
    @@ ("game-wager-negative" :> Plan("none", NegativeScript))
SafePlans ==
  ("lifecycle-v7" :> Plan("safe", LifecycleV7)) @@ ("lifecycle-v6" :> Plan("safe", V6Lifecycle))
    @@ ("lifecycle-v4" :> Plan("safe", V4Lifecycle))
    @@ ("lifecycle-v2" :> Plan("safe", V2Lifecycle))
    @@ ("lifecycle-v1" :> Plan("safe", V1Lifecycle))
    @@ ("recovery-v7" :> Plan("safe", RecoverySimulation(OnboardSafe)))
    @@ ("recovery-v6" :> Plan("safe", V6Recovery)) @@ ("recovery-v4" :> Plan("safe", V4Recovery))
    @@ ("recovery-v2" :> Plan("safe", V2Recovery)) @@ ("recovery-v1" :> Plan("safe", V1Recovery))
    @@ ("stake-v6" :> Plan("safe", StakeAndUnstake(OnboardSafe)))
    @@ ("stake-v4" :> Plan("safe", V4StakeAndUnstake))
    @@ ("stake-v2" :> Plan("safe", V2StakeAndUnstake))
    @@ ("stake-v1" :> Plan("safe", V1StakeAndUnstake))
KeeperPlans ==
  ("autostake" :> Plan("autostake", KeeperSimulation))
    @@ ("autostake-copy" :> Plan("autostake", CopySimulation))
    @@ ("autostake-operations" :> Plan("autostake", OperationsSimulation))
    @@ ("stake-passkey" :> Plan("autostake", StakingSetup \o StakingOfA))
    @@ ("stake-passkey-copy" :> Plan("autostake", StakingSetup \o StakingOfB))
GasPlans ==
  ("max-gas-v6" :> Plan("safe", MaxGasV6)) @@ ("max-gas-v4" :> Plan("safe", MaxGasV4))
    @@ ("max-gas-v2" :> Plan("safe", MaxGasV2))
    @@ ("metering-v6" :> Plan("safe", MeteringV6)) @@ ("metering-v4" :> Plan("safe", MeteringV4))
FixPlans ==
  ("memo-binding" :> Plan("safe", MemoSimulation))
    @@ ("memo-binding-autostake" :> Plan("autostake", MemoSimulation))
    @@ ("config-passkey" :> Plan("safe", ConfigSimulation))
    @@ ("calldata-A" :> Plan("safe", CalldataScript(500, 1)))
    @@ ("calldata-B" :> Plan("safe", CalldataScript(300, 3)))
    @@ ("staking-v6" :> Plan("safe", StakingV6)) @@ ("staking-v4" :> Plan("safe", StakingV4))
TradingPlans ==
  ("full-v16" :> Plan("trading", FullSimulation)) @@ ("full-v14" :> Plan("trading", V14Full))
    @@ ("full-v11" :> Plan("trading", V11Full)) @@ ("full-v10" :> Plan("trading", V10Full))
    @@ ("max-gas-v16" :> Plan("trading", TradingMaxGas))
    @@ ("max-gas-v14" :> Plan("trading", V14MaxGas))
    @@ ("max-gas-v11" :> Plan("trading", V11MaxGas))
    @@ ("registry-swap" :> Plan("trading", RegistrySwap))
    @@ ("smart-swap" :> Plan("trading", SmartSwap))
    @@ ("smart-swap-deployed" :> Plan("trading", DeployedSmartSwap))
Plans == WagerPlans @@ SafePlans @@ KeeperPlans @@ GasPlans @@ FixPlans @@ TradingPlans

\* What a script checks of its readings once it has run.
Checks(s, views) ==
  CASE s = "game-wager-cancel" -> CancelChecks(views)
    [] s = "game-wager-admin" -> AdminChecks(views)
    [] s = "lifecycle-v7" -> LifecycleChecks(LifecycleActors(LateFork), views)
    [] s = "lifecycle-v6" -> V6LifecycleChecks(views)
    [] s = "lifecycle-v4" -> V4LifecycleChecks(views)
    [] s = "lifecycle-v2" -> V2LifecycleChecks(views)
    [] s = "lifecycle-v1" -> V1LifecycleChecks(views)
    [] s = "recovery-v7" -> RecoveryChecks(views)
    [] s = "recovery-v6" -> V6RecoveryChecks(views)
    [] s = "recovery-v4" -> V4RecoveryChecks(views)
    [] s = "recovery-v2" -> V2RecoveryChecks(views)
    [] s = "recovery-v1" -> V1RecoveryChecks(views)
    [] s = "stake-v6" -> StakeAndUnstakeChecks(views)
    [] s = "stake-v4" -> V4StakeAndUnstakeChecks(views)
    [] s = "stake-v2" -> V2StakeAndUnstakeChecks(views)
    [] s = "stake-v1" -> V1StakeAndUnstakeChecks(views)
    [] s = "autostake" -> KeeperChecks(views)
    [] s = "autostake-copy" -> CopyChecks(views)
    [] s = "autostake-operations" -> OperationsChecks(views)
    [] s = "stake-passkey" -> StakingChecksA(views)
    [] s = "stake-passkey-copy" -> StakingChecksB(views)
    [] s = "max-gas-v6" -> MaxGasChecks(views)
    [] s = "max-gas-v4" -> V4MaxGasChecks(views)
    [] s = "max-gas-v2" -> V2MaxGasChecks(views)
    [] s = "metering-v6" -> MeteringChecks(views)
    [] s = "metering-v4" -> V4MeteringChecks(views)
    [] s \in {"memo-binding", "memo-binding-autostake"} -> MemoChecks(views)
    [] s = "config-passkey" -> ConfigChecks(views)
    [] s = "calldata-A" -> CalldataChecks(500, views)
    [] s = "calldata-B" -> CalldataChecks(300, views)
    [] s = "full-v16" -> FullMeteredChecks(views)
    [] s = "full-v14" -> V14FullChecks(views)
    [] s = "full-v11" -> V11FullChecks(views)
    [] s = "full-v10" -> V10FullChecks(views)
    [] s = "max-gas-v16" -> TradingMaxGasChecks(views)
    [] s = "max-gas-v14" -> V14MaxGasChecks(views)
    [] s = "max-gas-v11" -> V11MaxGasChecks(views)
    [] s = "registry-swap" -> RegistrySwapChecks(views)
    [] s = "smart-swap" -> SmartSwapChecks(views)
    [] s = "smart-swap-deployed" -> DeployedChecks(views)
    [] OTHER -> TRUE
=============================================================================
