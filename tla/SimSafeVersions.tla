-------------------------- MODULE SimSafeVersions --------------------------
(* The simulations of juice-safe repointed at the versions deployed before: *)
(* the same steps, for an onboard without a cooldown up to v4, and on a     *)
(* fork of the chain that stands at another height.                         *)
EXTENDS SimSafe

(* simul-juice-safe-v6-lifecycle.js, -recovery.js and .js *)
V6LifecycleActors == LifecycleActors(EarlyFork)
V6LifecycleSigned == LifecycleSigned(V6LifecycleActors)
V6LifecycleStaking == LifecycleStaking(V6LifecycleActors, V6LifecycleSigned, OnboardSafe)
V6LifecycleRewards == LifecycleRewards(V6LifecycleActors, V6LifecycleSigned)
V6LifecycleWithdrawals == LifecycleWithdrawals(V6LifecycleActors, V6LifecycleSigned)
V6LifecycleChecks(seen) == LifecycleChecks(V6LifecycleActors, seen)
V6Lifecycle == PoolStakes(LifecycleStakers) \o V6LifecycleStaking \o V6LifecycleRewards
                 \o V6LifecycleWithdrawals
V6Recovery == RecoverySimulation(OnboardSafe)
V6RecoveryChecks(seen) == RecoveryChecks(seen)

(* simul-juice-safe-v4-lifecycle.js, -recovery.js and .js *)
V4LifecycleActors == LifecycleActors(EarlyFork)
V4LifecycleSigned == LifecycleSigned(V4LifecycleActors)
V4LifecycleStaking == LifecycleStaking(V4LifecycleActors, V4LifecycleSigned, OnboardUpToV4)
V4LifecycleRewards == LifecycleRewards(V4LifecycleActors, V4LifecycleSigned)
V4LifecycleWithdrawals == LifecycleWithdrawals(V4LifecycleActors, V4LifecycleSigned)
V4LifecycleChecks(seen) == LifecycleChecks(V4LifecycleActors, seen)
V4Lifecycle == PoolStakes(LifecycleStakers) \o V4LifecycleStaking \o V4LifecycleRewards
                 \o V4LifecycleWithdrawals
V4Recovery == RecoverySimulation(OnboardUpToV4)
V4RecoveryChecks(seen) == RecoveryChecks(seen)
V4StakeAndUnstake == StakeAndUnstake(OnboardUpToV4)
V4StakeAndUnstakeChecks(seen) == StakeAndUnstakeChecks(seen)

(* simul-juice-safe-v2-lifecycle.js, -recovery.js and .js *)
V2LifecycleActors == LifecycleActors(EarlyFork)
V2LifecycleSigned == LifecycleSigned(V2LifecycleActors)
V2LifecycleStaking == LifecycleStaking(V2LifecycleActors, V2LifecycleSigned, OnboardUpToV4)
V2LifecycleRewards == LifecycleRewards(V2LifecycleActors, V2LifecycleSigned)
V2LifecycleWithdrawals == LifecycleWithdrawals(V2LifecycleActors, V2LifecycleSigned)
V2LifecycleChecks(seen) == LifecycleChecks(V2LifecycleActors, seen)
V2Lifecycle == PoolStakes(LifecycleStakers) \o V2LifecycleStaking \o V2LifecycleRewards
                 \o V2LifecycleWithdrawals
V2Recovery == RecoverySimulation(OnboardUpToV4)
V2RecoveryChecks(seen) == RecoveryChecks(seen)
V2StakeAndUnstake == StakeAndUnstake(OnboardUpToV4)
V2StakeAndUnstakeChecks(seen) == StakeAndUnstakeChecks(seen)

(* simul-juice-safe-v1-lifecycle.js, -recovery.js and .js *)
V1LifecycleActors == LifecycleActors(EarlyFork)
V1LifecycleSigned == LifecycleSigned(V1LifecycleActors)
V1LifecycleStaking == LifecycleStaking(V1LifecycleActors, V1LifecycleSigned, OnboardUpToV4)
V1LifecycleRewards == LifecycleRewards(V1LifecycleActors, V1LifecycleSigned)
V1LifecycleWithdrawals == LifecycleWithdrawals(V1LifecycleActors, V1LifecycleSigned)
V1LifecycleChecks(seen) == LifecycleChecks(V1LifecycleActors, seen)
V1Lifecycle == PoolStakes(LifecycleStakers) \o V1LifecycleStaking \o V1LifecycleRewards
                 \o V1LifecycleWithdrawals
V1Recovery == RecoverySimulation(OnboardUpToV4)
V1RecoveryChecks(seen) == RecoveryChecks(seen)
V1StakeAndUnstake == StakeAndUnstake(OnboardUpToV4)
V1StakeAndUnstakeChecks(seen) == StakeAndUnstakeChecks(seen)
=============================================================================
