------------------------ MODULE JuiceSafeRefinement ------------------------
(* The safe implements the abstract payment queue, and the abstract timelock *)
(* once for its policy and once for its gas limit.                          *)
EXTENDS JuiceSafe

Status(op) == IF op.executed THEN "paid" ELSE IF op.vetoed THEN "vetoed" ELSE "pending"
Payments ==
  [i \in 1 .. MaxOps |->
     IF i \in DOMAIN pendingOperations
     THEN LET op == pendingOperations[i]
          IN  [status |-> Status(op), due |-> op.executeAfter,
               fromPasskey |-> op.passkeyCreated, cost |-> CostOf(op)]
     ELSE [status |-> "absent", due |-> 0, fromPasskey |-> FALSE, cost |-> 0]]
Queue == INSTANCE PaymentQueue WITH
  Ids <- 1 .. MaxOps, MinWait <- MinCooldown, MaxWait <- MaxCooldown,
  height <- burnHeight, signatures <- usedAssertions, payments <- Payments

\* What stands for no value is no value.
ASSUME PlaceholderAssumption == NoKey \notin Policy \cup Nat

PolicyInForce == [stx |-> walletConfig.stx, sbtc |-> walletConfig.sbtc,
                  cooldown |-> walletConfig.cooldown]
\* The policy exists once onboard has installed it.
PolicyLock == INSTANCE Timelock WITH
  MinWait <- MinCooldown, Unset <- NoKey, NoProposal <- NoKey, Harmless <- {},
  height <- burnHeight,
  current <- IF pubkeyInitialized THEN PolicyInForce ELSE NoKey,
  proposal <- IF walletConfig.signaledAt = 0 THEN NoKey ELSE pendingConfig,
  since <- walletConfig.signaledAt
GasLock == INSTANCE Timelock WITH
  MinWait <- MinCooldown, Unset <- NoKey, NoProposal <- NoKey, Harmless <- {},
  height <- burnHeight, current <- maxGasAmount,
  proposal <- IF pendingMaxGas.proposedAt = 0 THEN NoKey ELSE pendingMaxGas.amount,
  since <- pendingMaxGas.proposedAt

\* Every queued operation keeps the promise of PaymentQueue (pending-operations,
\* execute-pending-*, execute-pending-*-now, veto-operation).
PaymentsKeepPromise == Queue!Spec

\* Thresholds, cooldown and gas limit change only to what was proposed, after
\* the cooldown, whatever other calls come between proposal and confirmation.
PolicyIsTimelocked == PolicyLock!Spec
GasLimitIsTimelocked == GasLock!Spec
=============================================================================
