--------------------------- MODULE AutostakeSafe ---------------------------
(***************************************************************************)
(* contracts/juice-autostake-safe.clar: the safe of JuiceSafe with a       *)
(* keeper, who may do one thing: stake all unlocked STX and roll the lock  *)
(* back to its full length.                                                *)
(*                                                                         *)
(* The actions the two contracts share are those of JuiceSafe; here they   *)
(* also say what becomes of the keeper and of the lock, whose end pox-5    *)
(* (not in the repository) keeps in reward cycles.  A cycle ends with a    *)
(* prepare phase, in which pox-5 refuses to change a stake.                *)
(***************************************************************************)
EXTENDS JuiceSafe

CONSTANTS
  Keepers,         \* principals named as keeper
  DefaultKeeper,   \* the keeper at deployment
  NumCycles,       \* NUM-CYCLES, also the longest lock pox-5 accepts
  MaxCycle         \* bound: the last reward cycle explored

ASSUME KeepersAssumption == Keepers \subseteq Principals /\ DefaultKeeper \in Users
ASSUME CyclesAssumption == NumCycles \in Nat \ {0} /\ MaxCycle \in Nat

VARIABLES
  keeper,
  currentCycle,    \* external: current-pox-reward-cycle
  unlockCycle,     \* external: first-reward-cycle + num-cycles, 0: no position
  preparing,       \* external: this cycle's prepare phase has begun
  exitCycle,       \* history: the cycle the last unstake leads to, 0: none since staking
  namedUnder,      \* history: the owner under whom the keeper was named
  ownerCall        \* history: the block of the last call of somebody but the keeper

keeperVars == <<keeper, namedUnder>>
lockVars == <<currentCycle, unlockCycle, preparing, exitCycle>>
avars == <<vars, keeperVars, lockVars, ownerCall>>

AInit ==
  /\ Init
  /\ funds.staked = 0
  /\ keeper = DefaultKeeper /\ namedUnder = Nobody
  /\ currentCycle = 1 /\ unlockCycle = 0 /\ exitCycle = 0
  /\ preparing = FALSE /\ ownerCall = 1
-----------------------------------------------------------------------------
(* The lock.                                                                *)

FullLock == currentCycle + 1 + NumCycles
\* pox-5 accepts a lock that runs into a further cycle, at most the longest.
LegalLock(c) == c \in currentCycle + 2 .. FullLock

\* The last blocks of a reward cycle are its prepare phase.
PreparePhase ==
  /\ ~preparing /\ preparing' = TRUE
  /\ UNCHANGED <<vars, keeperVars, currentCycle, unlockCycle, exitCycle, ownerCall>>
\* The next cycle begins; the lock may end with the one before.
NextCycle ==
  /\ preparing /\ preparing' = FALSE
  /\ currentCycle < MaxCycle
  /\ currentCycle' = currentCycle + 1
  /\ IF unlockCycle = currentCycle'
     THEN /\ unlockCycle' = 0
          /\ funds' = [funds EXCEPT !.stx = @ + funds.staked, !.staked = 0]
     ELSE UNCHANGED <<unlockCycle, funds>>
  /\ UNCHANGED <<burnHeight, lastActivityBlock, seatVars, handoverVars, signatureVars,
                 configVars, gasLimitVars, tokenLockEnabled, spentThisPeriod,
                 pendingOperations, keeperVars, exitCycle, ownerCall>>

Stake(amount, c) ==
  /\ StakeStxJuice(amount, c)
  /\ unlockCycle' = FullLock /\ exitCycle' = 0
  /\ UNCHANGED <<currentCycle, preparing, keeperVars>>
UpdateStake(increase, cycles, c) ==
  /\ ~preparing
  /\ increase > 0 \/ cycles > 0
  /\ LegalLock(unlockCycle + cycles)
  /\ UpdateStakeStxJuice(increase, c)
  /\ unlockCycle' = unlockCycle + cycles /\ exitCycle' = 0
  /\ UNCHANGED <<currentCycle, preparing, keeperVars>>
\* Unstaking truncates the lock: it ends with the current cycle.
Leave(c) ==
  /\ Unstake(c)
  /\ unlockCycle' = currentCycle + 1 /\ exitCycle' = currentCycle + 1
  /\ UNCHANGED <<currentCycle, preparing, keeperVars>>
-----------------------------------------------------------------------------
(* The keeper.                                                              *)

\* set-keeper: either factor, the passkey not under the token lock.
SetKeeper(newKeeper, c) ==
  /\ NotLockedOut(c) /\ Authorised(c) /\ PayGas(c.gas) /\ UpdateActivity
  /\ keeper' = newKeeper /\ namedUnder' = owner
  /\ UNCHANGED <<burnHeight, seatVars, handoverVars, configVars, gasLimitVars,
                 tokenLockEnabled, pendingOperations, lockVars>>

\* restake refuses a safe that is leaving, and pox-5 any in the prepare phase.  Nobody is its caller but the keeper,
\* and it is no activity of the wallet.
SlipStillLocked == unlockCycle # 0
Restakable == unlockCycle > currentCycle + 1
CyclesToExtend == IF FullLock > unlockCycle THEN FullLock - unlockCycle ELSE 0
SlipRestakeIsActivity(u) ==
  /\ u = keeper
  /\ Restakable /\ ~preparing
  /\ funds.stx > 0 \/ CyclesToExtend > 0
  /\ LegalLock(unlockCycle + CyclesToExtend)
  /\ funds' = [funds EXCEPT !.staked = @ + funds.stx, !.stx = 0]
  /\ unlockCycle' = unlockCycle + CyclesToExtend
  /\ UpdateActivity
  /\ UNCHANGED <<burnHeight, seatVars, handoverVars, signatureVars, configVars,
                 gasLimitVars, tokenLockEnabled, spentThisPeriod, pendingOperations,
                 keeperVars, currentCycle, preparing, exitCycle, ownerCall>>
Restake(u) ==
  /\ u = keeper
  /\ Restakable /\ ~preparing
  /\ funds.stx > 0 \/ CyclesToExtend > 0
  /\ LegalLock(unlockCycle + CyclesToExtend)
  /\ funds' = [funds EXCEPT !.staked = @ + funds.stx, !.stx = 0]
  /\ unlockCycle' = unlockCycle + CyclesToExtend
  /\ UNCHANGED <<burnHeight, lastActivityBlock, seatVars, handoverVars, signatureVars,
                 configVars, gasLimitVars, tokenLockEnabled, spentThisPeriod,
                 pendingOperations, keeperVars, currentCycle, preparing, exitCycle, ownerCall>>

\* A new owner starts as their own keeper.
SlipKeeperStays(newOwner) == UNCHANGED keeperVars
KeeperReset(newOwner) == keeper' = newOwner /\ namedUnder' = newOwner
ConfirmTransfer(c) == /\ ConfirmTransferWallet(c) /\ KeeperReset(pendingTransfer)
                      /\ UNCHANGED lockVars
Recover(newAdmin, u) == /\ RecoverInactiveWallet(newAdmin, u) /\ KeeperReset(newAdmin)
                        /\ UNCHANGED lockVars
-----------------------------------------------------------------------------
\* The calls the keeper and the lock do not depend on.
Unrelated ==
  /\ \/ Spending \/ Settling \/ PolicyChange
     \/ \E n \in Candidates :
          \/ \E u \in Users : ProposeTransferWallet(n, u)
          \/ \E c \in PasskeyCalls : ProposeRecovery(n, c)
     \/ \E u \in Users : ConfirmRecovery(u)
  /\ UNCHANGED <<keeperVars, lockVars>>
\* The default keeper counts as named under the first owner.
AOnboarding == Onboarding /\ namedUnder' = owner' /\ UNCHANGED <<keeper, lockVars>>
OwnerCall ==
  /\ \/ AOnboarding \/ Unrelated
     \/ \E c \in Calls :
          \/ \E a \in Stakes : Stake(a, c)
          \/ \E a \in Stakes \cup {0}, n \in 0 .. NumCycles : UpdateStake(a, n, c)
          \/ Leave(c)
          \/ \E k \in Keepers : SetKeeper(k, c)
     \/ \E c \in PasskeyCalls : ConfirmTransfer(c)
     \/ \E n \in Candidates, u \in Users : Recover(n, u)
  /\ ownerCall' = burnHeight
ANext ==
  \/ NextBlock /\ UNCHANGED <<keeperVars, lockVars, ownerCall>>
  \/ PreparePhase \/ NextCycle \/ OwnerCall \/ \E u \in Users : Restake(u)
ASpec == AInit /\ [][ANext]_avars
-----------------------------------------------------------------------------
(* Properties.                                                              *)

\* Every variable keeps its shape, and STX is locked just while pox-5 has a
\* position, whose end lies ahead and within the longest lock.
ATypeOK ==
  /\ TypeOK
  /\ keeper \in Principals /\ namedUnder \in Principals /\ ownerCall \in Nat
  /\ currentCycle \in Nat \ {0} /\ unlockCycle \in Nat /\ exitCycle \in Nat
  /\ preparing \in BOOLEAN /\ (funds.staked > 0) = (unlockCycle # 0)
  /\ unlockCycle # 0 => unlockCycle \in currentCycle + 1 .. FullLock

\* Once a factor has unstaked, the STX is free at the next cycle, whatever the
\* keeper calls in between (restake refuses a safe that is leaving).
LeavingSafeLeaves == exitCycle # 0 /\ currentCycle >= exitCycle => funds.staked = 0

\* Whoever may restake was named under the present owner, or is the owner:
\* no transfer or recovery leaves a former owner's choice in office.
KeeperIsOfPresentOwner == pubkeyInitialized => namedUnder = owner

\* The inactivity clock shows the last call of somebody but the keeper, so that
\* a keeper who restakes for ever holds off no recovery.
KeeperIsNoActivity == lastActivityBlock = ownerCall
=============================================================================
