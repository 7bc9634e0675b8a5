------------------------ MODULE AutostakeSafeProofs ------------------------
(***************************************************************************)
(* Proofs about the safe with a keeper.  A step is either one of the safe's *)
(* own, of which the lemmas of JuiceSafeProofs speak, or a call to         *)
(* set-keeper, a restake or the passing of a reward cycle.  So what the    *)
(* safe promises carries over once those are checked.                      *)
(***************************************************************************)
EXTENDS AutostakeSafe, JuiceSafeRefinementProofs

-----------------------------------------------------------------------------
(* What each kind of step does to the parts the invariants relate.          *)

\* Gas is paid in sBTC: it moves no STX.
LEMMA GasStakesNothing ==
  ASSUME TypeOK, NEW gas
  PROVE  FundsAfterGas(gas).staked = funds.staked /\ FundsAfterGas(gas).stx = funds.stx
BY DEF FundsAfterGas, TypeOK, Ledger

\* A call the keeper does not depend on leaves the seat, the stake and the
\* height, and refreshes the inactivity clock.
LEMMA UnrelatedSteps ==
  ASSUME TypeOK, Unrelated
  PROVE  /\ owner' = owner /\ pubkeyInitialized' = pubkeyInitialized
         /\ funds'.staked = funds.staked
         /\ burnHeight' = burnHeight /\ lastActivityBlock' = burnHeight
         /\ UNCHANGED keeperVars /\ UNCHANGED lockVars
<1> DEFINE Goal == /\ owner' = owner /\ pubkeyInitialized' = pubkeyInitialized
                   /\ funds'.staked = funds.staked
                   /\ burnHeight' = burnHeight /\ lastActivityBlock' = burnHeight
<1> USE DEF UpdateActivity, seatVars, moneyVars, PayGas
<1>1. ASSUME Spending
      PROVE  Goal
  <2>1. ASSUME NEW asset \in {"stx", "sbtc"}, NEW type, NEW amount, NEW maxFee, NEW memo,
               NEW c \in Calls, Spend(asset, type, amount, maxFee, memo, c)
        PROVE  Goal
    <3> DEFINE held == FundsAfterGas(c.gas)
    <3>1. held.staked = funds.staked /\ held \in Ledger
      BY <2>1, GasStakesNothing, AuthorisedType DEF Spend
    <3>2. \/ funds' = held
          \/ funds' = [held EXCEPT ![asset] = @ - (amount + maxFee)]
      BY <2>1 DEF Spend
    <3>3. funds'.staked = held.staked
      <4> HIDE DEF held
      <4>1. QED
        BY <3>1, <3>2 DEF Ledger
    <3>4. QED
      BY <2>1, <3>1, <3>3 DEF Spend
  <2>2. ASSUME NEW asset \in {"other", "nft"}, NEW amount, NEW c \in Calls,
               SendUncapped(asset, amount, c)
        PROVE  Goal
    <3> DEFINE held == FundsAfterGas(c.gas)
    <3>1. held.staked = funds.staked /\ held \in Ledger
      BY <2>2, GasStakesNothing, AuthorisedType DEF SendUncapped
    <3>2. funds' = [held EXCEPT ![asset] = @ - amount]
      BY <2>2 DEF SendUncapped
    <3>3. funds'.staked = held.staked
      <4> HIDE DEF held
      <4>1. QED
        BY <3>1, <3>2 DEF Ledger
    <3>4. QED
      BY <2>2, <3>1, <3>3 DEF SendUncapped
  <2>3. QED
    BY <1>1, <2>1, <2>2
    DEF Spending, StxTransfer, Sip010Transfer, SbtcInitiateWithdrawal, Sip009Transfer
<1>2. ASSUME Settling
      PROVE  Goal
  <2>1. ASSUME NEW i \in DOMAIN pendingOperations, NEW held \in Ledger,
               held.staked = funds.staked, PayOut(i, held)
        PROVE  Goal
    <3>1. pendingOperations[i] \in Operation
      BY DEF TypeOK
    <3>2. AssetOf(pendingOperations[i]) \in {"stx", "sbtc"}
      BY <3>1 DEF AssetOf, Operation
    <3>3. funds'.staked = held.staked
      BY <2>1, <3>2 DEF PayOut, Ledger
    <3>4. QED
      BY <2>1, <3>3 DEF PayOut
  <2>2. ASSUME NEW i, NEW type \in OpTypes, NEW u, ExecutePending(type, i, u)
        PROVE  Goal
    <3>1. funds \in Ledger /\ i \in DOMAIN pendingOperations
      BY <2>2 DEF TypeOK, ExecutePending, Payable
    <3>2. QED
      BY <2>1, <2>2, <3>1 DEF ExecutePending
  <2>3. ASSUME NEW i, NEW type \in OpTypes, NEW c \in PasskeyCalls, NEW memo,
               ExecutePendingNow(type, i, memo, c)
        PROVE  Goal
    <3>1. /\ FundsAfterGas(c.gas) \in Ledger /\ FundsAfterGas(c.gas).staked = funds.staked
          /\ i \in DOMAIN pendingOperations
      BY <2>3, ByPasskeyType, GasStakesNothing DEF ExecutePendingNow, Payable
    <3>2. QED
      BY <2>1, <2>3, <3>1 DEF ExecutePendingNow
  <2>4. ASSUME NEW i, NEW c \in Calls, VetoOperation(i, c)
        PROVE  Goal
    BY <2>4, GasStakesNothing DEF VetoOperation
  <2>5. QED
    BY <1>2, <2>2, <2>3, <2>4 DEF Settling
<1>3. ASSUME PolicyChange
      PROVE  Goal
  BY <1>3, GasStakesNothing DEF PolicyChange, ProposeMaxGasAmount, SignalConfigChange,
    ConfirmMaxGasAmount, SetWalletConfig, ToggleTokenLock
<1>4. ASSUME NEW n, NEW u, ProposeTransferWallet(n, u)
      PROVE  Goal
  BY <1>4 DEF ProposeTransferWallet
<1>5. ASSUME NEW n, NEW c, ProposeRecovery(n, c)
      PROVE  Goal
  BY <1>5, GasStakesNothing DEF ProposeRecovery
<1>6. ASSUME NEW u, ConfirmRecovery(u)
      PROVE  Goal
  BY <1>6 DEF ConfirmRecovery
<1>7. QED
  BY <1>1, <1>2, <1>3, <1>4, <1>5, <1>6 DEF Unrelated

\* A call that changes the stake: what it takes from the unlocked balance is
\* staked.
LEMMA LockStxSteps ==
  ASSUME TypeOK, NEW amount \in Nat, NEW c \in Calls, LockStx(amount, c)
  PROVE  /\ funds'.staked = funds.staked + amount
         /\ owner' = owner /\ pubkeyInitialized' = pubkeyInitialized
         /\ burnHeight' = burnHeight /\ lastActivityBlock' = burnHeight
<1> DEFINE held == FundsAfterGas(c.gas)
<1>1. held.staked = funds.staked /\ held \in Ledger
  BY GasStakesNothing, AuthorisedType DEF LockStx
<1>2. funds' = [held EXCEPT !.stx = @ - amount, !.staked = @ + amount]
  BY DEF LockStx
<1>3. funds'.staked = held.staked + amount
  <2> HIDE DEF held
  <2>1. QED
    BY <1>1, <1>2 DEF Ledger
<1>4. QED
  BY <1>1, <1>3 DEF LockStx, UpdateActivity, seatVars

\* The calls that leave the stake alone and name a keeper.
LEMMA SeatCalls ==
  ASSUME TypeOK
  PROVE  /\ \A k : \A c \in Calls : SetKeeper(k, c) =>
              /\ funds'.staked = funds.staked /\ UNCHANGED lockVars
              /\ UNCHANGED <<owner, pubkeyInitialized>>
              /\ keeper' = k /\ namedUnder' = owner
              /\ burnHeight' = burnHeight /\ lastActivityBlock' = burnHeight
         /\ \A c \in PasskeyCalls : ConfirmTransfer(c) =>
              /\ funds'.staked = funds.staked /\ UNCHANGED lockVars
              /\ owner' = pendingTransfer /\ pubkeyInitialized' = pubkeyInitialized
              /\ keeper' = owner' /\ namedUnder' = owner'
              /\ burnHeight' = burnHeight /\ lastActivityBlock' = burnHeight
         /\ \A n, u : Recover(n, u) =>
              /\ funds'.staked = funds.staked /\ UNCHANGED lockVars
              /\ owner' = n /\ pubkeyInitialized' = pubkeyInitialized
              /\ keeper' = owner' /\ namedUnder' = owner'
              /\ burnHeight' = burnHeight /\ lastActivityBlock' = burnHeight
         /\ AOnboarding =>
              /\ funds'.staked = funds.staked /\ UNCHANGED <<lockVars, keeper>>
              /\ namedUnder' = owner'
              /\ burnHeight' = burnHeight /\ lastActivityBlock' = burnHeight
<1> USE DEF UpdateActivity, seatVars, moneyVars, PayGas
<1>1. \A k : \A c \in Calls : SetKeeper(k, c) =>
              /\ funds'.staked = funds.staked /\ UNCHANGED lockVars
              /\ UNCHANGED <<owner, pubkeyInitialized>>
              /\ keeper' = k /\ namedUnder' = owner
              /\ burnHeight' = burnHeight /\ lastActivityBlock' = burnHeight
  BY GasStakesNothing DEF SetKeeper
<1>2. \A c \in PasskeyCalls : ConfirmTransfer(c) =>
              /\ funds'.staked = funds.staked /\ UNCHANGED lockVars
              /\ owner' = pendingTransfer /\ pubkeyInitialized' = pubkeyInitialized
              /\ keeper' = owner' /\ namedUnder' = owner'
              /\ burnHeight' = burnHeight /\ lastActivityBlock' = burnHeight
  BY GasStakesNothing DEF ConfirmTransfer, ConfirmTransferWallet, KeeperReset
<1>3. \A n, u : Recover(n, u) =>
              /\ funds'.staked = funds.staked /\ UNCHANGED lockVars
              /\ owner' = n /\ pubkeyInitialized' = pubkeyInitialized
              /\ keeper' = owner' /\ namedUnder' = owner'
              /\ burnHeight' = burnHeight /\ lastActivityBlock' = burnHeight
  BY DEF Recover, RecoverInactiveWallet, SeatRecovered, KeeperReset
<1>4. AOnboarding =>
              /\ funds'.staked = funds.staked /\ UNCHANGED <<lockVars, keeper>>
              /\ namedUnder' = owner'
              /\ burnHeight' = burnHeight /\ lastActivityBlock' = burnHeight
  BY DEF AOnboarding, Onboarding, Onboard
<1>5. QED
  BY <1>1, <1>2, <1>3, <1>4

-----------------------------------------------------------------------------
(* Types: the safe's own, and the position at pox-5.                        *)

\* What the contract adds to the calls of the safe.
Added == \/ \E k \in Keepers, c \in Calls : SetKeeper(k, c)
         \/ PreparePhase \/ NextCycle \/ \E u \in Users : Restake(u)

LEMMA EveryOtherStepIsTheSafes ==
  ASSUME [ANext]_avars
  PROVE  [Next]_vars \/ Added
<1>1. ASSUME NEW c \in Calls,
             \/ \E a \in Stakes : Stake(a, c)
             \/ \E a \in Stakes \cup {0}, n \in 0 .. NumCycles : UpdateStake(a, n, c)
             \/ Leave(c)
      PROVE  Next
  BY <1>1 DEF Stake, UpdateStake, Leave, Staking, Next
<1>2. ASSUME \/ \E c \in PasskeyCalls : ConfirmTransfer(c)
             \/ \E n \in Candidates, u \in Users : Recover(n, u)
             \/ AOnboarding \/ Unrelated
             \/ NextBlock
      PROVE  Next
  BY <1>2 DEF ConfirmTransfer, Recover, AOnboarding, Unrelated, Handover, Recovery, Next
<1>3. UNCHANGED avars => UNCHANGED vars
  BY DEF avars
<1>4. QED
  BY <1>1, <1>2, <1>3 DEF ANext, OwnerCall, Added

LEMMA SafeType ==
  ASSUME TypeOK, [ANext]_avars
  PROVE  TypeOK'
<1>1. ASSUME NextCycle
      PROVE  TypeOK'
  <2>1. funds' \in Ledger
    BY <1>1, LedgerSteps DEF NextCycle, TypeOK
  <2>2. QED
    BY <1>1, <2>1 DEF NextCycle, TypeOK, seatVars, handoverVars, signatureVars, configVars,
      gasLimitVars
<1>2. ASSUME NEW u, Restake(u)
      PROVE  TypeOK'
  <2>1. funds' \in Ledger
    <3>1. funds.stx + funds.staked \in Nat /\ funds.staked + funds.stx \in Nat /\ 0 \in Nat
      BY DEF TypeOK, Ledger
    <3>2. QED
      BY <1>2, <3>1, Zenon DEF Restake, TypeOK, Ledger
  <2>2. QED
    BY <1>2, <2>1 DEF Restake, TypeOK, seatVars, handoverVars, signatureVars, configVars,
      gasLimitVars
<1>3. ASSUME NEW k, NEW c \in Calls, SetKeeper(k, c)
      PROVE  TypeOK'
  <2>1. /\ usedPubkeyAuthorizations' \subseteq Hashes /\ usedAssertions' \subseteq Assertions
        /\ spentThisPeriod' \in Counters /\ funds' \in Ledger
    BY <1>3, AuthorisedType DEF SetKeeper, PayGas
  <2>2. QED
    BY <1>3, <2>1 DEF SetKeeper, TypeOK, UpdateActivity, seatVars, handoverVars, configVars,
      gasLimitVars
<1>4. PreparePhase => [Next]_vars
  BY DEF PreparePhase
<1>5. QED
  BY <1>1, <1>2, <1>3, <1>4, EveryOtherStepIsTheSafes, NextType DEF Added

\* The facts about the lock that ATypeOK adds.
LockSound ==
  /\ currentCycle \in Nat \ {0} /\ unlockCycle \in Nat /\ exitCycle \in Nat
  /\ (funds.staked > 0) = (unlockCycle # 0)
  /\ unlockCycle # 0 => unlockCycle \in currentCycle + 1 .. FullLock

\* The end an unstake set is at most one cycle away and stays the end of the
\* lock for as long as there is one.
LeavingSound ==
  /\ exitCycle <= currentCycle + 1
  /\ exitCycle # 0 /\ unlockCycle # 0 => unlockCycle = exitCycle

LEMMA LockSteps ==
  ASSUME TypeOK, LockSound, LeavingSound, [ANext]_avars
  PROVE  LockSound' /\ LeavingSound'
<1> USE CyclesAssumption DEF LockSound, LeavingSound, FullLock
<1>0. funds \in Ledger /\ funds.stx \in Nat /\ funds.staked \in Nat
  BY DEF TypeOK, Ledger
<1>1. ASSUME funds'.staked = funds.staked, UNCHANGED lockVars
      PROVE  LockSound' /\ LeavingSound'
  BY <1>1 DEF lockVars
<1>2. ASSUME NextCycle
      PROVE  LockSound' /\ LeavingSound'
  <2>1. CASE unlockCycle = currentCycle'
    <3>1. funds'.staked = 0
      BY <1>0, <1>2, <2>1 DEF NextCycle, Ledger
    <3>2. QED
      BY <1>2, <2>1, <3>1 DEF NextCycle
  <2>2. CASE unlockCycle # currentCycle'
    BY <1>2, <2>2 DEF NextCycle
  <2>3. QED
    BY <2>1, <2>2
<1>3. ASSUME NEW u, Restake(u)
      PROVE  LockSound' /\ LeavingSound'
  <2>1. funds'.staked = funds.staked + funds.stx
    BY <1>0, <1>3 DEF Restake, Ledger
  <2>2. /\ currentCycle' = currentCycle /\ exitCycle' = exitCycle
        /\ unlockCycle > currentCycle + 1
        /\ unlockCycle' = unlockCycle + CyclesToExtend
        /\ unlockCycle + CyclesToExtend \in currentCycle + 2 .. currentCycle + 1 + NumCycles
    BY <1>3 DEF Restake, Restakable, LegalLock
  <2>3. exitCycle = 0 \/ unlockCycle = 0
    BY <2>2
  <2>4. QED
    BY <1>0, <2>1, <2>2, <2>3
<1>4. ASSUME NEW amount \in Stakes, NEW c \in Calls, Stake(amount, c)
      PROVE  LockSound' /\ LeavingSound'
  <2>1. amount \in Nat \ {0}
    BY InputsAssumption
  <2>2. funds'.staked = funds.staked + amount
    BY <1>4, <2>1, LockStxSteps DEF Stake, StakeStxJuice
  <2>3. QED
    BY <1>0, <1>4, <2>1, <2>2 DEF Stake
<1>5. ASSUME NEW amount \in Stakes \cup {0}, NEW n \in 0 .. NumCycles, NEW c \in Calls,
             UpdateStake(amount, n, c)
      PROVE  LockSound' /\ LeavingSound'
  <2>1. amount \in Nat
    BY InputsAssumption
  <2>2. funds'.staked = funds.staked + amount /\ funds.staked > 0
    BY <1>5, <2>1, LockStxSteps DEF UpdateStake, UpdateStakeStxJuice
  <2>3. QED
    BY <1>0, <1>5, <2>1, <2>2 DEF UpdateStake, LegalLock
<1>6. ASSUME NEW c \in Calls, Leave(c)
      PROVE  LockSound' /\ LeavingSound'
  <2>1. funds'.staked = funds.staked + 0 /\ funds.staked > 0
    BY <1>6, LockStxSteps DEF Leave, Unstake
  <2>2. QED
    BY <1>0, <1>6, <2>1 DEF Leave
<1>7. UNCHANGED avars => funds' = funds /\ UNCHANGED lockVars
  BY DEF avars, vars, moneyVars
<1>8. NextBlock /\ UNCHANGED lockVars => funds'.staked = funds.staked
  BY DEF NextBlock, moneyVars
<1>9. ASSUME PreparePhase
      PROVE  LockSound' /\ LeavingSound'
  BY <1>9 DEF PreparePhase, vars, moneyVars
<1>10. QED
  BY <1>1, <1>2, <1>3, <1>4, <1>5, <1>6, <1>7, <1>8, <1>9, UnrelatedSteps, SeatCalls
  DEF ANext, OwnerCall

\* The phase of the cycle.
LEMMA PhaseSteps ==
  ASSUME preparing \in BOOLEAN, [ANext]_avars
  PROVE  preparing' \in BOOLEAN
<1> USE DEF lockVars
<1>1. OwnerCall => preparing' = preparing
  BY Zenon DEF OwnerCall, AOnboarding, Unrelated, Stake, UpdateStake, Leave, SetKeeper,
    ConfirmTransfer, Recover
<1>2. \A u \in Users : Restake(u) => preparing' = preparing
  BY DEF Restake
<1>3. PreparePhase \/ NextCycle => preparing' \in BOOLEAN
  BY DEF PreparePhase, NextCycle
<1>4. QED
  BY <1>1, <1>2, <1>3 DEF ANext, avars

\* The principals in office.
LEMMA KeeperSteps ==
  ASSUME TypeOK, keeper \in Principals, namedUnder \in Principals, ownerCall \in Nat,
         KeeperIsOfPresentOwner, KeeperIsNoActivity, [ANext]_avars
  PROVE  /\ keeper' \in Principals /\ namedUnder' \in Principals /\ ownerCall' \in Nat
         /\ KeeperIsOfPresentOwner' /\ KeeperIsNoActivity'
<1> DEFINE Goal == /\ keeper' \in Principals /\ namedUnder' \in Principals /\ ownerCall' \in Nat
                   /\ KeeperIsOfPresentOwner' /\ KeeperIsNoActivity'
<1> USE DEF KeeperIsOfPresentOwner, KeeperIsNoActivity
<1>0. burnHeight \in Nat /\ owner \in Principals /\ pendingTransfer \in Principals
  BY DEF TypeOK
<1>1. ASSUME \/ NextBlock /\ UNCHANGED <<keeperVars, lockVars, ownerCall>>
             \/ PreparePhase \/ NextCycle \/ \E u \in Users : Restake(u)
             \/ UNCHANGED avars
      PROVE  Goal
  BY <1>1 DEF NextBlock, PreparePhase, NextCycle, Restake, avars, vars, keeperVars, seatVars
<1>2. ASSUME Unrelated, ownerCall' = burnHeight
      PROVE  Goal
  BY <1>0, <1>2, UnrelatedSteps DEF keeperVars
<1>3. ASSUME NEW c \in Calls, ownerCall' = burnHeight,
             \/ \E a \in Stakes : Stake(a, c)
             \/ \E a \in Stakes \cup {0}, n \in 0 .. NumCycles : UpdateStake(a, n, c)
             \/ Leave(c)
      PROVE  Goal
  <2>1. PICK amount \in Nat : LockStx(amount, c) /\ UNCHANGED keeperVars
    BY <1>3, InputsAssumption DEF Stake, UpdateStake, Leave, StakeStxJuice,
      UpdateStakeStxJuice, Unstake
  <2>2. QED
    BY <1>0, <1>3, <2>1, LockStxSteps DEF keeperVars
<1>4. ASSUME NEW c \in Calls, NEW k \in Keepers, SetKeeper(k, c), ownerCall' = burnHeight
      PROVE  Goal
  BY <1>0, <1>4, SeatCalls, KeepersAssumption
<1>5. ASSUME NEW c \in PasskeyCalls, ConfirmTransfer(c), ownerCall' = burnHeight
      PROVE  Goal
  BY <1>0, <1>5, SeatCalls
<1>6. ASSUME NEW n \in Candidates, NEW u, Recover(n, u), ownerCall' = burnHeight
      PROVE  Goal
  BY <1>0, <1>6, SeatCalls, PrincipalsAssumption
<1>7. ASSUME AOnboarding, ownerCall' = burnHeight
      PROVE  Goal
  <2>1. owner' \in Principals
    BY <1>7, InputsAssumption DEF AOnboarding, Onboarding, Onboard
  <2>2. QED
    BY <1>0, <1>7, <2>1, SeatCalls
<1>8. QED
  BY <1>1, <1>2, <1>3, <1>4, <1>5, <1>6, <1>7 DEF ANext, OwnerCall

-----------------------------------------------------------------------------
(* The theorems.                                                            *)

AInv == /\ TypeOK /\ LockSound /\ LeavingSound /\ preparing \in BOOLEAN
        /\ keeper \in Principals /\ namedUnder \in Principals /\ ownerCall \in Nat
        /\ KeeperIsOfPresentOwner /\ KeeperIsNoActivity

LEMMA AInvInductive == ASpec => []AInv
<1>1. AInit => AInv
  <2> SUFFICES ASSUME AInit
               PROVE  AInv
    OBVIOUS
  <2>1. TypeOK
    BY InitType DEF AInit
  <2>2. ~pubkeyInitialized /\ lastActivityBlock = 1
    BY DEF AInit, Init
  <2>3. LockSound /\ LeavingSound
    <3>1. /\ currentCycle = 1 /\ unlockCycle = 0 /\ exitCycle = 0
          /\ funds.staked = 0
      BY DEF AInit
    <3>2. QED
      BY <3>1 DEF LockSound, LeavingSound
  <2>4. keeper \in Principals /\ namedUnder \in Principals /\ ownerCall \in Nat
    BY KeepersAssumption DEF AInit, Principals
  <2>5. KeeperIsOfPresentOwner /\ KeeperIsNoActivity
    BY <2>2 DEF AInit, KeeperIsOfPresentOwner, KeeperIsNoActivity
  <2>6. preparing \in BOOLEAN
    BY DEF AInit
  <2>7. QED
    BY <2>1, <2>3, <2>4, <2>5, <2>6 DEF AInv
<1>2. AInv /\ [ANext]_avars => AInv'
  <2> SUFFICES ASSUME AInv, [ANext]_avars
               PROVE  AInv'
    OBVIOUS
  <2>1. TypeOK'
    BY SafeType DEF AInv
  <2>2. LockSound' /\ LeavingSound' /\ preparing' \in BOOLEAN
    BY LockSteps, PhaseSteps DEF AInv
  <2>3. /\ keeper' \in Principals /\ namedUnder' \in Principals /\ ownerCall' \in Nat
        /\ KeeperIsOfPresentOwner' /\ KeeperIsNoActivity'
    BY KeeperSteps DEF AInv
  <2>4. QED
    BY <2>1, <2>2, <2>3 DEF AInv
<1>3. QED
  BY <1>1, <1>2, PTL DEF ASpec

\* Every reachable state is well-typed, and STX is locked just while there is a
\* position, which restake and update-stake never extend beyond the longest.
THEOREM AutostakeTypeCorrect == ASpec => []ATypeOK
<1>1. AInv => ATypeOK
  BY DEF AInv, LockSound, ATypeOK
<1>2. QED
  BY <1>1, AInvInductive, PTL

\* What an unstake takes out of the pool is free when the next cycle begins:
\* restake cannot lock it again before.
THEOREM UnstakeIsFinal == ASpec => []LeavingSafeLeaves
<1>1. AInv => LeavingSafeLeaves
  <2> SUFFICES ASSUME AInv, exitCycle # 0, currentCycle >= exitCycle
               PROVE  funds.staked = 0
    BY DEF LeavingSafeLeaves
  <2>1. unlockCycle = 0
    BY CyclesAssumption DEF AInv, LockSound, LeavingSound, FullLock
  <2>2. funds.staked \in Nat /\ ~(funds.staked > 0)
    BY <2>1 DEF AInv, LockSound, TypeOK, Ledger
  <2>3. QED
    BY <2>2
<1>2. QED
  BY <1>1, AInvInductive, PTL

\* The keeper is one the present owner's seat named: each of the two calls that
\* replace the owner (confirm-transfer-wallet, recover-inactive-wallet) resets it.
THEOREM KeeperGoesWithOwner == ASpec => []KeeperIsOfPresentOwner
<1>1. AInv => KeeperIsOfPresentOwner
  BY DEF AInv
<1>2. QED
  BY <1>1, AInvInductive, PTL

\* However often the keeper restakes, the inactivity clock of
\* recover-inactive-wallet counts from the last call of somebody else.
THEOREM KeeperHoldsOffNoRecovery == ASpec => []KeeperIsNoActivity
<1>1. AInv => KeeperIsNoActivity
  BY DEF AInv
<1>2. QED
  BY <1>1, AInvInductive, PTL
-----------------------------------------------------------------------------
(* What the safe promises, the safe with a keeper promises too.             *)

\* set-keeper takes its gas; restake and a new cycle move STX between the
\* unlocked and the staked balance.  None touches seat, policy or queue.
LEMMA AddedSteps ==
  ASSUME TypeOK, Added
  PROVE  /\ UNCHANGED <<seatVars, handoverVars, configVars, gasLimitVars, pendingOperations>>
         /\ UNCHANGED signatureVars \/ \E sig : ConsumeSignature(sig)
         /\ MoneyStep
         /\ ~(tokenLockEnabled /\ PasskeySpoke)
<1> DEFINE Goal ==
      /\ UNCHANGED <<seatVars, handoverVars, configVars, gasLimitVars, pendingOperations>>
      /\ UNCHANGED signatureVars \/ \E sig : ConsumeSignature(sig)
      /\ MoneyStep
      /\ ~(tokenLockEnabled /\ PasskeySpoke)
<1>0. funds \in Ledger /\ funds.stx \in Nat /\ funds.staked \in Nat
  BY DEF TypeOK, Ledger
<1>1. ASSUME NEW k \in Keepers, NEW c \in Calls, SetKeeper(k, c)
      PROVE  Goal
  <2>1. Authorised(c) /\ PayGas(c.gas) /\ NotLockedOut(c)
    BY <1>1 DEF SetKeeper
  <2>2. MoneyStep
    <3>1. /\ c.gas \in {NoGas} \cup GasFees
          /\ c.gas # NoGas => PasskeySpoke
          /\ GasAllowed(c.gas, TRUE)
      BY <2>1, AuthorisedGas
    <3>2. NothingMore(c.gas)
      BY <2>1, OnlyGas
    <3>3. QED
      BY <3>1, <3>2 DEF MoneyStep, Out
  <2>3. UNCHANGED signatureVars \/ (c \in PasskeyCalls /\ ConsumeSignature(c.sig))
    BY <2>1, AuthorisedSigns
  <2>4. ~(tokenLockEnabled /\ PasskeySpoke)
    BY <2>1, <2>3 DEF NotLockedOut, PasskeyCalls, PasskeySpoke, signatureVars
  <2>5. UNCHANGED <<seatVars, handoverVars, configVars, gasLimitVars, pendingOperations>>
    BY <1>1 DEF SetKeeper
  <2>6. QED
    BY <2>2, <2>3, <2>4, <2>5
<1>2. ASSUME funds'.stx + funds'.staked = funds.stx + funds.staked,
             funds'.sbtc = funds.sbtc, UNCHANGED spentThisPeriod
      PROVE  MoneyStep
  BY <1>2, NoGasAtAll DEF Held
<1>3. ASSUME NEW u, Restake(u)
      PROVE  Goal
  <2>1. /\ funds'.stx + funds'.staked = funds.stx + funds.staked
        /\ funds'.sbtc = funds.sbtc
    <3>1. funds'.staked = funds.staked + funds.stx /\ funds'.stx = 0
      BY <1>0, <1>3 DEF Restake, Ledger
    <3>2. funds'.sbtc = funds.sbtc
      BY <1>0, <1>3 DEF Restake, Ledger
    <3>3. QED
      BY <1>0, <3>1, <3>2
  <2>2. UNCHANGED spentThisPeriod
    BY <1>3 DEF Restake
  <2>3. MoneyStep
    BY <1>2, <2>1, <2>2
  <2>4. QED
    BY <1>3, <2>3 DEF Restake, PasskeySpoke, signatureVars
<1>4. ASSUME NextCycle
      PROVE  Goal
  <2>1. UNCHANGED spentThisPeriod
    BY <1>4 DEF NextCycle
  <2>2. ASSUME UNCHANGED funds
        PROVE  MoneyStep
    BY <2>1, <2>2, NoGasAtAll DEF Held
  <2>3. ASSUME funds' = [funds EXCEPT !.stx = @ + funds.staked, !.staked = 0]
        PROVE  MoneyStep
    <3>1. funds'.stx = funds.stx + funds.staked /\ funds'.staked = 0
      BY <1>0, <2>3 DEF Ledger
    <3>2. funds'.sbtc = funds.sbtc
      BY <1>0, <2>3 DEF Ledger
    <3>3. funds'.stx + funds'.staked = funds.stx + funds.staked
      BY <1>0, <3>1
    <3>4. QED
      BY <1>2, <2>1, <3>2, <3>3
  <2>4. MoneyStep
    BY <1>4, <2>2, <2>3 DEF NextCycle
  <2>5. QED
    BY <1>4, <2>4 DEF NextCycle, PasskeySpoke, signatureVars
<1>5. ASSUME PreparePhase
      PROVE  Goal
  <2>1. UNCHANGED <<vars, funds, spentThisPeriod, signatureVars>>
    BY <1>5 DEF PreparePhase, vars, moneyVars
  <2>2. MoneyStep
    BY <1>0, <1>2, <2>1
  <2>3. QED
    BY <2>1, <2>2 DEF vars, PasskeySpoke, signatureVars
<1>6. QED
  BY <1>1, <1>3, <1>4, <1>5 DEF Added

SafeInv == /\ TypeOK /\ SeatInv /\ PolicyLegal /\ QueueSound /\ GestureInv
           /\ UnsignalledInv

LEMMA SafeInvInductive == ASpec => []SafeInv
<1>1. AInit => SafeInv
  <2>1. AInit => TypeOK
    BY InitType DEF AInit
  <2>2. AInit => SeatInv
    BY PrincipalsAssumption DEF AInit, Init, SeatInv, OneSeat
  <2>3. AInit => PolicyLegal
    BY LimitsAssumption DEF AInit, Init, PolicyLegal, LegalCooldown
  <2>4. AInit => QueueSound /\ UnsignalledInv
    BY DEF AInit, Init, QueueSound, UnsignalledInv
  <2>5. AInit => GestureInv
    BY FS_EmptySet DEF AInit, Init, GestureInv, OneGestureOneCall
  <2>6. QED
    BY <2>1, <2>2, <2>3, <2>4, <2>5 DEF SafeInv
<1>2. SafeInv /\ [ANext]_avars => SafeInv'
  <2> SUFFICES ASSUME SafeInv, [ANext]_avars
               PROVE  SafeInv'
    OBVIOUS
  <2>0. TypeOK /\ SeatInv /\ PolicyLegal /\ QueueSound /\ GestureInv /\ UnsignalledInv
    BY DEF SafeInv
  <2>1. TypeOK'
    BY <2>0, SafeType
  <2>2. CASE [Next]_vars
    <3>1. SeatInv' /\ PolicyLegal' /\ UnsignalledInv'
      BY <2>0, <2>2, SeatStep, PolicyStep, UnsignalledStep
    <3>2. QueueStep /\ (UNCHANGED signatureVars \/ \E sig : ConsumeSignature(sig))
      BY <2>0, <2>2, QueueStepOfNext, SignatureSteps DEF vars, QueueStep, signatureVars
    <3>3. QueueSound' /\ GestureInv'
      BY <2>0, <3>2, QueueStepSound, GestureStep
    <3>4. QED
      BY <2>1, <3>1, <3>3 DEF SafeInv
  <2>3. CASE Added
    <3>1. /\ UNCHANGED <<seatVars, handoverVars, configVars, gasLimitVars, pendingOperations>>
          /\ UNCHANGED signatureVars \/ \E sig : ConsumeSignature(sig)
      BY <2>0, <2>3, AddedSteps
    <3>2. SeatInv'
      BY <2>0, <3>1 DEF SeatInv, OneSeat, seatVars, handoverVars
    <3>3. PolicyLegal' /\ UnsignalledInv'
      BY <2>0, <3>1 DEF PolicyLegal, LegalCooldown, UnsignalledInv, configVars, gasLimitVars,
        seatVars
    <3>4. QueueSound' /\ GestureInv'
      BY <2>0, <3>1, QueueStepSound, GestureStep DEF QueueStep
    <3>5. QED
      BY <2>1, <3>2, <3>3, <3>4 DEF SafeInv
  <2>4. QED
    BY <2>2, <2>3, EveryOtherStepIsTheSafes
<1>3. QED
  BY <1>1, <1>2, PTL DEF ASpec

\* One principal holds the seat, the policy stays within its bounds, no queued
\* operation is paid and vetoed, and a gesture authorises one call, whatever the
\* keeper does in between.
THEOREM KeeperDisturbsNoInvariant ==
  ASpec => [](OneSeat /\ PolicyLegal /\ QueueSound /\ OneGestureOneCall)
<1>1. SafeInv => OneSeat /\ PolicyLegal /\ QueueSound /\ OneGestureOneCall
  BY DEF SafeInv, SeatInv, GestureInv
<1>2. QED
  BY <1>1, SafeInvInductive, PTL

\* A step of the safe with a keeper is a money step, and speaks for the passkey
\* under the same conditions.
LEMMA AStepKeepsBooks ==
  ASSUME SafeInv, [ANext]_avars, vars' # vars
  PROVE  /\ MoneyStep
         /\ PasskeySpoke => owner = pubkeyToAdmin
         /\ tokenLockEnabled /\ PasskeySpoke => OnlyPaysGas
<1>0. TypeOK /\ SeatInv /\ OneSeat
  BY DEF SafeInv, SeatInv
<1>1. CASE Next
  BY <1>0, <1>1, EveryStepIsAMoneyStep, SignatureSteps, SpeakerIsOwner, LockedSteps
<1>2. CASE Added
  BY <1>0, <1>2, AddedSteps, SpeakerIsOwner
<1>3. QED
  BY <1>1, <1>2, EveryOtherStepIsTheSafes

\* Money leaves the safe with a keeper in the three ways it leaves the safe;
\* staking moves it within the safe (restake, stx-transfer, execute-pending
\* functions, pay-gas-accounted).
THEOREM KeeperMovesNothingOut == ASpec => OutflowAccounted
<1>1. SafeInv /\ [ANext]_avars => [\A asset \in {"stx", "sbtc"} : Accounted(asset)]_vars
  BY AStepKeepsBooks, EveryAssetAccounted DEF SafeInv
<1>2. [\A asset \in {"stx", "sbtc"} : Accounted(asset)]_vars =>
      [\A asset \in {"stx", "sbtc"} :
         LET gas == IF asset = "sbtc" /\ PasskeySpoke THEN 0 .. maxGasAmount ELSE {0}
         IN  \E g \in gas :
               LET paid == Drop(asset) - g
               IN  /\ GasCounted(g)
                   /\ \/ paid = 0
                      \/ /\ spentThisPeriod'[asset] = CurrentSpent(spentThisPeriod)[asset] + paid
                         /\ spentThisPeriod'[asset] <= walletConfig[asset]
                      \/ \E i \in DOMAIN pendingOperations :
                           LET op == pendingOperations[i]
                           IN  /\ JustExecuted(i) /\ AssetOf(op) = asset /\ CostOf(op) = paid
                               /\ \/ burnHeight >= op.created + MinCooldown
                                  \/ PasskeySpoke /\ ~op.passkeyCreated]_vars
  BY DEF Accounted
<1>3. ASpec => [][\A asset \in {"stx", "sbtc"} : Accounted(asset)]_vars
  BY <1>1, SafeInvInductive, PTL DEF ASpec
<1>4. QED
  BY <1>2, <1>3, PTL DEF OutflowAccounted

\* A passkey of the safe with a keeper speaks for its owner only, moves nothing but
\* gas under the token lock, set-keeper included, and never takes the period's
\* gas above the cap.
THEOREM KeeperLeavesPasskeyItsLimits ==
  ASpec => PasskeyFollowsOwner /\ LockHoldsPasskey /\ GasFuse
<1>1. SafeInv /\ [ANext]_avars => [PasskeySpoke => owner = pubkeyToAdmin]_vars
  BY AStepKeepsBooks
<1>2. SafeInv /\ [ANext]_avars =>
        [tokenLockEnabled /\ PasskeySpoke =>
           /\ funds'.stx = funds.stx /\ funds'.staked = funds.staked
           /\ Drop("other") = 0 /\ Drop("nft") = 0
           /\ Drop("sbtc") <= maxGasAmount
           /\ Len(pendingOperations') = Len(pendingOperations)
           /\ tokenLockEnabled']_vars
  BY AStepKeepsBooks, GasMovesNothingElse DEF SafeInv
<1>3. SafeInv /\ [ANext]_avars =>
        [PasskeySpoke /\ admins' = admins =>
           \/ spentThisPeriod'.gas <= MaxGasPerPeriod
           \/ spentThisPeriod'.gas = spentThisPeriod.gas]_vars
  BY AStepKeepsBooks, FuseStep DEF SafeInv
<1>4. QED
  BY <1>1, <1>2, <1>3, SafeInvInductive, PTL
  DEF ASpec, PasskeyFollowsOwner, LockHoldsPasskey, GasFuse

\* The payments of the safe with a keeper keep the promise of PaymentQueue, and
\* its policy and gas limit that of Timelock.
THEOREM KeeperSafeRefines ==
  ASpec => PaymentsKeepPromise /\ PolicyIsTimelocked /\ GasLimitIsTimelocked
<1>1. AInit => Queue!Init /\ PolicyLock!Init /\ GasLock!Init
  <2>1. AInit => Queue!Init
    BY DEF AInit, Init, Queue!Init, Queue!Absent, Payments
  <2>2. AInit => PolicyLock!Init /\ GasLock!Init
    BY DEF AInit, Init, PolicyLock!Init, GasLock!Init
  <2>3. QED
    BY <2>1, <2>2
<1>2. SafeInv /\ [ANext]_avars => [Queue!Next]_Payments
  <2>1. SafeInv /\ [Next]_vars => QueueStep
    BY QueueStepOfNext DEF SafeInv, vars, QueueStep
  <2>2. SafeInv /\ Added => QueueStep
    BY AddedSteps DEF SafeInv, QueueStep
  <2>3. QED
    BY <2>1, <2>2, EveryOtherStepIsTheSafes, QueueImplementsStep DEF SafeInv
<1>3. SafeInv /\ [ANext]_avars => [PolicyLock!Next]_PolicyLock!setting
  <2>1. SafeInv /\ [Next]_vars => [PolicyLock!Next]_PolicyLock!setting
    BY PolicyLockSteps DEF SafeInv
  <2>2. SafeInv /\ Added => UNCHANGED PolicyLock!setting
    BY AddedSteps DEF SafeInv, PolicyLock!setting, PolicyInForce, configVars, seatVars
  <2>3. QED
    BY <2>1, <2>2, EveryOtherStepIsTheSafes
<1>4. SafeInv /\ [ANext]_avars => [GasLock!Next]_GasLock!setting
  <2>1. SafeInv /\ [Next]_vars => [GasLock!Next]_GasLock!setting
    BY GasLockSteps DEF SafeInv
  <2>2. SafeInv /\ Added => UNCHANGED GasLock!setting
    BY AddedSteps DEF SafeInv, GasLock!setting, gasLimitVars
  <2>3. QED
    BY <2>1, <2>2, EveryOtherStepIsTheSafes
<1>5. QED
  BY <1>1, <1>2, <1>3, <1>4, SafeInvInductive, PTL
  DEF ASpec, PaymentsKeepPromise, PolicyIsTimelocked, GasLimitIsTimelocked, Queue!Spec,
      PolicyLock!Spec, GasLock!Spec

\* The recovery address takes an onboarded safe over only when nobody but the
\* keeper has called it for the whole inactivity period.
TakeoverWaitsForOwner ==
  [][admins' # admins /\ ~PasskeySpoke /\ pubkeyInitialized
       => burnHeight > ownerCall + Inactivity]_avars

\* The keeper's restakes neither hasten a takeover nor hold it off: the wait
\* counts from the last call of anybody else (recover-inactive-wallet, restake).
THEOREM TakeoverWaits == ASpec => TakeoverWaitsForOwner
<1>1. SafeInv /\ KeeperIsNoActivity /\ [ANext]_avars
        => [admins' # admins /\ ~PasskeySpoke /\ pubkeyInitialized
              => burnHeight > ownerCall + Inactivity]_avars
  <2> SUFFICES ASSUME SafeInv, KeeperIsNoActivity, [ANext]_avars, admins' # admins,
                      ~PasskeySpoke, pubkeyInitialized
               PROVE  burnHeight > ownerCall + Inactivity
    OBVIOUS
  <2>1. CASE [Next]_vars
    BY <2>1, ActivityStep DEF SafeInv, KeeperIsNoActivity, vars, seatVars
  <2>2. CASE Added
    BY <2>2, AddedSteps DEF SafeInv, seatVars
  <2>3. QED
    BY <2>1, <2>2, EveryOtherStepIsTheSafes
<1>2. QED
  BY <1>1, SafeInvInductive, KeeperHoldsOffNoRecovery, PTL DEF ASpec, TakeoverWaitsForOwner
=============================================================================
