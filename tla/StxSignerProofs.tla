-------------------------- MODULE StxSignerProofs --------------------------
(***************************************************************************)
(* Proofs about the staking signer, for every number of stakers, cycles,   *)
(* tranches and blocks, every amount staked and claimed and every fee      *)
(* under the cap: its types, its books, who is paid what, and the fee's    *)
(* timelock.                                                               *)
(***************************************************************************)
EXTENDS StxSigner, SumTheorems, TLAPS

LEMMA KeysFinite == IsFiniteSet(Keys) /\ \A k \in Keys : k[1] \in Cycles /\ k[2] \in Tranches
<1>1. IsFiniteSet(Cycles) /\ IsFiniteSet(Tranches)
  BY CyclesAssumption
<1>2. IsFiniteSet(Cycles \X Tranches)
  BY <1>1, FS_Product
<1> QED BY <1>2 DEF Keys

\* A cycle's total is a number, and no staker has more shares than it.
LEMMA TotalShares ==
  ASSUME TypeOK, NEW c \in Cycles
  PROVE  /\ CycleTotalShares(c) = SumFunctionOnSet(shares[c], Stakers)
         /\ CycleTotalShares(c) \in Nat
         /\ \A s \in Stakers : shares[c][s] \in Nat /\ shares[c][s] <= CycleTotalShares(c)
<1>1. DOMAIN shares[c] = Stakers /\ \A s \in Stakers : shares[c][s] \in Nat
  BY DEF TypeOK
<1>2. CycleTotalShares(c) = SumFunctionOnSet(shares[c], Stakers)
  BY <1>1 DEF CycleTotalShares, SumFunction
<1>3. IsFiniteSet(Stakers)
  BY StakersAssumption
<1>4. /\ SumFunctionOnSet(shares[c], Stakers) \in Nat
      /\ \A s \in Stakers : shares[c][s] <= SumFunctionOnSet(shares[c], Stakers)
  BY <1>1, <1>3, SumNat
<1> QED BY <1>1, <1>2, <1>4

\* pay-one's arithmetic: rounding takes less than one unit, the fee at most the cap.
LEMMA PartBounds ==
  ASSUME TypeOK, NEW k \in Keys, NEW s \in Stakers
  PROVE  /\ Owed(k, s) \in Nat
         /\ shares[k[1]][s] = 0 => Owed(k, s) = 0
         /\ stxPot[k] = 0 => Owed(k, s) = 0
         /\ CycleTotalShares(k[1]) > 0 =>
              /\ CycleTotalShares(k[1]) * Owed(k, s) <= stxPot[k] * shares[k[1]][s]
              /\ stxPot[k] * shares[k[1]][s] <=
                   CycleTotalShares(k[1]) * Owed(k, s) + (CycleTotalShares(k[1]) - 1)
<1> DEFINE T == CycleTotalShares(k[1])
           n == shares[k[1]][s]
           pot == stxPot[k]
<1>1. T \in Nat /\ n \in Nat /\ pot \in Nat
  <2>1. k[1] \in Cycles
    BY KeysFinite
  <2>2. T \in Nat /\ n \in Nat
    BY <2>1, TotalShares
  <2> QED BY <2>2 DEF TypeOK
<1>2. Owed(k, s) = IF T = 0 THEN 0 ELSE (pot * n) \div T
  BY DEF Owed
<1> HIDE DEF T, n, pot
<1>3. pot * n \in Nat /\ (n = 0 => pot * n = 0) /\ (pot = 0 => pot * n = 0)
  BY <1>1
<1>4. CASE T = 0
  BY <1>1, <1>2, <1>4 DEF T, n, pot
<1>5. CASE T # 0
  <2>1. /\ (pot * n) \div T \in Nat
        /\ T * ((pot * n) \div T) <= pot * n
        /\ pot * n <= T * ((pot * n) \div T) + (T - 1)
    BY <1>1, <1>3, <1>5, DivBounds
  <2>2. 0 \div T = 0
    BY <1>1, <1>5
  <2>3. /\ Owed(k, s) \in Nat /\ T * Owed(k, s) <= pot * n
        /\ pot * n <= T * Owed(k, s) + (T - 1)
        /\ (n = 0 => Owed(k, s) = 0) /\ (pot = 0 => Owed(k, s) = 0)
    BY <1>2, <1>3, <1>5, <2>1, <2>2
  <2> QED BY <2>3 DEF T, n, pot
<1> QED BY <1>4, <1>5

LEMMA NetBounds ==
  ASSUME TypeOK, NEW k \in Keys, NEW s \in Stakers
  PROVE  /\ FeeOf(k, s) \in Nat /\ Net(k, s) \in Nat
         /\ Owed(k, s) = Net(k, s) + FeeOf(k, s)
         /\ LeastNet(k, s) <= Net(k, s)
<1> DEFINE w == Owed(k, s)
<1>1. w \in Nat
  BY PartBounds
<1>2. /\ feeBips \in Nat /\ MaxFeeBips \in Nat /\ feeBips <= MaxFeeBips
      /\ MaxBips \in Nat \ {0} /\ MaxFeeBips <= MaxBips
  BY AmountsAssumption DEF TypeOK
<1>3. FeeOf(k, s) = IF s \in ogStakers THEN 0 ELSE (w * feeBips) \div MaxBips
  BY DEF FeeOf
<1>4. Net(k, s) = w - FeeOf(k, s) /\ LeastNet(k, s) = w - (w * MaxFeeBips) \div MaxBips
  BY DEF Net, LeastNet
<1> HIDE DEF w
<1>5. /\ w * feeBips \in Nat /\ w * MaxFeeBips \in Nat /\ w * MaxBips \in Nat
      /\ w * feeBips <= w * MaxFeeBips /\ w * MaxFeeBips <= w * MaxBips
  BY <1>1, <1>2
<1>6. /\ (w * feeBips) \div MaxBips \in Nat /\ (w * MaxFeeBips) \div MaxBips \in Nat
      /\ (w * feeBips) \div MaxBips <= (w * MaxFeeBips) \div MaxBips
  BY <1>2, <1>5, DivBounds, DivMonotone
<1>7. (w * MaxFeeBips) \div MaxBips <= w
  <2> DEFINE q == (w * MaxFeeBips) \div MaxBips
  <2>1. q \in Nat /\ MaxBips * q <= w * MaxFeeBips
    BY <1>2, <1>5, DivBounds
  <2> HIDE DEF q
  <2>2. q <= w
    <3> SUFFICES ASSUME q >= w + 1 PROVE FALSE
      BY <1>1, <2>1
    <3>1. MaxBips * q >= MaxBips * (w + 1) /\ MaxBips * (w + 1) = w * MaxBips + MaxBips
      BY <1>1, <1>2, <2>1
    <3> QED BY <1>2, <1>5, <2>1, <3>1
  <2> QED BY <2>2 DEF q
<1> QED BY <1>1, <1>3, <1>4, <1>6, <1>7 DEF w

\* What a batch takes from the tranche is what its stakers get and the fees.
LEMMA BatchSums ==
  ASSUME TypeOK, NEW k \in Keys, NEW P \in SUBSET Stakers
  PROVE  LET nets == SumFunction([s \in P |-> Net(k, s)])
             fees == SumFunction([s \in P |-> FeeOf(k, s)])
             parts == SumFunction([s \in P |-> Owed(k, s)])
             held == SumFunction([s \in P |-> shares[k[1]][s]])
         IN  /\ nets \in Nat /\ fees \in Nat /\ parts = nets + fees
             /\ held \in Nat /\ \A s \in P : shares[k[1]][s] <= held
<1> DEFINE net == [s \in P |-> Net(k, s)]
           fee == [s \in P |-> FeeOf(k, s)]
           part == [s \in P |-> Owed(k, s)]
           share == [s \in P |-> shares[k[1]][s]]
<1>1. IsFiniteSet(P)
  BY StakersAssumption, FS_Subset
<1>2. \A s \in P : net[s] \in Nat /\ fee[s] \in Nat /\ part[s] = net[s] + fee[s]
  BY NetBounds
<1>3. \A s \in P : share[s] \in Nat
  BY KeysFinite, TotalShares
<1>4. /\ SumFunction(net) = SumFunctionOnSet(net, P)
      /\ SumFunction(fee) = SumFunctionOnSet(fee, P)
      /\ SumFunction(part) = SumFunctionOnSet(part, P)
      /\ SumFunction(share) = SumFunctionOnSet(share, P)
  BY DEF SumFunction
<1>5. \A s \in P : share[s] = shares[k[1]][s]
  OBVIOUS
<1> SUFFICES /\ SumFunction(net) \in Nat /\ SumFunction(fee) \in Nat
             /\ SumFunction(part) = SumFunction(net) + SumFunction(fee)
             /\ SumFunction(share) \in Nat
             /\ \A s \in P : shares[k[1]][s] <= SumFunction(share)
  OBVIOUS
<1> HIDE DEF net, fee, part, share
<1>6. SumFunctionOnSet(net, P) \in Nat /\ SumFunctionOnSet(fee, P) \in Nat
  BY <1>1, <1>2, SumNat
<1>7. SumFunctionOnSet(part, P) = SumFunctionOnSet(net, P) + SumFunctionOnSet(fee, P)
  BY <1>1, <1>2, SumPlus
<1>8. /\ SumFunctionOnSet(share, P) \in Nat
      /\ \A s \in P : share[s] <= SumFunctionOnSet(share, P)
  BY <1>1, <1>3, SumNat
<1> QED BY <1>4, <1>5, <1>6, <1>7, <1>8
-----------------------------------------------------------------------------
\* The one step that proposes a fee proposes one: no fee is NoFee.
LEMMA FeesAreFees == \A f \in Fees : f # NoFee
BY StakersAssumption, AmountsAssumption

\* Every step of the signer is a step of the timelock of its fee, or leaves the
\* fee alone: nothing but the four admin calls touches it.
LEMMA FeeSteps ==
  ASSUME Next
  PROVE  FeeLock!Next \/ UNCHANGED FeeLock!setting
<1> USE DEF FeeLock!setting, feeVars
<1>1. CASE NextBlock
  BY <1>1 DEF NextBlock
<1>2. CASE Staking
  BY <1>2 DEF Staking, Stake, Unstake, SetFutureShares
<1>3. CASE Rewarding
  BY <1>3 DEF Rewarding, PoxClaimRewards, PayStxStakers, SweepTrancheDust
<1>4. CASE Administering
  <2>1. ASSUME NEW x, NEW u, SetAdmin(x, u)
        PROVE  UNCHANGED FeeLock!setting
    BY <2>1 DEF SetAdmin
  <2>2. ASSUME NEW p, NEW u, SetPaused(p, u)
        PROVE  UNCHANGED FeeLock!setting
    BY <2>2 DEF SetPaused
  <2>3. ASSUME NEW s, NEW og, NEW u, SetOg(s, og, u)
        PROVE  UNCHANGED FeeLock!setting
    BY <2>3 DEF SetOg
  <2>4. ASSUME NEW f \in Fees, NEW u, ProposeFeeBips(f, u)
        PROVE  FeeLock!Propose
    BY <2>4, FeesAreFees DEF ProposeFeeBips, FeeLock!Propose
  <2>5. ASSUME NEW u, ConfirmFeeBips(u)
        PROVE  FeeLock!Adopt
    BY <2>5 DEF ConfirmFeeBips, FeeLock!Adopt
  <2>6. ASSUME NEW u, CancelFeeBips(u)
        PROVE  FeeLock!Cancel
    BY <2>6 DEF CancelFeeBips, FeeLock!Cancel
  <2>7. ASSUME NEW n, NEW u, WithdrawFees(n, u)
        PROVE  UNCHANGED FeeLock!setting
    BY <2>7 DEF WithdrawFees
  <2>8. QED
    BY <1>4, <2>1, <2>2, <2>3, <2>4, <2>5, <2>6, <2>7
    DEF Administering, WithdrawAllFees, FeeLock!Next
<1>5. QED
  BY <1>1, <1>2, <1>3, <1>4 DEF Next

\* The fee stakers pay changes only to one the admin proposed a cooldown
\* earlier, whoever is admin by then and whatever is claimed, paid or swept
\* meanwhile (propose-fee-bips, confirm-fee-bips, cancel-fee-bips).
THEOREM FeeWaits == Spec => FeeIsTimelocked
<1>1. Init => FeeLock!Init
  BY DEF Init, FeeLock!Init
<1>2. [Next]_vars => [FeeLock!Next]_(FeeLock!setting)
  <2>1. UNCHANGED vars => UNCHANGED FeeLock!setting
    BY DEF vars, feeVars, FeeLock!setting
  <2>2. QED
    BY <2>1, FeeSteps
<1>3. QED
  BY <1>1, <1>2, PTL DEF Spec, FeeIsTimelocked, FeeLock!Spec
-----------------------------------------------------------------------------
(* Types.                                                                   *)

LEMMA SharesType ==
  ASSUME TypeOK, NEW s \in Stakers, NEW n \in Nat, SetFutureShares(s, n)
  PROVE  TypeOK'
<1>1. shares' \in [Cycles -> [Stakers -> Nat]]
  BY DEF SetFutureShares, TypeOK
<1> QED BY <1>1 DEF SetFutureShares, TypeOK, adminVars, feeVars, claimVars, paidVars

LEMMA ClaimType ==
  ASSUME TypeOK, NEW c \in Cycles, NEW n \in Rewards, PoxClaimRewards(c, n)
  PROVE  TypeOK'
<1>1. n \in Nat
  BY AmountsAssumption
<1>2. /\ stxPot' \in [Keys -> Nat] /\ trancheCount' \in [Cycles -> Nat]
      /\ lastClaim' \in [Cycles -> Nat] /\ balance' \in Nat
  BY <1>1 DEF PoxClaimRewards, TypeOK
<1> QED BY <1>2 DEF PoxClaimRewards, TypeOK, poxVars, adminVars, feeVars, paidVars

\* What a batch does, with its four sums named: they are naturals.
PayEffect(k, P, nets, fees, parts, held) ==
  /\ P = {s \in P : stxPaid[k][s] = Unpaid /\ shares[k[1]][s] # 0} /\ P \subseteq Stakers
  /\ nets \in Nat /\ fees \in Nat /\ parts \in Nat /\ held \in Nat
  /\ parts = nets + fees /\ \A s \in P : held > 0
  /\ parts = SumFunction([s \in P |-> Owed(k, s)])
  /\ held = SumFunction([s \in P |-> shares[k[1]][s]])
  /\ nets <= balance /\ balance' = balance - nets /\ earnedFees' = earnedFees + fees
  /\ stxPaid' = [stxPaid EXCEPT ![k] =
       [s \in Stakers |-> IF s \in P THEN Net(k, s) ELSE stxPaid[k][s]]]
  /\ tranchePaid' = [tranchePaid EXCEPT ![k] = @ + parts]
  /\ tranchePaidShares' = [tranchePaidShares EXCEPT ![k] = @ + held]
  /\ premature' = premature \cup {<<k, s>> : s \in {p \in P : stxPot[k] = 0}}
  /\ UNCHANGED <<burnHeight, poxVars, adminVars, feeVars, claimVars>>

LEMMA PayHasEffect ==
  ASSUME TypeOK, NEW k \in Keys, NEW listed \in SUBSET Stakers, PayStxStakers(k, listed)
  PROVE  \E P, nets, fees, parts, held : PayEffect(k, P, nets, fees, parts, held)
<1> DEFINE P == Payees(k, listed)
           nets == SumFunction([s \in P |-> Net(k, s)])
           fees == SumFunction([s \in P |-> FeeOf(k, s)])
           parts == SumFunction([s \in P |-> Owed(k, s)])
           held == SumFunction([s \in P |-> shares[k[1]][s]])
<1>1. /\ P \subseteq Stakers /\ P = {s \in P : stxPaid[k][s] = Unpaid /\ shares[k[1]][s] # 0}
  BY DEF Payees
<1>2. /\ nets \in Nat /\ fees \in Nat /\ parts \in Nat /\ held \in Nat
      /\ parts = nets + fees /\ \A s \in P : shares[k[1]][s] <= held
  <2> HIDE DEF P
  <2>1. /\ nets \in Nat /\ fees \in Nat /\ parts = nets + fees /\ held \in Nat
        /\ \A s \in P : shares[k[1]][s] <= held
    BY <1>1, BatchSums
  <2> HIDE DEF nets, fees, parts, held
  <2> QED BY <2>1
<1>3. /\ nets <= balance /\ balance' = balance - nets /\ earnedFees' = earnedFees + fees
      /\ stxPaid' = [stxPaid EXCEPT ![k] =
           [s \in Stakers |-> IF s \in P THEN Net(k, s) ELSE stxPaid[k][s]]]
      /\ tranchePaid' = [tranchePaid EXCEPT ![k] = @ + parts]
      /\ tranchePaidShares' = [tranchePaidShares EXCEPT ![k] = @ + held]
      /\ premature' = premature \cup {<<k, s>> : s \in {p \in P : stxPot[k] = 0}}
      /\ UNCHANGED <<burnHeight, poxVars, adminVars, feeVars, claimVars>>
  BY DEF PayStxStakers, TypeOK
<1>4. \A s \in P : held > 0
  <2>1. \A s \in P : shares[k[1]][s] \in Nat /\ shares[k[1]][s] # 0
    BY <1>1, KeysFinite, TotalShares
  <2> HIDE DEF P, held
  <2> QED BY <1>2, <2>1
<1>5. /\ parts = SumFunction([s \in P |-> Owed(k, s)])
      /\ held = SumFunction([s \in P |-> shares[k[1]][s]])
  OBVIOUS
<1> HIDE DEF P, nets, fees, parts, held
<1>6. PayEffect(k, P, nets, fees, parts, held)
  BY <1>1, <1>2, <1>3, <1>4, <1>5 DEF PayEffect
<1> QED BY <1>6

LEMMA PayType ==
  ASSUME TypeOK, NEW k \in Keys, NEW P, NEW nets, NEW fees, NEW parts, NEW held,
         PayEffect(k, P, nets, fees, parts, held)
  PROVE  TypeOK'
<1>1. balance' \in Nat /\ earnedFees' \in Nat
  BY DEF PayEffect, TypeOK
<1>2. tranchePaid' \in [Keys -> Nat] /\ tranchePaidShares' \in [Keys -> Nat]
  BY DEF PayEffect, TypeOK
<1>3. stxPaid' \in [Keys -> [Stakers -> Nat \cup {Unpaid}]]
  BY NetBounds DEF PayEffect, TypeOK
<1>4. premature' \subseteq Keys \X Stakers
  BY DEF PayEffect, TypeOK
<1>5. UNCHANGED <<burnHeight, poxVars, adminVars, feeVars, claimVars>>
  BY DEF PayEffect
<1> QED BY <1>1, <1>2, <1>3, <1>4, <1>5 DEF TypeOK, poxVars, adminVars, feeVars, claimVars

LEMMA SweepType ==
  ASSUME TypeOK, NEW k \in Keys, NEW u, SweepTrancheDust(k, u)
  PROVE  TypeOK'
<1>1. stxPot[k] \in Nat /\ tranchePaid[k] \in Nat /\ balance \in Nat
  BY DEF TypeOK
<1>2. TrancheResidue(k) \in Nat /\ TrancheResidue(k) <= balance
  BY <1>1 DEF SweepTrancheDust, TrancheResidue
<1>3. balance' \in Nat /\ tranchePaid' \in [Keys -> Nat]
  BY <1>1, <1>2 DEF SweepTrancheDust, TypeOK
<1> QED BY <1>3 DEF SweepTrancheDust, TypeOK, poxVars, adminVars, feeVars, claimVars

LEMMA AdministeringType ==
  ASSUME TypeOK, Administering
  PROVE  TypeOK'
<1> USE DEF poxVars, adminVars, feeVars, claimVars, paidVars
<1>1. ASSUME NEW x \in Users, NEW u, SetAdmin(x, u)
      PROVE  TypeOK'
  BY <1>1 DEF SetAdmin, TypeOK
<1>2. ASSUME NEW b \in BOOLEAN, NEW u, SetPaused(b, u)
      PROVE  TypeOK'
  BY <1>2 DEF SetPaused, TypeOK
<1>3. ASSUME NEW s \in Stakers, NEW b, NEW u, SetOg(s, b, u)
      PROVE  TypeOK'
  BY <1>3 DEF SetOg, TypeOK
<1>4. ASSUME NEW f \in Fees, NEW u, ProposeFeeBips(f, u)
      PROVE  TypeOK'
  <2>1. pendingFee' \in 0 .. MaxFeeBips
    BY <1>4, AmountsAssumption DEF ProposeFeeBips
  <2> QED BY <1>4, <2>1 DEF ProposeFeeBips, TypeOK
<1>5. ASSUME NEW u, ConfirmFeeBips(u) \/ CancelFeeBips(u)
      PROVE  TypeOK'
  BY <1>5 DEF ConfirmFeeBips, CancelFeeBips, TypeOK
<1>6. ASSUME NEW n, NEW u, WithdrawFees(n, u)
      PROVE  TypeOK'
  <2>1. balance' \in Nat /\ earnedFees' \in Nat
    BY <1>6 DEF WithdrawFees, TypeOK
  <2> QED BY <1>6, <2>1 DEF WithdrawFees, TypeOK
<1> QED BY <1>1, <1>2, <1>3, <1>4, <1>5, <1>6 DEF Administering, WithdrawAllFees

\* Every variable keeps its shape: neither the signer's sBTC nor the fees nor
\* anybody's part go below zero, and the fee stays under its cap.
THEOREM SignerTypeCorrect == Spec => []TypeOK
<1>1. Init => TypeOK
  <2> SUFFICES ASSUME Init PROVE TypeOK
    OBVIOUS
  <2>1. /\ burnHeight \in Nat /\ distributionCycle \in Nat /\ rewardCycle \in Nat
        /\ balance \in Nat /\ earnedFees \in Nat /\ pendingFeeHeight \in Nat
        /\ paused \in BOOLEAN /\ ogStakers \subseteq Stakers /\ premature \subseteq Keys \X Stakers
    BY DEF Init
  <2>2. admin \in Users /\ feeBips \in 0 .. MaxFeeBips /\ pendingFee \in 0 .. MaxFeeBips \cup {NoFee}
    BY StakersAssumption, AmountsAssumption DEF Init
  <2>3. /\ shares \in [Cycles -> [Stakers -> Nat]]
        /\ trancheCount \in [Cycles -> Nat] /\ lastClaim \in [Cycles -> Nat]
        /\ stxPot \in [Keys -> Nat]
        /\ tranchePaid \in [Keys -> Nat] /\ tranchePaidShares \in [Keys -> Nat]
        /\ stxPaid \in [Keys -> [Stakers -> Nat \cup {Unpaid}]]
    BY DEF Init
  <2> QED BY <2>1, <2>2, <2>3 DEF TypeOK
<1>2. TypeOK /\ [Next]_vars => TypeOK'
  <2> SUFFICES ASSUME TypeOK, [Next]_vars PROVE TypeOK'
    OBVIOUS
  <2>1. CASE NextBlock
    <3>1. burnHeight' \in Nat /\ distributionCycle' \in Nat /\ rewardCycle' \in Nat
      BY <2>1 DEF NextBlock, TypeOK
    <3> QED BY <2>1, <3>1 DEF NextBlock, TypeOK, adminVars, feeVars, claimVars, paidVars
  <2>2. CASE Staking
    <3>1. ShareAmounts \subseteq Nat /\ 0 \in Nat
      BY AmountsAssumption
    <3> QED BY <2>2, <3>1, SharesType DEF Staking, Stake, Unstake
  <2>3. CASE Rewarding
    BY <2>3, ClaimType, PayHasEffect, PayType, SweepType DEF Rewarding
  <2>4. CASE Administering
    BY <2>4, AdministeringType
  <2>5. CASE UNCHANGED vars
    BY <2>5 DEF vars, poxVars, adminVars, feeVars, claimVars, paidVars, TypeOK
  <2> QED BY <2>1, <2>2, <2>3, <2>4, <2>5 DEF Next
<1> QED BY <1>1, <1>2, PTL DEF Spec
-----------------------------------------------------------------------------
(* What a step may do to the books.  Everything but a claim, a payment, a   *)
(* sweep and a withdrawal of fees leaves them alone; shares change only for *)
(* the cycles that have not begun.                                          *)

books == <<balance, earnedFees, claimVars, paidVars>>
SharesSettled ==
  /\ rewardCycle' \in Nat /\ rewardCycle <= rewardCycle'
  /\ \A c \in Cycles : c <= rewardCycle => shares'[c] = shares[c]

LEMMA Steps ==
  ASSUME TypeOK, [Next]_vars
  PROVE  \/ UNCHANGED books /\ SharesSettled
         \/ \E c \in Cycles, n \in Rewards : PoxClaimRewards(c, n)
         \/ \E k \in Keys : \E P, nets, fees, parts, held : PayEffect(k, P, nets, fees, parts, held)
         \/ \E k \in Keys, u \in Users : SweepTrancheDust(k, u)
         \/ \E n, u : WithdrawFees(n, u)
<1> USE DEF books, claimVars, paidVars, poxVars
<1>0. rewardCycle \in Nat /\ shares \in [Cycles -> [Stakers -> Nat]] /\ Cycles \subseteq Nat
  BY CyclesAssumption DEF TypeOK
<1>1. CASE NextBlock
  <2>1. UNCHANGED books /\ shares' = shares /\ rewardCycle' \in Nat /\ rewardCycle <= rewardCycle'
    BY <1>0, <1>1 DEF NextBlock
  <2> QED BY <2>1 DEF SharesSettled
<1>2. CASE Staking
  <2>1. ASSUME NEW s, NEW n, SetFutureShares(s, n) PROVE UNCHANGED books /\ SharesSettled
    <3>1. UNCHANGED books
      BY <2>1 DEF SetFutureShares
    <3>2. rewardCycle' = rewardCycle
      BY <2>1 DEF SetFutureShares
    <3>3. \A c \in Cycles : c <= rewardCycle => shares'[c] = shares[c]
      BY <1>0, <2>1 DEF SetFutureShares
    <3> QED BY <1>0, <3>1, <3>2, <3>3 DEF SharesSettled
  <2> QED BY <1>2, <2>1 DEF Staking, Stake, Unstake
<1>3. CASE Rewarding
  BY <1>3, PayHasEffect DEF Rewarding
<1>4. CASE Administering
  <2>1. ASSUME NEW u, NEW x, NEW y, \/ SetAdmin(x, u) \/ SetPaused(x, u) \/ SetOg(x, y, u)
                                    \/ ProposeFeeBips(x, u) \/ ConfirmFeeBips(u)
                                    \/ CancelFeeBips(u)
        PROVE  UNCHANGED books /\ SharesSettled
    <3>1. UNCHANGED books /\ UNCHANGED <<rewardCycle, shares>>
      BY <2>1 DEF SetAdmin, SetPaused, SetOg, ProposeFeeBips, ConfirmFeeBips, CancelFeeBips
    <3> QED BY <1>0, <3>1 DEF SharesSettled
  <2> QED BY <1>4, <2>1 DEF Administering, WithdrawAllFees
<1>5. CASE UNCHANGED vars
  BY <1>0, <1>5 DEF vars, SharesSettled
<1> QED BY <1>1, <1>2, <1>3, <1>4, <1>5 DEF Next
-----------------------------------------------------------------------------
(* No sat is created or lost.                                               *)

\* A cycle's tranches are claimed in order: the next one has no pot yet.
TranchesInOrder == \A k \in Keys : k[2] >= trancheCount[k[1]] => stxPot[k] = 0

LEMMA TranchesStayInOrder ==
  ASSUME TypeOK, TranchesInOrder, [Next]_vars
  PROVE  TranchesInOrder'
<1>1. CASE UNCHANGED claimVars
  BY <1>1 DEF TranchesInOrder, claimVars
<1>2. ASSUME NEW c \in Cycles, NEW n, PoxClaimRewards(c, n) PROVE TranchesInOrder'
  <2> DEFINE j == <<c, trancheCount[c]>>
  <2>1. /\ j \in Keys /\ stxPot' = [stxPot EXCEPT ![j] = n]
        /\ trancheCount' = [trancheCount EXCEPT ![c] = @ + 1]
    BY <1>2 DEF PoxClaimRewards
  <2>2. \A k \in Keys : k[1] \in Cycles /\ k[2] \in Nat /\ k = <<k[1], k[2]>>
    <3>1. \A k \in Cycles \X Tranches : k[1] \in Cycles /\ k[2] \in Tranches /\ k = <<k[1], k[2]>>
      OBVIOUS
    <3> QED BY <3>1, CyclesAssumption DEF Keys
  <2>3. ASSUME NEW k \in Keys, k[2] >= trancheCount'[k[1]] PROVE stxPot'[k] = 0
    <3>1. trancheCount[k[1]] \in Nat /\ trancheCount[c] \in Nat
      BY <2>2 DEF TypeOK
    <3>2. CASE k[1] = c
      <4>1. k[2] >= trancheCount[c] + 1
        BY <2>1, <2>3, <3>2 DEF TypeOK
      <4>2. k # j /\ stxPot[k] = 0
        BY <2>2, <3>1, <3>2, <4>1 DEF TranchesInOrder
      <4> QED BY <2>1, <4>2 DEF TypeOK
    <3>3. CASE k[1] # c
      <4>1. k # j /\ stxPot[k] = 0
        BY <2>1, <2>2, <2>3, <3>3 DEF TranchesInOrder, TypeOK
      <4> QED BY <2>1, <4>1 DEF TypeOK
    <3> QED BY <3>2, <3>3
  <2> QED BY <2>3 DEF TranchesInOrder
<1>3. ASSUME NEW k, NEW P, NEW nets, NEW fees, NEW parts, NEW held,
             PayEffect(k, P, nets, fees, parts, held)
      PROVE  UNCHANGED claimVars
  BY <1>3 DEF PayEffect
<1>4. ASSUME NEW k, NEW u, SweepTrancheDust(k, u) PROVE UNCHANGED claimVars
  BY <1>4 DEF SweepTrancheDust
<1>5. ASSUME NEW n, NEW u, WithdrawFees(n, u) PROVE UNCHANGED claimVars
  BY <1>5 DEF WithdrawFees
<1>6. CASE UNCHANGED books
  BY <1>1, <1>6 DEF books
<1> QED BY <1>1, <1>2, <1>3, <1>4, <1>5, <1>6, Steps

Residues(pots, paid) == SumFunction([k \in Keys |-> pots[k] - paid[k]])

\* A change of one tranche changes what the tranches owe by as much.
LEMMA ResidueChange ==
  ASSUME NEW pots \in [Keys -> Nat], NEW paid \in [Keys -> Nat],
         NEW newPots \in [Keys -> Nat], NEW newPaid \in [Keys -> Nat], NEW k \in Keys,
         \A j \in Keys \ {k} : newPots[j] = pots[j] /\ newPaid[j] = paid[j]
  PROVE  /\ Residues(pots, paid) \in Int
         /\ Residues(newPots, newPaid) =
              Residues(pots, paid) + (newPots[k] - newPaid[k]) - (pots[k] - paid[k])
<1> DEFINE f == [j \in Keys |-> pots[j] - paid[j]]
           g == [j \in Keys |-> newPots[j] - newPaid[j]]
<1>1. \A j \in Keys : f[j] \in Int
  OBVIOUS
<1>2. /\ f[k] = pots[k] - paid[k] /\ g[k] = newPots[k] - newPaid[k]
      /\ f[k] \in Int /\ g[k] \in Int /\ \A j \in Keys \ {k} : g[j] = f[j]
  OBVIOUS
<1>3. /\ Residues(pots, paid) = SumFunctionOnSet(f, Keys)
      /\ Residues(newPots, newPaid) = SumFunctionOnSet(g, Keys)
  BY DEF Residues, SumFunction
<1> HIDE DEF f, g
<1>4. SumFunctionOnSet(f, Keys) \in Int
  BY <1>1, KeysFinite, SumInt
<1>5. SumFunctionOnSet(g, Keys) = SumFunctionOnSet(f, Keys) + g[k] - f[k]
  BY <1>1, <1>2, KeysFinite, SumUpdate
<1> QED BY <1>2, <1>3, <1>4, <1>5

LEMMA Accounted ==
  /\ EverySatAccounted <=> balance = Residues(stxPot, tranchePaid) + earnedFees
  /\ EverySatAccounted' <=> balance' = Residues(stxPot', tranchePaid') + earnedFees'
BY DEF EverySatAccounted, TrancheResidue, Residues

LEMMA AccountedPerStep ==
  ASSUME TypeOK, TypeOK', TranchesInOrder, EverySatAccounted, [Next]_vars
  PROVE  EverySatAccounted'
<1>0. /\ stxPot \in [Keys -> Nat] /\ tranchePaid \in [Keys -> Nat]
      /\ stxPot' \in [Keys -> Nat] /\ tranchePaid' \in [Keys -> Nat]
      /\ balance \in Nat /\ earnedFees \in Nat
      /\ balance = Residues(stxPot, tranchePaid) + earnedFees
  BY Accounted DEF TypeOK
<1> SUFFICES balance' = Residues(stxPot', tranchePaid') + earnedFees'
  BY Accounted
<1>1. CASE UNCHANGED books
  BY <1>0, <1>1 DEF books, claimVars, paidVars
<1>2. ASSUME NEW c \in Cycles, NEW n \in Rewards, PoxClaimRewards(c, n)
      PROVE  balance' = Residues(stxPot', tranchePaid') + earnedFees'
  <2> DEFINE k == <<c, trancheCount[c]>>
  <2>1. /\ k \in Keys /\ stxPot' = [stxPot EXCEPT ![k] = n] /\ tranchePaid' = tranchePaid
        /\ balance' = balance + n /\ earnedFees' = earnedFees /\ n \in Nat
    BY <1>2, AmountsAssumption DEF PoxClaimRewards, paidVars
  <2>2. stxPot[k] = 0
    <3>1. trancheCount[c] \in Nat /\ k[1] = c /\ k[2] = trancheCount[c]
      BY DEF TypeOK
    <3> QED BY <2>1, <3>1 DEF TranchesInOrder
  <2> HIDE DEF k
  <2>3. /\ Residues(stxPot, tranchePaid) \in Int
        /\ Residues(stxPot', tranchePaid') = Residues(stxPot, tranchePaid)
             + (stxPot'[k] - tranchePaid'[k]) - (stxPot[k] - tranchePaid[k])
    <3>1. \A j \in Keys \ {k} : stxPot'[j] = stxPot[j] /\ tranchePaid'[j] = tranchePaid[j]
      BY <1>0, <2>1
    <3>2. /\ stxPot \in [Keys -> Nat] /\ tranchePaid \in [Keys -> Nat]
          /\ stxPot' \in [Keys -> Nat] /\ tranchePaid' \in [Keys -> Nat] /\ k \in Keys
      BY <1>0, <2>1
    <3> QED BY ONLY <3>1, <3>2, ResidueChange
  <2>4. stxPot'[k] = n /\ tranchePaid'[k] = tranchePaid[k] /\ tranchePaid[k] \in Nat
    BY <1>0, <2>1
  <2> QED BY <1>0, <2>1, <2>2, <2>3, <2>4
<1>3. ASSUME NEW k \in Keys, NEW P, NEW nets, NEW fees, NEW parts, NEW held,
             PayEffect(k, P, nets, fees, parts, held)
      PROVE  balance' = Residues(stxPot', tranchePaid') + earnedFees'
  <2>1. /\ stxPot' = stxPot /\ tranchePaid' = [tranchePaid EXCEPT ![k] = @ + parts]
        /\ balance' = balance - nets /\ earnedFees' = earnedFees + fees
        /\ nets \in Nat /\ fees \in Nat /\ parts = nets + fees
    BY <1>3 DEF PayEffect, claimVars
  <2>2. /\ Residues(stxPot, tranchePaid) \in Int
        /\ Residues(stxPot', tranchePaid') = Residues(stxPot, tranchePaid)
             + (stxPot'[k] - tranchePaid'[k]) - (stxPot[k] - tranchePaid[k])
    <3>1. \A j \in Keys \ {k} : stxPot'[j] = stxPot[j] /\ tranchePaid'[j] = tranchePaid[j]
      BY <1>0, <2>1
    <3>2. /\ stxPot \in [Keys -> Nat] /\ tranchePaid \in [Keys -> Nat]
          /\ stxPot' \in [Keys -> Nat] /\ tranchePaid' \in [Keys -> Nat] /\ k \in Keys
      BY <1>0, <2>1
    <3> QED BY ONLY <3>1, <3>2, ResidueChange
  <2>3. /\ tranchePaid'[k] = tranchePaid[k] + parts /\ stxPot'[k] = stxPot[k]
        /\ tranchePaid[k] \in Nat /\ stxPot[k] \in Nat
    BY <1>0, <2>1
  <2> QED BY <1>0, <2>1, <2>2, <2>3
<1>4. ASSUME NEW k \in Keys, NEW u, SweepTrancheDust(k, u)
      PROVE  balance' = Residues(stxPot', tranchePaid') + earnedFees'
  <2>1. /\ stxPot' = stxPot /\ earnedFees' = earnedFees
        /\ tranchePaid' = [tranchePaid EXCEPT ![k] = @ + (stxPot[k] - tranchePaid[k])]
        /\ balance' = balance - (stxPot[k] - tranchePaid[k])
    BY <1>4 DEF SweepTrancheDust, TrancheResidue, claimVars
  <2>2. /\ Residues(stxPot, tranchePaid) \in Int
        /\ Residues(stxPot', tranchePaid') = Residues(stxPot, tranchePaid)
             + (stxPot'[k] - tranchePaid'[k]) - (stxPot[k] - tranchePaid[k])
    <3>1. \A j \in Keys \ {k} : stxPot'[j] = stxPot[j] /\ tranchePaid'[j] = tranchePaid[j]
      BY <1>0, <2>1
    <3>2. /\ stxPot \in [Keys -> Nat] /\ tranchePaid \in [Keys -> Nat]
          /\ stxPot' \in [Keys -> Nat] /\ tranchePaid' \in [Keys -> Nat] /\ k \in Keys
      BY <1>0, <2>1
    <3> QED BY ONLY <3>1, <3>2, ResidueChange
  <2>3. /\ tranchePaid'[k] = stxPot[k] /\ stxPot'[k] = stxPot[k]
        /\ tranchePaid[k] \in Nat /\ stxPot[k] \in Nat
    BY <1>0, <2>1
  <2> QED BY <1>0, <2>1, <2>2, <2>3
<1>5. ASSUME NEW n, NEW u, WithdrawFees(n, u)
      PROVE  balance' = Residues(stxPot', tranchePaid') + earnedFees'
  <2>1. /\ n \in Nat /\ balance' = balance - n /\ earnedFees' = earnedFees - n
        /\ stxPot' = stxPot /\ tranchePaid' = tranchePaid
    BY <1>0, <1>5 DEF WithdrawFees, claimVars, paidVars
  <2>2. Residues(stxPot, tranchePaid) \in Int
    <3>1. \A j \in Keys : stxPot[j] - tranchePaid[j] \in Int
      BY <1>0
    <3> DEFINE f == [j \in Keys |-> stxPot[j] - tranchePaid[j]]
    <3>2. (\A j \in Keys : f[j] \in Int) /\ Residues(stxPot, tranchePaid) = SumFunctionOnSet(f, Keys)
      BY <3>1 DEF Residues, SumFunction
    <3> HIDE DEF f
    <3> QED BY <3>2, KeysFinite, SumInt
  <2> QED BY <1>0, <2>1, <2>2
<1> QED BY <1>1, <1>2, <1>3, <1>4, <1>5, Steps

\* The signer holds exactly what its tranches still owe and the fees not yet
\* withdrawn, for any stakers, batches, fees and sweeps (pox-claim-rewards,
\* pay-one, sweep-tranche-dust, withdraw-fees).
THEOREM NoSatCreatedOrLost == Spec => []EverySatAccounted
<1>1. Init => TranchesInOrder /\ EverySatAccounted
  <2> SUFFICES ASSUME Init PROVE TranchesInOrder /\ EverySatAccounted
    OBVIOUS
  <2>1. TranchesInOrder
    BY DEF Init, TranchesInOrder
  <2>2. Residues(stxPot, tranchePaid) = 0
    <3> DEFINE f == [j \in Keys |-> stxPot[j] - tranchePaid[j]]
    <3>1. (\A j \in Keys : f[j] = 0) /\ Residues(stxPot, tranchePaid) = SumFunctionOnSet(f, Keys)
      BY DEF Init, Residues, SumFunction
    <3> HIDE DEF f
    <3> QED BY <3>1, KeysFinite, SumOfZeros
  <2>3. balance = 0 /\ earnedFees = 0
    BY DEF Init
  <2> QED BY <2>1, <2>2, <2>3, Accounted
<1>2. TypeOK /\ TypeOK' /\ TranchesInOrder /\ EverySatAccounted /\ [Next]_vars
        => TranchesInOrder' /\ EverySatAccounted'
  BY TranchesStayInOrder, AccountedPerStep
<1> QED BY <1>1, <1>2, SignerTypeCorrect, PTL DEF Spec
-----------------------------------------------------------------------------
(* Sums over the stakers that a tranche has recorded.                       *)

RecordedSum(paid, amounts) ==
  SumFunction([s \in Stakers |-> IF paid[s] # Unpaid THEN amounts[s] ELSE 0])

LEMMA RecordedNone ==
  ASSUME NEW paid, NEW amounts, \A s \in Stakers : paid[s] = Unpaid
  PROVE  RecordedSum(paid, amounts) = 0
<1> DEFINE f == [s \in Stakers |-> IF paid[s] # Unpaid THEN amounts[s] ELSE 0]
<1>1. (\A s \in Stakers : f[s] = 0) /\ RecordedSum(paid, amounts) = SumFunctionOnSet(f, Stakers)
  BY DEF RecordedSum, SumFunction
<1> HIDE DEF f
<1> QED BY <1>1, StakersAssumption, SumOfZeros

\* A batch of stakers not recorded before adds their amounts.
LEMMA RecordedMore ==
  ASSUME NEW paid, NEW newPaid, NEW amounts \in [Stakers -> Nat], NEW P \in SUBSET Stakers,
         \A s \in P : paid[s] = Unpaid /\ newPaid[s] # Unpaid,
         \A s \in Stakers \ P : newPaid[s] = paid[s]
  PROVE  RecordedSum(newPaid, amounts) =
           RecordedSum(paid, amounts) + SumFunctionOnSet(amounts, P)
<1> DEFINE f == [s \in Stakers |-> IF paid[s] # Unpaid THEN amounts[s] ELSE 0]
           g == [s \in Stakers |-> IF newPaid[s] # Unpaid THEN amounts[s] ELSE 0]
           h == [s \in Stakers |-> IF s \in P THEN amounts[s] ELSE 0]
<1>1. /\ \A s \in Stakers : f[s] \in Nat /\ h[s] \in Nat /\ g[s] = f[s] + h[s]
      /\ \A s \in P : h[s] = amounts[s] /\ amounts[s] \in Int
      /\ \A s \in Stakers \ P : h[s] = 0
  OBVIOUS
<1>2. /\ RecordedSum(paid, amounts) = SumFunctionOnSet(f, Stakers)
      /\ RecordedSum(newPaid, amounts) = SumFunctionOnSet(g, Stakers)
  BY DEF RecordedSum, SumFunction
<1> HIDE DEF f, g, h
<1>3. SumFunctionOnSet(f, Stakers) \in Nat
  BY <1>1, StakersAssumption, SumNat
<1>4. SumFunctionOnSet(g, Stakers) = SumFunctionOnSet(f, Stakers) + SumFunctionOnSet(h, Stakers)
  BY <1>1, StakersAssumption, SumPlus
<1>5. SumFunctionOnSet(h, Stakers) = SumFunctionOnSet(amounts, P)
  BY <1>1, StakersAssumption, SumMasked
<1> QED BY <1>2, <1>3, <1>4, <1>5

\* The recorded amounts are part of all; they are all of them exactly when
\* whoever has any is recorded.
LEMMA RecordedAll ==
  ASSUME NEW paid, NEW amounts \in [Stakers -> Nat]
  PROVE  LET all == SumFunctionOnSet(amounts, Stakers)
             part == RecordedSum(paid, amounts)
         IN  /\ all \in Nat /\ part \in Nat /\ part <= all
             /\ part >= all <=> \A s \in Stakers : amounts[s] # 0 => paid[s] # Unpaid
             /\ part >= all => part = all
<1> DEFINE f == [s \in Stakers |-> IF paid[s] # Unpaid THEN amounts[s] ELSE 0]
           g == [s \in Stakers |-> IF paid[s] # Unpaid THEN 0 ELSE amounts[s]]
           all == SumFunctionOnSet(amounts, Stakers)
           part == RecordedSum(paid, amounts)
           rest == SumFunctionOnSet(g, Stakers)
<1>0. IsFiniteSet(Stakers)
  BY StakersAssumption
<1>1. /\ \A s \in Stakers : /\ f[s] \in Nat /\ g[s] \in Nat /\ amounts[s] \in Nat
                            /\ amounts[s] = f[s] + g[s]
                            /\ g[s] = 0 <=> (amounts[s] # 0 => paid[s] # Unpaid)
  OBVIOUS
<1>2. part = SumFunctionOnSet(f, Stakers)
  BY DEF RecordedSum, SumFunction
<1> HIDE DEF f, g
<1>3. SumFunctionOnSet(f, Stakers) \in Nat
  BY <1>0, <1>1, SumNat
<1>4. rest \in Nat /\ \A s \in Stakers : g[s] <= rest
  BY <1>0, <1>1, SumNat
<1>5. all = SumFunctionOnSet(f, Stakers) + rest
  BY <1>0, <1>1, SumPlus
<1>6. (\A s \in Stakers : g[s] = 0) => rest = 0
  BY <1>0, SumOfZeros
<1>7. rest = 0 => \A s \in Stakers : g[s] = 0
  BY <1>1, <1>4
<1> HIDE DEF all, part, rest
<1>8. /\ all \in Nat /\ part \in Nat /\ part <= all
      /\ part >= all <=> rest = 0
      /\ part >= all => part = all
  BY <1>2, <1>3, <1>4, <1>5
<1>9. part >= all <=> \A s \in Stakers : amounts[s] # 0 => paid[s] # Unpaid
  BY <1>1, <1>6, <1>7, <1>8
<1> QED BY <1>8, <1>9 DEF all, part

\* Rounding down every part keeps their sum under the pot ...
LEMMA PartsUnderPot ==
  ASSUME NEW paid, NEW pot \in Nat, NEW T \in Nat \ {0},
         NEW held \in [Stakers -> Nat], T = SumFunctionOnSet(held, Stakers),
         NEW parts \in [Stakers -> Nat], \A s \in Stakers : T * parts[s] <= pot * held[s]
  PROVE  RecordedSum(paid, parts) \in Nat /\ RecordedSum(paid, parts) <= pot
<1> DEFINE w == [s \in Stakers |-> IF paid[s] # Unpaid THEN parts[s] ELSE 0]
           tw == [s \in Stakers |-> T * w[s]]
           pn == [s \in Stakers |-> pot * held[s]]
<1>0. IsFiniteSet(Stakers)
  BY StakersAssumption
<1>1. \A s \in Stakers : w[s] \in Nat /\ held[s] \in Nat /\ (w[s] = parts[s] \/ w[s] = 0)
  OBVIOUS
<1>2. RecordedSum(paid, parts) = SumFunctionOnSet(w, Stakers)
  BY DEF RecordedSum, SumFunction
<1> HIDE DEF w
<1>3. \A s \in Stakers : tw[s] = T * w[s] /\ pn[s] = pot * held[s]
  OBVIOUS
<1> HIDE DEF tw, pn
<1>4. \A s \in Stakers : tw[s] \in Int /\ pn[s] \in Int /\ tw[s] <= pn[s]
  <2> TAKE s \in Stakers
  <2>1. T * 0 = 0 /\ pot * held[s] \in Nat /\ T * w[s] \in Nat
    BY <1>1
  <2> QED BY <1>1, <1>3, <2>1
<1>5. SumFunctionOnSet(tw, Stakers) = T * SumFunctionOnSet(w, Stakers)
  BY <1>0, <1>1, <1>3, SumScaled
<1>6. SumFunctionOnSet(pn, Stakers) = pot * SumFunctionOnSet(held, Stakers)
  BY <1>0, <1>1, <1>3, SumScaled
<1>7. SumFunctionOnSet(tw, Stakers) <= SumFunctionOnSet(pn, Stakers)
  BY <1>0, <1>4, SumMonotone
<1>8. SumFunctionOnSet(w, Stakers) \in Nat
  BY <1>0, <1>1, SumNat
<1> DEFINE W == SumFunctionOnSet(w, Stakers)
<1> HIDE DEF W
<1>9. W \in Nat /\ T * W <= pot * T
  BY <1>5, <1>6, <1>7, <1>8 DEF W
<1>10. W <= pot
  <2> SUFFICES ASSUME W >= pot + 1 PROVE FALSE
    BY <1>9
  <2>1. T * W >= T * (pot + 1) /\ T * (pot + 1) = pot * T + T
    BY <1>9
  <2> QED BY <1>9, <2>1
<1> QED BY <1>2, <1>8, <1>10 DEF W

\* ... and leaves less than one unit for each of them.
LEMMA DustBound ==
  ASSUME NEW pot \in Nat, NEW T \in Nat \ {0},
         NEW held \in [Stakers -> Nat], T = SumFunctionOnSet(held, Stakers),
         NEW parts \in [Stakers -> Nat],
         \A s \in Stakers : pot * held[s] <= T * parts[s] + (T - 1)
  PROVE  pot - SumFunctionOnSet(parts, Stakers) < Cardinality(Stakers)
<1> DEFINE one == [s \in Stakers |-> 1]
           tw == [s \in Stakers |-> T * parts[s]]
           pn == [s \in Stakers |-> pot * held[s]]
           ones == [s \in Stakers |-> (T - 1) * one[s]]
           sum == [s \in Stakers |-> tw[s] + ones[s]]
           N == Cardinality(Stakers)
           W == SumFunctionOnSet(parts, Stakers)
<1>0. IsFiniteSet(Stakers)
  BY StakersAssumption
<1>1. /\ \A s \in Stakers : held[s] \in Int /\ parts[s] \in Int /\ one[s] = 1
      /\ \A s \in Stakers : tw[s] = T * parts[s] /\ tw[s] \in Int
      /\ \A s \in Stakers : pn[s] = pot * held[s] /\ pn[s] \in Int
      /\ \A s \in Stakers : ones[s] = (T - 1) * one[s] /\ ones[s] \in Int
      /\ \A s \in Stakers : sum[s] = tw[s] + ones[s] /\ sum[s] \in Int
  OBVIOUS
<1> HIDE DEF one, tw, pn, ones, sum
<1>2. \A s \in Stakers : pn[s] <= sum[s]
  <2> TAKE s \in Stakers
  <2>1. (T - 1) * 1 = T - 1
    OBVIOUS
  <2> QED BY <1>1, <2>1
<1>3. SumFunctionOnSet(tw, Stakers) = T * W
  BY <1>0, <1>1, SumScaled
<1>4. SumFunctionOnSet(pn, Stakers) = pot * T
  BY <1>0, <1>1, SumScaled
<1>5. SumFunctionOnSet(ones, Stakers) = (T - 1) * N
  <2>1. SumFunctionOnSet(one, Stakers) = N
    BY <1>0, <1>1, SumOfOnes
  <2> DEFINE d == T - 1
  <2>2. d \in Int /\ \A s \in Stakers : one[s] \in Int /\ ones[s] = d * one[s]
    BY <1>1
  <2> HIDE DEF d
  <2>3. SumFunctionOnSet(ones, Stakers) = d * SumFunctionOnSet(one, Stakers)
    BY <1>0, <2>2, SumScaled
  <2> QED BY <2>1, <2>3 DEF d
<1>6. SumFunctionOnSet(sum, Stakers) =
        SumFunctionOnSet(tw, Stakers) + SumFunctionOnSet(ones, Stakers)
  BY <1>0, <1>1, SumPlus
<1>7. SumFunctionOnSet(pn, Stakers) <= SumFunctionOnSet(sum, Stakers)
  BY <1>0, <1>1, <1>2, SumMonotone
<1>8. W \in Nat /\ N \in Nat
  <2>1. \A s \in Stakers : parts[s] \in Nat
    OBVIOUS
  <2> QED BY <1>0, <2>1, SumNat, FS_CardinalityType
<1>9. N > 0
  <2> SUFFICES ASSUME N = 0 PROVE FALSE
    BY <1>8
  <2>1. Stakers = {}
    BY <1>0, FS_EmptySet
  <2>2. SumFunctionOnSet(held, Stakers) = 0
    BY <1>0, <2>1, SumOfZeros
  <2> QED BY <2>2
<1> HIDE DEF N, W
<1>10. pot * T <= T * W + (T - 1) * N
  BY <1>3, <1>4, <1>5, <1>6, <1>7
<1>11. pot - W < N
  <2> SUFFICES ASSUME pot >= W + N PROVE FALSE
    BY <1>8
  <2>1. pot * T >= (W + N) * T /\ (W + N) * T = T * W + T * N
    BY <1>8
  <2>2. (T - 1) * N = T * N - N /\ T * N \in Nat /\ T * W \in Nat
    BY <1>8
  <2> QED BY <1>8, <1>9, <1>10, <2>1, <2>2
<1> QED BY <1>11 DEF N, W
-----------------------------------------------------------------------------
(* What a tranche has paid.                                                 *)

\* Nothing is claimed for a cycle that has not begun, or in which nobody stakes.
PotsAreOfBegunCycles ==
  \A k \in Keys : stxPot[k] > 0 => k[1] <= rewardCycle /\ CycleTotalShares(k[1]) > 0
\* Who is recorded in a tranche not claimed yet was recorded too early.
EarlyIsPremature ==
  \A k \in Keys, s \in Stakers :
    stxPot[k] = 0 /\ stxPaid[k][s] # Unpaid => <<k, s>> \in premature

Parts(k) == [s \in Stakers |-> Owed(k, s)]
EverybodyRecorded(k) == \A s \in Stakers : shares[k[1]][s] # 0 => stxPaid[k][s] # Unpaid
\* The two counters of a timely tranche are the shares and the parts of those it
\* recorded, until the dust is swept: then everybody is recorded.
BooksOf(k) ==
  /\ tranchePaidShares[k] = RecordedSum(stxPaid[k], shares[k[1]])
  /\ \/ tranchePaid[k] = RecordedSum(stxPaid[k], Parts(k))
     \/ tranchePaid[k] = stxPot[k] /\ stxPot[k] > 0 /\ EverybodyRecorded(k)
BooksOfTimely == \A k \in Keys : Timely(k) => BooksOf(k)

TrancheInv ==
  TranchesInOrder /\ PotsAreOfBegunCycles /\ EarlyIsPremature /\ BooksOfTimely

\* A part depends on the pot and the shares of the cycle, and on nothing else.
LEMMA SamePart ==
  ASSUME NEW k \in Keys, shares'[k[1]] = shares[k[1]], stxPot'[k] = stxPot[k]
  PROVE  /\ CycleTotalShares(k[1])' = CycleTotalShares(k[1])
         /\ \A s : Owed(k, s)' = Owed(k, s) /\ LeastNet(k, s)' = LeastNet(k, s)
         /\ Parts(k)' = Parts(k)
<1>1. CycleTotalShares(k[1])' = CycleTotalShares(k[1])
  BY DEF CycleTotalShares
<1>2. \A s : Owed(k, s)' = Owed(k, s)
  BY <1>1 DEF Owed
<1>3. \A s : LeastNet(k, s)' = LeastNet(k, s)
  BY <1>2 DEF LeastNet
<1>4. Parts(k)' = Parts(k)
  BY <1>2 DEF Parts
<1> QED BY <1>1, <1>2, <1>3, <1>4

\* The books of a tranche that a step does not touch stay what they are.
LEMMA SameBooks ==
  ASSUME NEW k \in Keys, BooksOf(k), shares'[k[1]] = shares[k[1]],
         stxPot'[k] = stxPot[k], stxPaid'[k] = stxPaid[k],
         tranchePaid'[k] = tranchePaid[k], tranchePaidShares'[k] = tranchePaidShares[k]
  PROVE  BooksOf(k)'
<1>1. Parts(k)' = Parts(k)
  BY SamePart
<1>2. RecordedSum(stxPaid'[k], shares'[k[1]]) = RecordedSum(stxPaid[k], shares[k[1]])
  BY DEF RecordedSum
<1>3. RecordedSum(stxPaid'[k], Parts(k)') = RecordedSum(stxPaid[k], Parts(k))
  BY <1>1 DEF RecordedSum
<1> QED BY <1>2, <1>3 DEF BooksOf, EverybodyRecorded, RecordedSum

\* The books of a tranche that has recorded nobody are empty, whatever happens
\* to the shares and the pot.
LEMMA EmptyBooks ==
  ASSUME NEW k \in Keys, BooksOf(k), stxPot[k] = 0, \A s \in Stakers : stxPaid[k][s] = Unpaid,
         stxPaid'[k] = stxPaid[k],
         tranchePaid'[k] = tranchePaid[k], tranchePaidShares'[k] = tranchePaidShares[k]
  PROVE  BooksOf(k)'
<1>1. \A amounts : RecordedSum(stxPaid[k], amounts) = 0 /\ RecordedSum(stxPaid'[k], amounts) = 0
  BY RecordedNone
<1>2. tranchePaidShares[k] = 0 /\ tranchePaid[k] = 0
  BY <1>1 DEF BooksOf
<1>3. /\ tranchePaidShares'[k] = RecordedSum(stxPaid'[k], shares'[k[1]])
      /\ tranchePaid'[k] = RecordedSum(stxPaid'[k], Parts(k)')
  BY <1>1, <1>2
<1> QED BY <1>3 DEF BooksOf

LEMMA RecordedBooks ==
  ASSUME TypeOK, NEW k \in Keys
  PROVE  /\ shares[k[1]] \in [Stakers -> Nat] /\ Parts(k) \in [Stakers -> Nat]
         /\ CycleTotalShares(k[1]) = SumFunctionOnSet(shares[k[1]], Stakers)
<1>1. k[1] \in Cycles
  BY KeysFinite
<1>2. shares[k[1]] \in [Stakers -> Nat]
  BY <1>1 DEF TypeOK
<1>3. Parts(k) \in [Stakers -> Nat]
  BY PartBounds DEF Parts
<1> QED BY <1>1, <1>2, <1>3, TotalShares

\* A batch adds its stakers' shares and parts to both sides.
LEMMA PayKeepsBooks ==
  ASSUME TypeOK, NEW k \in Keys, NEW P, NEW nets, NEW fees, NEW parts, NEW held,
         PayEffect(k, P, nets, fees, parts, held), BooksOf(k)
  PROVE  BooksOf(k)'
<1> DEFINE n == shares[k[1]]
           w == Parts(k)
<1>1. n \in [Stakers -> Nat] /\ w \in [Stakers -> Nat]
  BY RecordedBooks
<1>2. /\ P \in SUBSET Stakers /\ held \in Nat /\ parts \in Nat
      /\ \A s \in P : stxPaid[k][s] = Unpaid /\ shares[k[1]][s] # 0
      /\ shares' = shares /\ stxPot' = stxPot
      /\ tranchePaid'[k] = tranchePaid[k] + parts
      /\ tranchePaidShares'[k] = tranchePaidShares[k] + held
      /\ stxPaid'[k] = [s \in Stakers |-> IF s \in P THEN Net(k, s) ELSE stxPaid[k][s]]
  <2>1. /\ P \in SUBSET Stakers /\ held \in Nat /\ parts \in Nat
        /\ P = {s \in P : stxPaid[k][s] = Unpaid /\ shares[k[1]][s] # 0}
        /\ shares' = shares /\ stxPot' = stxPot
    BY DEF PayEffect, poxVars, claimVars
  <2>2. /\ tranchePaid'[k] = tranchePaid[k] + parts
        /\ tranchePaidShares'[k] = tranchePaidShares[k] + held
        /\ stxPaid'[k] = [s \in Stakers |-> IF s \in P THEN Net(k, s) ELSE stxPaid[k][s]]
    BY DEF PayEffect, TypeOK
  <2> QED BY <2>1, <2>2
<1>3. parts = SumFunctionOnSet(w, P) /\ held = SumFunctionOnSet(n, P)
  <2> DEFINE wp == [s \in P |-> Owed(k, s)]
             np == [s \in P |-> shares[k[1]][s]]
  <2>0. IsFiniteSet(P)
    BY <1>2, StakersAssumption, FS_Subset
  <2>1. parts = SumFunction(wp) /\ held = SumFunction(np)
    BY DEF PayEffect
  <2>2. parts = SumFunctionOnSet(wp, P) /\ held = SumFunctionOnSet(np, P)
    BY <2>1 DEF SumFunction
  <2>3. \A s \in P : /\ wp[s] = w[s] /\ w[s] \in Int
                     /\ np[s] = n[s] /\ n[s] \in Int
    BY <1>1, <1>2 DEF Parts
  <2> HIDE DEF wp, np, w, n
  <2>4. SumFunctionOnSet(wp, P) = SumFunctionOnSet(w, P)
    BY <2>0, <2>3, SumSame
  <2>5. SumFunctionOnSet(np, P) = SumFunctionOnSet(n, P)
    BY <2>0, <2>3, SumSame
  <2> QED BY <2>2, <2>4, <2>5
<1>4. shares'[k[1]] = n /\ Parts(k)' = w
  BY <1>2, SamePart
<1>5. /\ \A s \in P : stxPaid[k][s] = Unpaid /\ stxPaid'[k][s] # Unpaid
      /\ \A s \in Stakers \ P : stxPaid'[k][s] = stxPaid[k][s]
  <2>1. \A s \in P : Net(k, s) \in Nat
    BY <1>2, NetBounds
  <2> QED BY <1>2, <2>1, StakersAssumption
<1> HIDE DEF n, w
<1>6. /\ RecordedSum(stxPaid[k], n) \in Nat
      /\ RecordedSum(stxPaid'[k], n) = RecordedSum(stxPaid[k], n) + SumFunctionOnSet(n, P)
  <2> DEFINE paid == stxPaid[k]
             newPaid == stxPaid'[k]
  <2>1. /\ P \in SUBSET Stakers /\ n \in [Stakers -> Nat]
        /\ \A s \in P : paid[s] = Unpaid /\ newPaid[s] # Unpaid
        /\ \A s \in Stakers \ P : newPaid[s] = paid[s]
    BY <1>1, <1>2, <1>5
  <2> HIDE DEF paid, newPaid
  <2>2. RecordedSum(newPaid, n) = RecordedSum(paid, n) + SumFunctionOnSet(n, P)
    BY ONLY <2>1, RecordedMore
  <2>3. RecordedSum(paid, n) \in Nat
    BY ONLY <2>1, RecordedAll
  <2> QED BY <2>2, <2>3 DEF paid, newPaid
<1>7. /\ RecordedSum(stxPaid[k], w) \in Nat
      /\ RecordedSum(stxPaid'[k], w) = RecordedSum(stxPaid[k], w) + SumFunctionOnSet(w, P)
  <2> DEFINE paid == stxPaid[k]
             newPaid == stxPaid'[k]
  <2>1. /\ P \in SUBSET Stakers /\ w \in [Stakers -> Nat]
        /\ \A s \in P : paid[s] = Unpaid /\ newPaid[s] # Unpaid
        /\ \A s \in Stakers \ P : newPaid[s] = paid[s]
    BY <1>1, <1>2, <1>5
  <2> HIDE DEF paid, newPaid
  <2>2. RecordedSum(newPaid, w) = RecordedSum(paid, w) + SumFunctionOnSet(w, P)
    BY ONLY <2>1, RecordedMore
  <2>3. RecordedSum(paid, w) \in Nat
    BY ONLY <2>1, RecordedAll
  <2> QED BY <2>2, <2>3 DEF paid, newPaid
<1>8. tranchePaidShares'[k] = RecordedSum(stxPaid'[k], shares'[k[1]])
  BY <1>2, <1>3, <1>4, <1>6 DEF BooksOf, n
<1>9. CASE tranchePaid[k] = RecordedSum(stxPaid[k], w)
  <2>1. tranchePaid'[k] = RecordedSum(stxPaid'[k], Parts(k)')
    BY <1>2, <1>3, <1>4, <1>7, <1>9
  <2> QED BY <1>8, <2>1 DEF BooksOf
<1>10. CASE tranchePaid[k] = stxPot[k] /\ stxPot[k] > 0 /\ EverybodyRecorded(k)
  <2>1. P = {}
    BY <1>2, <1>10 DEF EverybodyRecorded
  <2>2. stxPaid'[k] = stxPaid[k] /\ tranchePaid'[k] = tranchePaid[k]
    <3>1. parts = 0
      BY <1>3, <2>1, FS_EmptySet, SumOfZeros
    <3>2. stxPaid[k] \in [Stakers -> Nat \cup {Unpaid}] /\ tranchePaid[k] \in Nat
      BY DEF TypeOK
    <3> QED BY <1>2, <2>1, <3>1, <3>2
  <2>3. EverybodyRecorded(k)'
    BY <1>2, <1>10, <2>2 DEF EverybodyRecorded
  <2> QED BY <1>2, <1>8, <1>10, <2>2, <2>3 DEF BooksOf
<1> QED BY <1>9, <1>10 DEF BooksOf, w

\* Only a tranche that has paid everybody is swept.
LEMMA SweptIsPaid ==
  ASSUME TypeOK, NEW k \in Keys, BooksOf(k), IsTrancheFullyPaid(k)
  PROVE  EverybodyRecorded(k)
<1>1. RecordedSum(stxPaid[k], shares[k[1]]) >= SumFunctionOnSet(shares[k[1]], Stakers)
  BY RecordedBooks DEF IsTrancheFullyPaid, BooksOf
<1> QED BY <1>1, RecordedBooks, RecordedAll DEF EverybodyRecorded

\* A step leaves a tranche alone, or claims, pays or sweeps that very tranche.
LEMMA TrancheSteps ==
  ASSUME TypeOK, TrancheInv, [Next]_vars, NEW k \in Keys
  PROVE  \/ /\ shares'[k[1]] = shares[k[1]] \/ stxPot[k] = 0
            /\ stxPot'[k] = stxPot[k] /\ stxPaid'[k] = stxPaid[k]
            /\ tranchePaid'[k] = tranchePaid[k]
            /\ tranchePaidShares'[k] = tranchePaidShares[k]
         \/ /\ stxPot[k] = 0 /\ stxPot'[k] > 0 /\ stxPaid'[k] = stxPaid[k]
            /\ tranchePaid'[k] = tranchePaid[k]
            /\ tranchePaidShares'[k] = tranchePaidShares[k]
         \/ \E P, nets, fees, parts, held : PayEffect(k, P, nets, fees, parts, held)
         \/ \E u \in Users : SweepTrancheDust(k, u)
<1> USE DEF claimVars, paidVars, poxVars
<1>0. /\ stxPot \in [Keys -> Nat] /\ tranchePaid \in [Keys -> Nat]
      /\ tranchePaidShares \in [Keys -> Nat]
      /\ stxPaid \in [Keys -> [Stakers -> Nat \cup {Unpaid}]] /\ k[1] \in Cycles
  BY KeysFinite DEF TypeOK
<1>1. CASE UNCHANGED books /\ SharesSettled
  <2>1. stxPot[k] > 0 => shares'[k[1]] = shares[k[1]]
    BY <1>0, <1>1 DEF SharesSettled, TrancheInv, PotsAreOfBegunCycles
  <2> QED BY <1>0, <1>1, <2>1 DEF books
<1>2. ASSUME NEW c \in Cycles, NEW n \in Rewards, PoxClaimRewards(c, n)
      PROVE  \/ /\ shares'[k[1]] = shares[k[1]] /\ stxPot'[k] = stxPot[k]
                /\ stxPaid'[k] = stxPaid[k] /\ tranchePaid'[k] = tranchePaid[k]
                /\ tranchePaidShares'[k] = tranchePaidShares[k]
             \/ /\ stxPot[k] = 0 /\ stxPot'[k] > 0 /\ stxPaid'[k] = stxPaid[k]
                /\ tranchePaid'[k] = tranchePaid[k]
                /\ tranchePaidShares'[k] = tranchePaidShares[k]
  <2> DEFINE j == <<c, trancheCount[c]>>
  <2>1. /\ j \in Keys /\ stxPot' = [stxPot EXCEPT ![j] = n] /\ n > 0
        /\ UNCHANGED <<shares, stxPaid, tranchePaid, tranchePaidShares>>
    BY <1>2 DEF PoxClaimRewards
  <2>2. stxPot[j] = 0
    <3>1. trancheCount[c] \in Nat /\ j[1] = c /\ j[2] = trancheCount[c]
      BY DEF TypeOK
    <3> QED BY <2>1, <3>1 DEF TrancheInv, TranchesInOrder
  <2> HIDE DEF j
  <2> QED BY <1>0, <2>1, <2>2
<1>3. ASSUME NEW j \in Keys, NEW P, NEW nets, NEW fees, NEW parts, NEW held,
             PayEffect(j, P, nets, fees, parts, held), j # k
      PROVE  /\ shares'[k[1]] = shares[k[1]] /\ stxPot'[k] = stxPot[k]
             /\ stxPaid'[k] = stxPaid[k] /\ tranchePaid'[k] = tranchePaid[k]
             /\ tranchePaidShares'[k] = tranchePaidShares[k]
  BY <1>0, <1>3 DEF PayEffect
<1>4. ASSUME NEW j \in Keys, NEW u, SweepTrancheDust(j, u), j # k
      PROVE  /\ shares'[k[1]] = shares[k[1]] /\ stxPot'[k] = stxPot[k]
             /\ stxPaid'[k] = stxPaid[k] /\ tranchePaid'[k] = tranchePaid[k]
             /\ tranchePaidShares'[k] = tranchePaidShares[k]
  BY <1>0, <1>4 DEF SweepTrancheDust
<1>5. ASSUME NEW n, NEW u, WithdrawFees(n, u)
      PROVE  /\ shares'[k[1]] = shares[k[1]] /\ stxPot'[k] = stxPot[k]
             /\ stxPaid'[k] = stxPaid[k] /\ tranchePaid'[k] = tranchePaid[k]
             /\ tranchePaidShares'[k] = tranchePaidShares[k]
  BY <1>5 DEF WithdrawFees
<1> QED BY <1>1, <1>2, <1>3, <1>4, <1>5, Steps

\* Whoever was recorded too early stays known as such.
LEMMA PrematureGrows ==
  ASSUME TypeOK, [Next]_vars
  PROVE  premature \subseteq premature'
<1>1. ASSUME NEW k, NEW P, NEW nets, NEW fees, NEW parts, NEW held,
             PayEffect(k, P, nets, fees, parts, held)
      PROVE  premature \subseteq premature'
  BY <1>1 DEF PayEffect
<1>2. ASSUME NEW k, NEW u, SweepTrancheDust(k, u) PROVE premature' = premature
  BY <1>2 DEF SweepTrancheDust
<1>3. ASSUME NEW n, NEW u, WithdrawFees(n, u) PROVE premature' = premature
  BY <1>3 DEF WithdrawFees, paidVars
<1>4. ASSUME NEW c, NEW n, PoxClaimRewards(c, n) PROVE premature' = premature
  BY <1>4 DEF PoxClaimRewards, paidVars
<1>5. CASE UNCHANGED books
  BY <1>5 DEF books, paidVars
<1> QED BY <1>1, <1>2, <1>3, <1>4, <1>5, Steps

LEMMA PotsStayBegun ==
  ASSUME TypeOK, PotsAreOfBegunCycles, [Next]_vars
  PROVE  PotsAreOfBegunCycles'
<1> USE DEF claimVars, paidVars, poxVars
<1>1. ASSUME UNCHANGED <<rewardCycle, shares, stxPot>> PROVE PotsAreOfBegunCycles'
  BY <1>1 DEF PotsAreOfBegunCycles, CycleTotalShares
<1>2. CASE UNCHANGED books /\ SharesSettled
  <2> SUFFICES ASSUME NEW k \in Keys, stxPot'[k] > 0
               PROVE  k[1] <= rewardCycle' /\ CycleTotalShares(k[1])' > 0
    BY DEF PotsAreOfBegunCycles
  <2>1. /\ k[1] \in Cycles /\ k[1] \in Nat /\ rewardCycle \in Nat /\ rewardCycle' \in Nat
        /\ rewardCycle <= rewardCycle'
    BY <1>2, KeysFinite, CyclesAssumption DEF TypeOK, SharesSettled
  <2>2. k[1] <= rewardCycle /\ CycleTotalShares(k[1]) > 0
    BY <1>2 DEF books, PotsAreOfBegunCycles
  <2>3. CycleTotalShares(k[1])' = CycleTotalShares(k[1])
    BY <1>2, <2>1, <2>2 DEF SharesSettled, CycleTotalShares
  <2> QED BY <2>1, <2>2, <2>3
<1>3. ASSUME NEW c \in Cycles, NEW n \in Rewards, PoxClaimRewards(c, n)
      PROVE  PotsAreOfBegunCycles'
  <2> SUFFICES ASSUME NEW k \in Keys, stxPot'[k] > 0
               PROVE  k[1] <= rewardCycle' /\ CycleTotalShares(k[1])' > 0
    BY DEF PotsAreOfBegunCycles
  <2> DEFINE j == <<c, trancheCount[c]>>
  <2>1. /\ stxPot' = [stxPot EXCEPT ![j] = n] /\ UNCHANGED <<rewardCycle, shares>>
        /\ c <= rewardCycle /\ CycleTotalShares(c) > 0
    BY <1>3 DEF PoxClaimRewards
  <2>2. k[1] <= rewardCycle /\ CycleTotalShares(k[1]) > 0
    <3>1. CASE k = j
      BY <2>1, <3>1
    <3>2. CASE k # j
      <4>1. stxPot[k] > 0
        BY <2>1, <3>2 DEF TypeOK
      <4> QED BY <4>1 DEF PotsAreOfBegunCycles
    <3> QED BY <3>1, <3>2
  <2>3. CycleTotalShares(k[1])' = CycleTotalShares(k[1])
    BY <2>1 DEF CycleTotalShares
  <2> QED BY <2>1, <2>2, <2>3
<1>4. ASSUME NEW k, NEW P, NEW nets, NEW fees, NEW parts, NEW held,
             PayEffect(k, P, nets, fees, parts, held)
      PROVE  PotsAreOfBegunCycles'
  BY <1>1, <1>4 DEF PayEffect
<1>5. ASSUME NEW k, NEW u, SweepTrancheDust(k, u) PROVE PotsAreOfBegunCycles'
  BY <1>1, <1>5 DEF SweepTrancheDust
<1>6. ASSUME NEW n, NEW u, WithdrawFees(n, u) PROVE PotsAreOfBegunCycles'
  BY <1>1, <1>6 DEF WithdrawFees
<1> QED BY <1>2, <1>3, <1>4, <1>5, <1>6, Steps

LEMMA EarlyStaysPremature ==
  ASSUME TypeOK, TrancheInv, [Next]_vars
  PROVE  EarlyIsPremature'
<1> SUFFICES ASSUME NEW k \in Keys, NEW s \in Stakers, stxPot'[k] = 0, stxPaid'[k][s] # Unpaid
             PROVE  <<k, s>> \in premature'
  BY DEF EarlyIsPremature
<1>1. premature \subseteq premature'
  BY PrematureGrows
<1>2. stxPot[k] = 0 /\ stxPaid[k][s] # Unpaid => <<k, s>> \in premature'
  BY <1>1 DEF TrancheInv, EarlyIsPremature
<1>3. ASSUME NEW P, NEW nets, NEW fees, NEW parts, NEW held,
             PayEffect(k, P, nets, fees, parts, held)
      PROVE  <<k, s>> \in premature'
  <2>1. /\ stxPot' = stxPot
        /\ stxPaid'[k] = [x \in Stakers |-> IF x \in P THEN Net(k, x) ELSE stxPaid[k][x]]
        /\ premature' = premature \cup {<<k, x>> : x \in {p \in P : stxPot[k] = 0}}
    BY <1>3 DEF PayEffect, claimVars, TypeOK
  <2>2. CASE s \in P
    BY <2>1, <2>2
  <2>3. CASE s \notin P
    BY <1>2, <2>1, <2>3
  <2> QED BY <2>2, <2>3
<1>4. ASSUME NEW u, SweepTrancheDust(k, u) PROVE <<k, s>> \in premature'
  BY <1>2, <1>4 DEF SweepTrancheDust, claimVars
<1> QED BY <1>2, <1>3, <1>4, TrancheSteps

LEMMA BooksStayTimely ==
  ASSUME TypeOK, TrancheInv, [Next]_vars
  PROVE  BooksOfTimely'
<1> SUFFICES ASSUME NEW k \in Keys, Timely(k)' PROVE BooksOf(k)'
  BY DEF BooksOfTimely
<1>1. Timely(k)
  BY PrematureGrows DEF Timely
<1>2. BooksOf(k)
  BY <1>1 DEF TrancheInv, BooksOfTimely
<1>3. stxPot[k] = 0 => \A s \in Stakers : stxPaid[k][s] = Unpaid
  BY <1>1 DEF TrancheInv, EarlyIsPremature, Timely
<1>4. CASE /\ shares'[k[1]] = shares[k[1]] \/ stxPot[k] = 0
           /\ stxPot'[k] = stxPot[k] /\ stxPaid'[k] = stxPaid[k]
           /\ tranchePaid'[k] = tranchePaid[k]
           /\ tranchePaidShares'[k] = tranchePaidShares[k]
  BY <1>2, <1>3, <1>4, SameBooks, EmptyBooks
<1>5. CASE /\ stxPot[k] = 0 /\ stxPot'[k] > 0 /\ stxPaid'[k] = stxPaid[k]
           /\ tranchePaid'[k] = tranchePaid[k]
           /\ tranchePaidShares'[k] = tranchePaidShares[k]
  BY <1>2, <1>3, <1>5, EmptyBooks
<1>6. ASSUME NEW P, NEW nets, NEW fees, NEW parts, NEW held,
             PayEffect(k, P, nets, fees, parts, held)
      PROVE  BooksOf(k)'
  BY <1>2, <1>6, PayKeepsBooks
<1>7. ASSUME NEW u, SweepTrancheDust(k, u) PROVE BooksOf(k)'
  <2>1. EverybodyRecorded(k)
    BY <1>2, <1>7, SweptIsPaid DEF SweepTrancheDust
  <2>2. /\ UNCHANGED <<shares, stxPot, stxPaid, tranchePaidShares>>
        /\ tranchePaid'[k] = tranchePaid[k] + (stxPot[k] - tranchePaid[k])
        /\ stxPot[k] - tranchePaid[k] > 0
    BY <1>7 DEF SweepTrancheDust, TrancheResidue, poxVars, claimVars, TypeOK
  <2>3. stxPot[k] \in Nat /\ tranchePaid[k] \in Nat
    BY DEF TypeOK
  <2>4. tranchePaid'[k] = stxPot'[k] /\ stxPot'[k] > 0
    BY <2>2, <2>3
  <2>5. tranchePaidShares'[k] = RecordedSum(stxPaid'[k], shares'[k[1]])
    BY <1>2, <2>2 DEF BooksOf, RecordedSum
  <2>6. EverybodyRecorded(k)'
    BY <2>1, <2>2 DEF EverybodyRecorded
  <2> QED BY <2>4, <2>5, <2>6 DEF BooksOf
<1> QED BY <1>4, <1>5, <1>6, <1>7, TrancheSteps

\* The strengthening the three claims about a tranche rest on.
LEMMA TrancheCorrect == Spec => []TrancheInv
<1>1. Init => TrancheInv
  <2> SUFFICES ASSUME Init PROVE TrancheInv
    OBVIOUS
  <2>1. TranchesInOrder /\ PotsAreOfBegunCycles /\ EarlyIsPremature
    BY DEF Init, TranchesInOrder, PotsAreOfBegunCycles, EarlyIsPremature
  <2>2. ASSUME NEW k \in Keys PROVE BooksOf(k)
    <3>1. \A s \in Stakers : stxPaid[k][s] = Unpaid
      BY <2>2 DEF Init
    <3>2. \A amounts : RecordedSum(stxPaid[k], amounts) = 0
      BY <3>1, RecordedNone
    <3>3. tranchePaidShares[k] = 0 /\ tranchePaid[k] = 0
      BY DEF Init
    <3> QED BY <3>2, <3>3 DEF BooksOf
  <2> QED BY <2>1, <2>2 DEF TrancheInv, BooksOfTimely
<1>2. TypeOK /\ TrancheInv /\ [Next]_vars => TrancheInv'
  <2> SUFFICES ASSUME TypeOK, TrancheInv, [Next]_vars PROVE TrancheInv'
    OBVIOUS
  <2>1. TranchesInOrder' /\ PotsAreOfBegunCycles'
    BY TranchesStayInOrder, PotsStayBegun DEF TrancheInv
  <2>2. EarlyIsPremature'
    BY EarlyStaysPremature
  <2>3. BooksOfTimely'
    BY BooksStayTimely
  <2> QED BY <2>1, <2>2, <2>3 DEF TrancheInv
<1> QED BY <1>1, <1>2, SignerTypeCorrect, PTL DEF Spec

LEMMA WithinPot ==
  ASSUME TypeOK, TrancheInv
  PROVE  PaidWithinPot
<1> SUFFICES ASSUME NEW k \in Keys, Timely(k) PROVE tranchePaid[k] <= stxPot[k]
  BY DEF PaidWithinPot
<1>1. BooksOf(k)
  BY DEF TrancheInv, BooksOfTimely
<1>2. stxPot[k] \in Nat
  BY DEF TypeOK
<1>3. CASE tranchePaid[k] = RecordedSum(stxPaid[k], Parts(k)) /\ stxPot[k] = 0
  <2>1. \A s \in Stakers : stxPaid[k][s] = Unpaid
    BY <1>3 DEF TrancheInv, EarlyIsPremature, Timely
  <2>2. RecordedSum(stxPaid[k], Parts(k)) = 0
    BY <2>1, RecordedNone
  <2> QED BY <1>3, <2>2
<1>4. CASE tranchePaid[k] = RecordedSum(stxPaid[k], Parts(k)) /\ stxPot[k] > 0
  <2> DEFINE T == CycleTotalShares(k[1])
             n == shares[k[1]]
             w == Parts(k)
             paid == stxPaid[k]
             pot == stxPot[k]
  <2>1. T > 0
    BY <1>4 DEF TrancheInv, PotsAreOfBegunCycles
  <2>2. /\ n \in [Stakers -> Nat] /\ w \in [Stakers -> Nat]
        /\ T = SumFunctionOnSet(n, Stakers)
    BY RecordedBooks
  <2>3. T \in Nat \ {0}
    <3>1. T \in Nat
      BY KeysFinite, TotalShares
    <3> QED BY <2>1, <3>1
  <2>4. \A s \in Stakers : T * w[s] <= pot * n[s]
    BY <2>1, PartBounds DEF Parts
  <2>5. pot \in Nat
    BY <1>2
  <2> HIDE DEF T, n, w, paid, pot
  <2>6. RecordedSum(paid, w) <= pot
    BY <2>2, <2>3, <2>4, <2>5, PartsUnderPot
  <2> QED BY <1>4, <2>6 DEF w, paid, pot
<1> QED BY <1>1, <1>2, <1>3, <1>4 DEF BooksOf

\* A tranche that recorded nobody before it was claimed pays, with its dust, no
\* more than its pot, for any shares, batches and fees (pay-one, sweep-tranche-dust).
THEOREM TranchePaysItsPot == Spec => []PaidWithinPot
<1>1. TypeOK /\ TrancheInv => PaidWithinPot
  BY WithinPot
<1> QED BY <1>1, SignerTypeCorrect, TrancheCorrect, PTL

\* A step that pays of such a tranche and counts no shares is its sweep.
LEMMA OnlyDust ==
  ASSUME TypeOK, TrancheInv, [Next]_vars, NEW k \in Keys, Timely(k),
         tranchePaid'[k] # tranchePaid[k], tranchePaidShares' = tranchePaidShares
  PROVE  tranchePaid'[k] - tranchePaid[k] < Cardinality(Stakers)
<1>1. BooksOf(k)
  BY DEF TrancheInv, BooksOfTimely
<1>2. stxPot[k] \in Nat /\ tranchePaid[k] \in Nat /\ tranchePaidShares[k] \in Nat
  BY DEF TypeOK
<1>3. ASSUME NEW P, NEW nets, NEW fees, NEW parts, NEW held,
             PayEffect(k, P, nets, fees, parts, held)
      PROVE  FALSE
  <2>1. /\ held \in Nat /\ (\A s \in P : held > 0)
        /\ tranchePaidShares'[k] = tranchePaidShares[k] + held
        /\ tranchePaid'[k] = tranchePaid[k] + parts
    BY <1>3 DEF PayEffect, TypeOK
  <2>2. P = {}
    BY <1>2, <2>1
  <2>3. parts = SumFunctionOnSet([s \in P |-> Owed(k, s)], P)
    BY <1>3 DEF PayEffect, SumFunction
  <2>4. parts = 0
    BY <2>2, <2>3, FS_EmptySet, SumOfZeros
  <2> QED BY <1>2, <2>1, <2>4
<1>4. PICK u \in Users : SweepTrancheDust(k, u)
  BY <1>3, TrancheSteps
<1>5. /\ tranchePaid'[k] = tranchePaid[k] + (stxPot[k] - tranchePaid[k])
      /\ stxPot[k] - tranchePaid[k] > 0
  BY <1>4 DEF SweepTrancheDust, TrancheResidue, TypeOK
<1>6. EverybodyRecorded(k)
  BY <1>1, <1>4, SweptIsPaid DEF SweepTrancheDust
<1>7. tranchePaid[k] = RecordedSum(stxPaid[k], Parts(k))
  BY <1>1, <1>2, <1>5 DEF BooksOf
<1> DEFINE T == CycleTotalShares(k[1])
           n == shares[k[1]]
           w == Parts(k)
           pot == stxPot[k]
<1>8. /\ n \in [Stakers -> Nat] /\ w \in [Stakers -> Nat]
      /\ T = SumFunctionOnSet(n, Stakers) /\ pot \in Nat
  BY <1>2, RecordedBooks
<1>9. T \in Nat \ {0}
  <2>1. T \in Nat
    BY KeysFinite, TotalShares
  <2>2. T > 0
    BY <1>2, <1>5 DEF TrancheInv, PotsAreOfBegunCycles
  <2> QED BY <2>1, <2>2
<1>10. \A s \in Stakers : pot * n[s] <= T * w[s] + (T - 1)
  BY <1>9, PartBounds DEF Parts
<1>11. tranchePaid[k] = SumFunctionOnSet(w, Stakers)
  <2>1. \A s \in Stakers : w[s] # 0 => stxPaid[k][s] # Unpaid
    BY <1>6, PartBounds DEF EverybodyRecorded, Parts
  <2> HIDE DEF w
  <2>2. RecordedSum(stxPaid[k], w) = SumFunctionOnSet(w, Stakers)
    BY <1>8, <2>1, RecordedAll
  <2> QED BY <1>7, <2>2 DEF w
<1> HIDE DEF T, n, w, pot
<1>12. pot - SumFunctionOnSet(w, Stakers) < Cardinality(Stakers)
  BY <1>8, <1>9, <1>10, DustBound
<1>13. tranchePaid'[k] - tranchePaid[k] = pot - SumFunctionOnSet(w, Stakers)
  BY <1>2, <1>5, <1>11 DEF pot
<1> QED BY <1>12, <1>13

\* Of a tranche that recorded nobody before it was claimed, the sweep takes what
\* rounding left, less than one unit for each staker, and never the part of
\* somebody not paid yet (sweep-tranche-dust).
THEOREM SweptIsDust == Spec => SweepTakesOnlyDust
<1>1. TypeOK /\ TrancheInv /\ [Next]_vars =>
        [\A k \in Keys :
           Timely(k) /\ tranchePaid'[k] # tranchePaid[k] /\ tranchePaidShares' = tranchePaidShares
             => tranchePaid'[k] - tranchePaid[k] < Cardinality(Stakers)]_vars
  BY OnlyDust
<1> QED BY <1>1, SignerTypeCorrect, TrancheCorrect, PTL DEF Spec, SweepTakesOnlyDust

\* Who is recorded in a claimed tranche was paid the part of all of it, less the
\* highest fee at most, unless the record was made before the claim (pay-one's
\* stx-paid map).
THEOREM RecordedArePaid == Spec => []RecordedMeansPaid
<1>1. Init => RecordedMeansPaid
  BY DEF Init, RecordedMeansPaid, PaidInFull
<1>2. TypeOK /\ TrancheInv /\ RecordedMeansPaid /\ [Next]_vars => RecordedMeansPaid'
  <2> SUFFICES ASSUME TypeOK, TrancheInv, RecordedMeansPaid, [Next]_vars,
                      NEW k \in Keys, NEW s \in Stakers, stxPot'[k] > 0
               PROVE  PaidInFull(k, s)' \/ <<k, s>> \in premature'
    BY DEF RecordedMeansPaid
  <2>0. premature \subseteq premature' /\ stxPot[k] \in Nat
    BY PrematureGrows DEF TypeOK
  <2>1. CASE /\ shares'[k[1]] = shares[k[1]] \/ stxPot[k] = 0
             /\ stxPot'[k] = stxPot[k] /\ stxPaid'[k] = stxPaid[k]
    <3>1. PaidInFull(k, s) \/ <<k, s>> \in premature
      BY <2>1 DEF RecordedMeansPaid
    <3>2. LeastNet(k, s)' = LeastNet(k, s)
      BY <2>1, SamePart
    <3>3. PaidInFull(k, s) => PaidInFull(k, s)'
      BY <2>1, <3>2 DEF PaidInFull
    <3> QED BY <2>0, <3>1, <3>3
  <2>2. CASE stxPot[k] = 0 /\ stxPaid'[k] = stxPaid[k]
    <3>1. stxPaid[k][s] = Unpaid \/ <<k, s>> \in premature
      BY <2>2 DEF TrancheInv, EarlyIsPremature
    <3> QED BY <2>0, <2>2, <3>1 DEF PaidInFull
  <2>3. ASSUME NEW P, NEW nets, NEW fees, NEW parts, NEW held,
               PayEffect(k, P, nets, fees, parts, held)
        PROVE  PaidInFull(k, s)' \/ <<k, s>> \in premature'
    <3>1. /\ shares' = shares /\ stxPot' = stxPot
          /\ stxPaid'[k] = [x \in Stakers |-> IF x \in P THEN Net(k, x) ELSE stxPaid[k][x]]
      BY <2>3 DEF PayEffect, poxVars, claimVars, TypeOK
    <3>2. LeastNet(k, s)' = LeastNet(k, s)
      BY <3>1, SamePart
    <3>3. CASE s \in P
      <4>1. LeastNet(k, s) <= Net(k, s)
        BY NetBounds
      <4> QED BY <3>1, <3>2, <3>3, <4>1 DEF PaidInFull
    <3>4. CASE s \notin P
      <4>1. stxPaid'[k][s] = stxPaid[k][s]
        BY <3>1, <3>4
      <4>2. PaidInFull(k, s) \/ <<k, s>> \in premature
        BY <3>1 DEF RecordedMeansPaid
      <4> QED BY <2>0, <3>2, <4>1, <4>2 DEF PaidInFull
    <3> QED BY <3>3, <3>4
  <2>4. ASSUME NEW u, SweepTrancheDust(k, u)
        PROVE  PaidInFull(k, s)' \/ <<k, s>> \in premature'
    BY <2>1, <2>4 DEF SweepTrancheDust, poxVars, claimVars
  <2> QED BY <2>1, <2>2, <2>3, <2>4, TrancheSteps
<1> QED BY <1>1, <1>2, SignerTypeCorrect, TrancheCorrect, PTL DEF Spec
=============================================================================
