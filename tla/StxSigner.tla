----------------------------- MODULE StxSigner -----------------------------
(***************************************************************************)
(* The staking signer of contracts/external/juice-pool-stx-signer.clar.    *)
(* Every claim of rewards from pox-5 opens a tranche of a reward cycle;    *)
(* anybody may then have stakers paid their part of a tranche, in batches  *)
(* and in any order, less a fee the admin changes through a timelock.      *)
(* What rounding leaves of a tranche the admin sweeps.                     *)
(*                                                                         *)
(* pox-5 is not in the repository.  Modelled of it: staking and unstaking  *)
(* change a staker's shares of the cycles that have not begun, rewards     *)
(* come with the distribution cycles of a begun cycle, claiming pays them. *)
(* Definitions named Slip... are plausible mistakes in the definition that *)
(* follows them, used by nothing.                                          *)
(***************************************************************************)
EXTENDS Integers, FiniteSets, Functions

CONSTANTS
  Stakers, Users,  \* principals: those that stake, those that may be admin
  NoFee,           \* pending-fee is none
  Unpaid,          \* no entry in stx-paid
  Cycles,          \* reward cycles: an interval of numbers above 0
  Tranches,        \* bound: the tranches of a cycle, 0 .. n
  ShareAmounts,    \* amounts staked, and amounts of fees withdrawn
  Rewards,         \* amounts a claim may bring
  Fees,            \* fees propose-fee-bips may ask for, per MaxBips
  MaxBips, MaxFeeBips, FeeCooldown,
  FirstAdmin,
  MaxHeight        \* bound: the last burn block explored

Keys == Cycles \X Tranches

ASSUME StakersAssumption ==
  /\ FirstAdmin \in Users /\ Unpaid \notin Nat /\ NoFee \notin Nat
  /\ IsFiniteSet(Stakers)   \* a principal is 21 bytes and a name of at most 40
ASSUME CyclesAssumption ==   \* keys are 128-bit numbers
  /\ Cycles \subseteq Nat \ {0} /\ IsFiniteSet(Cycles)
  /\ Tranches \subseteq Nat /\ IsFiniteSet(Tranches) /\ 0 \in Tranches
ASSUME AmountsAssumption ==
  /\ ShareAmounts \subseteq Nat \ {0} /\ Rewards \subseteq Nat /\ Fees \subseteq Nat
  /\ MaxBips \in Nat \ {0} /\ MaxFeeBips \in 0 .. MaxBips /\ FeeCooldown \in Nat
  /\ MaxHeight \in Nat

VARIABLES
  burnHeight,
  distributionCycle, rewardCycle,   \* external: pox-5's clocks
  shares,            \* external: [Cycles -> [Stakers -> Nat]]
  balance,           \* external: the sBTC of the signer
  admin, paused,
  feeBips, pendingFee, pendingFeeHeight, earnedFees, ogStakers,
  trancheCount,      \* [Cycles -> Nat]
  lastClaim,         \* [Cycles -> Nat], 0: never claimed
  stxPot, tranchePaid, tranchePaidShares,   \* [Keys -> Nat]
  stxPaid,           \* [Keys -> [Stakers -> Nat or Unpaid]]
  premature          \* history: <<key, staker>> recorded as paid before the claim

poxVars == <<distributionCycle, rewardCycle, shares>>
adminVars == <<admin, paused, ogStakers>>
feeVars == <<feeBips, pendingFee, pendingFeeHeight>>
claimVars == <<trancheCount, lastClaim, stxPot>>
paidVars == <<tranchePaid, tranchePaidShares, stxPaid, premature>>
vars == <<burnHeight, poxVars, balance, adminVars, feeVars, earnedFees, claimVars, paidVars>>

CycleTotalShares(c) == SumFunction(shares[c])

Init ==
  /\ burnHeight = 1 /\ distributionCycle = 1 /\ rewardCycle = 0
  /\ shares = [c \in Cycles |-> [s \in Stakers |-> 0]]
  /\ balance = 0
  /\ admin = FirstAdmin /\ paused = FALSE
  /\ feeBips = 0 /\ pendingFee = NoFee /\ pendingFeeHeight = 0
  /\ earnedFees = 0 /\ ogStakers = {}
  /\ trancheCount = [c \in Cycles |-> 0] /\ lastClaim = [c \in Cycles |-> 0]
  /\ stxPot = [k \in Keys |-> 0]
  /\ tranchePaid = [k \in Keys |-> 0] /\ tranchePaidShares = [k \in Keys |-> 0]
  /\ stxPaid = [k \in Keys |-> [s \in Stakers |-> Unpaid]]
  /\ premature = {}
-----------------------------------------------------------------------------
(* The chain and pox-5.                                                     *)

\* Every block is a distribution cycle, and may begin the next reward cycle.
NextBlock ==
  /\ burnHeight < MaxHeight
  /\ burnHeight' = burnHeight + 1 /\ distributionCycle' = distributionCycle + 1
  /\ rewardCycle' \in {rewardCycle} \cup ({rewardCycle + 1} \cap Cycles)
  /\ UNCHANGED <<shares, balance, adminVars, feeVars, earnedFees, claimVars, paidVars>>

SetFutureShares(s, amount) ==
  /\ shares' = [c \in Cycles |-> IF c > rewardCycle THEN [shares[c] EXCEPT ![s] = amount]
                                                    ELSE shares[c]]
  /\ UNCHANGED <<burnHeight, distributionCycle, rewardCycle, balance, adminVars,
                 feeVars, earnedFees, claimVars, paidVars>>
\* pox-5 asks validate-stake! before it accepts a stake.
Stake(s, amount) ==
  /\ ~paused
  /\ \A c \in Cycles : c > rewardCycle => shares[c][s] = 0
  /\ SetFutureShares(s, amount)
Unstake(s) == SetFutureShares(s, 0)
-----------------------------------------------------------------------------
(* Rewards.                                                                 *)

SlipTrancheReopened(c, claimed) ==
  LET k == <<c, 0>>
  IN  /\ distributionCycle > lastClaim[c]
      /\ c <= rewardCycle /\ CycleTotalShares(c) > 0
      /\ claimed > 0
      /\ stxPot' = [stxPot EXCEPT ![k] = @ + claimed]
      /\ trancheCount' = [trancheCount EXCEPT ![c] = 1]
      /\ lastClaim' = [lastClaim EXCEPT ![c] = distributionCycle]
      /\ balance' = balance + claimed
      /\ UNCHANGED <<burnHeight, poxVars, adminVars, feeVars, earnedFees, paidVars>>
\* pox-claim-rewards: anybody, once per distribution cycle; no reward, no tranche.
PoxClaimRewards(c, claimed) ==
  LET k == <<c, trancheCount[c]>>
  IN  /\ distributionCycle > lastClaim[c]
      /\ c <= rewardCycle /\ CycleTotalShares(c) > 0   \* pox-5 has rewards to give
      /\ claimed > 0
      /\ k \in Keys
      /\ stxPot' = [stxPot EXCEPT ![k] = claimed]
      /\ trancheCount' = [trancheCount EXCEPT ![c] = @ + 1]
      /\ lastClaim' = [lastClaim EXCEPT ![c] = distributionCycle]
      /\ balance' = balance + claimed
      /\ UNCHANGED <<burnHeight, poxVars, adminVars, feeVars, earnedFees, paidVars>>

\* pay-one's arithmetic: the part of a tranche, and the fee taken from it.
Owed(k, s) ==
  IF CycleTotalShares(k[1]) = 0 THEN 0
  ELSE (stxPot[k] * shares[k[1]][s]) \div CycleTotalShares(k[1])
FeeOf(k, s) == IF s \in ogStakers THEN 0 ELSE (Owed(k, s) * feeBips) \div MaxBips
Net(k, s) == Owed(k, s) - FeeOf(k, s)

\* The fold of pay-one over a list skips those already paid (a second mention
\* in the list included) and those without shares.
SlipPaysAgain(k, listed) == {s \in listed : shares[k[1]][s] # 0}
Payees(k, listed) == {s \in listed : stxPaid[k][s] = Unpaid /\ shares[k[1]][s] # 0}

\* pay-stx-stakers: anybody, for any list and tranche, claimed or not.
PayStxStakers(k, listed) ==
  LET payees == Payees(k, listed)
      nets == SumFunction([s \in payees |-> Net(k, s)])
  IN  /\ nets <= balance
      /\ balance' = balance - nets
      /\ earnedFees' = earnedFees + SumFunction([s \in payees |-> FeeOf(k, s)])
      /\ stxPaid' = [stxPaid EXCEPT ![k] =
           [s \in Stakers |-> IF s \in payees THEN Net(k, s) ELSE @[s]]]
      /\ tranchePaid' =
           [tranchePaid EXCEPT ![k] = @ + SumFunction([s \in payees |-> Owed(k, s)])]
      /\ tranchePaidShares' =
           [tranchePaidShares EXCEPT ![k] = @ + SumFunction([s \in payees |-> shares[k[1]][s]])]
      /\ premature' = premature \cup {<<k, s>> : s \in {p \in payees : stxPot[k] = 0}}
      /\ UNCHANGED <<burnHeight, poxVars, adminVars, feeVars, claimVars>>

TrancheResidue(k) == stxPot[k] - tranchePaid[k]
SlipClaimedIsPaid(k) == stxPot[k] > 0
IsTrancheFullyPaid(k) == tranchePaidShares[k] >= CycleTotalShares(k[1])

\* A negative residue aborts the call: it is an unsigned subtraction.
SlipSweepUnrecorded(k, u) ==
  /\ u = admin
  /\ IsTrancheFullyPaid(k)
  /\ TrancheResidue(k) > 0 /\ TrancheResidue(k) <= balance
  /\ balance' = balance - TrancheResidue(k)
  /\ UNCHANGED <<burnHeight, poxVars, adminVars, feeVars, earnedFees, claimVars, paidVars>>
SweepTrancheDust(k, u) ==
  /\ u = admin
  /\ IsTrancheFullyPaid(k)
  /\ TrancheResidue(k) > 0 /\ TrancheResidue(k) <= balance
  /\ balance' = balance - TrancheResidue(k)
  /\ tranchePaid' = [tranchePaid EXCEPT ![k] = @ + TrancheResidue(k)]
  /\ UNCHANGED <<burnHeight, poxVars, adminVars, feeVars, earnedFees, claimVars,
                 tranchePaidShares, stxPaid, premature>>
-----------------------------------------------------------------------------
(* The admin.                                                               *)

SetAdmin(newAdmin, u) ==
  /\ u = admin /\ admin' = newAdmin
  /\ UNCHANGED <<burnHeight, poxVars, balance, paused, ogStakers, feeVars, earnedFees,
                 claimVars, paidVars>>
SetPaused(p, u) ==
  /\ u = admin /\ paused' = p
  /\ UNCHANGED <<burnHeight, poxVars, balance, admin, ogStakers, feeVars, earnedFees,
                 claimVars, paidVars>>
SetOg(s, og, u) ==
  /\ u = admin
  /\ ogStakers' = IF og THEN ogStakers \cup {s} ELSE ogStakers \ {s}
  /\ UNCHANGED <<burnHeight, poxVars, balance, admin, paused, feeVars, earnedFees,
                 claimVars, paidVars>>
SlipFeeUncapped(fee, u) ==
  /\ u = admin
  /\ pendingFee' = fee /\ pendingFeeHeight' = burnHeight
  /\ UNCHANGED <<burnHeight, poxVars, balance, adminVars, feeBips, earnedFees,
                 claimVars, paidVars>>
ProposeFeeBips(fee, u) ==
  /\ u = admin /\ fee <= MaxFeeBips
  /\ pendingFee' = fee /\ pendingFeeHeight' = burnHeight
  /\ UNCHANGED <<burnHeight, poxVars, balance, adminVars, feeBips, earnedFees,
                 claimVars, paidVars>>
SlipConfirmAtOnce(u) ==
  /\ u = admin /\ pendingFee # NoFee
  /\ feeBips' = pendingFee /\ pendingFee' = NoFee
  /\ UNCHANGED <<burnHeight, poxVars, balance, adminVars, pendingFeeHeight, earnedFees,
                 claimVars, paidVars>>
ConfirmFeeBips(u) ==
  /\ u = admin /\ pendingFee # NoFee
  /\ burnHeight >= pendingFeeHeight + FeeCooldown
  /\ feeBips' = pendingFee /\ pendingFee' = NoFee
  /\ UNCHANGED <<burnHeight, poxVars, balance, adminVars, pendingFeeHeight, earnedFees,
                 claimVars, paidVars>>
CancelFeeBips(u) ==
  /\ u = admin /\ pendingFee' = NoFee
  /\ UNCHANGED <<burnHeight, poxVars, balance, adminVars, feeBips, pendingFeeHeight,
                 earnedFees, claimVars, paidVars>>
WithdrawFees(amount, u) ==
  /\ u = admin /\ amount \in 1 .. earnedFees /\ amount <= balance
  /\ balance' = balance - amount /\ earnedFees' = earnedFees - amount
  /\ UNCHANGED <<burnHeight, poxVars, adminVars, feeVars, claimVars, paidVars>>
WithdrawAllFees(u) == WithdrawFees(earnedFees, u)
-----------------------------------------------------------------------------
Staking == \E s \in Stakers : Unstake(s) \/ \E n \in ShareAmounts : Stake(s, n)
Rewarding ==
  \/ \E c \in Cycles, n \in Rewards : PoxClaimRewards(c, n)
  \/ \E k \in Keys :
       \/ \E listed \in SUBSET Stakers : PayStxStakers(k, listed)
       \/ \E u \in Users : SweepTrancheDust(k, u)
Administering ==
  \E u \in Users :
    \/ \E x \in Users : SetAdmin(x, u)
    \/ \E p \in BOOLEAN : SetPaused(p, u) \/ \E s \in Stakers : SetOg(s, p, u)
    \/ \E f \in Fees : ProposeFeeBips(f, u)
    \/ ConfirmFeeBips(u) \/ CancelFeeBips(u)
    \/ WithdrawAllFees(u) \/ \E n \in ShareAmounts : WithdrawFees(n, u)
Next == NextBlock \/ Staking \/ Rewarding \/ Administering
Spec == Init /\ [][Next]_vars
-----------------------------------------------------------------------------
(* Properties.                                                              *)

\* Every variable keeps its shape; in particular the fee never exceeds its cap.
TypeOK ==
  /\ burnHeight \in Nat /\ distributionCycle \in Nat /\ rewardCycle \in Nat
  /\ shares \in [Cycles -> [Stakers -> Nat]] /\ balance \in Nat
  /\ admin \in Users /\ paused \in BOOLEAN /\ ogStakers \subseteq Stakers
  /\ feeBips \in 0 .. MaxFeeBips /\ pendingFee \in 0 .. MaxFeeBips \cup {NoFee}
  /\ pendingFeeHeight \in Nat /\ earnedFees \in Nat
  /\ trancheCount \in [Cycles -> Nat] /\ lastClaim \in [Cycles -> Nat]
  /\ stxPot \in [Keys -> Nat]
  /\ tranchePaid \in [Keys -> Nat] /\ tranchePaidShares \in [Keys -> Nat]
  /\ stxPaid \in [Keys -> [Stakers -> Nat \cup {Unpaid}]]
  /\ premature \subseteq Keys \X Stakers

\* The signer's sBTC is exactly what the tranches still owe and the fees not
\* withdrawn, whatever batches, rounding, fee changes and sweeps do: no sat is
\* created or lost.
EverySatAccounted ==
  balance = SumFunction([k \in Keys |-> TrancheResidue(k)]) + earnedFees

\* A staker recorded as paid in a claimed tranche got their part of all of it,
\* less the highest fee at most, unless they were recorded before the claim: a
\* tranche is claimed once, and the shares of its cycle no longer change.
LeastNet(k, s) == Owed(k, s) - (Owed(k, s) * MaxFeeBips) \div MaxBips
PaidInFull(k, s) == stxPaid[k][s] = Unpaid \/ stxPaid[k][s] >= LeastNet(k, s)
RecordedMeansPaid ==
  \A k \in Keys, s \in Stakers : stxPot[k] > 0 => PaidInFull(k, s) \/ <<k, s>> \in premature

\* What a tranche pays, and the dust swept from it, never exceeds its pot; and a
\* sweep takes less than one unit per staker.  Neither holds once somebody was
\* recorded before the claim.
Timely(k) == \A s \in Stakers : <<k, s>> \notin premature
PaidWithinPot == \A k \in Keys : Timely(k) => tranchePaid[k] <= stxPot[k]
SweepTakesOnlyDust ==
  [][\A k \in Keys :
       Timely(k) /\ tranchePaid'[k] # tranchePaid[k] /\ tranchePaidShares' = tranchePaidShares
         => tranchePaid'[k] - tranchePaid[k] < Cardinality(Stakers)]_vars

\* The fee follows the abstract timelock, whoever is admin by then.
FeeLock == INSTANCE Timelock WITH
  MinWait <- FeeCooldown, Unset <- NoFee, NoProposal <- NoFee, Harmless <- {},
  height <- burnHeight, current <- feeBips, proposal <- pendingFee, since <- pendingFeeHeight
FeeIsTimelocked == FeeLock!Spec

\* README-pox5-staking-sims.md:307 "The stx-paid guard makes pay-stx-stakers
\* idempotent per tranche, so an operator script is safe to re-run": whoever an
\* earlier run recorded has been paid.  A run before the claim records stakers
\* as paid nothing, and a later run skips them.
SafeToRerun == \A k \in Keys, s \in Stakers : stxPot[k] > 0 => PaidInFull(k, s)
=============================================================================
