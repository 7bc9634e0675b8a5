--------------------------- MODULE SwapExtension ---------------------------
(***************************************************************************)
(* contracts/fakfun-extensions/usdcx-sbtc-swap-v2.clar: the extension that *)
(* swaps sBTC and USDCx for the wallet that calls it.  A fee in sBTC goes  *)
(* to the sponsor, who sets the fee and names the next sponsor, each in    *)
(* two steps.                                                              *)
(***************************************************************************)
EXTENDS Integers

CONSTANTS
  FirstSponsor,   \* the deployer
  NoSponsor,      \* no pending-sponsor
  NoFee,          \* no pending-fee
  InitialFee,     \* the fee at deployment
  MaxGas,         \* MAX-GAS
  Cooldown        \* COOLDOWN-BLOCKS
VARIABLES
  height,         \* burn-block-height
  swap            \* the contract's data

Init ==
  swap = [sponsor |-> FirstSponsor, fee |-> InitialFee, pendingFee |-> NoFee,
          pendingFeeBlock |-> 0, pendingSponsor |-> NoSponsor, pendingSponsorBlock |-> 0]

IsSponsor(u) == u = swap.sponsor
CooldownPassed(block) == height >= block + Cooldown

ProposeFee(newFee, u) ==
  /\ IsSponsor(u)
  /\ newFee <= MaxGas
  /\ swap' = [swap EXCEPT !.pendingFee = newFee, !.pendingFeeBlock = height]
ConfirmFee(u) ==
  /\ swap.pendingFee # NoFee
  /\ IsSponsor(u)
  /\ CooldownPassed(swap.pendingFeeBlock)
  /\ swap' = [swap EXCEPT !.fee = swap.pendingFee, !.pendingFee = NoFee, !.pendingFeeBlock = 0]
CancelFeeChange(u) ==
  /\ IsSponsor(u)
  /\ swap' = [swap EXCEPT !.pendingFee = NoFee, !.pendingFeeBlock = 0]

\* The present sponsor confirms the next one.
ProposeSponsor(newSponsor, u) ==
  /\ IsSponsor(u)
  /\ swap' = [swap EXCEPT !.pendingSponsor = newSponsor, !.pendingSponsorBlock = height]
ConfirmSponsor(u) ==
  /\ swap.pendingSponsor # NoSponsor
  /\ IsSponsor(u)
  /\ CooldownPassed(swap.pendingSponsorBlock)
  /\ swap' = [swap EXCEPT !.sponsor = swap.pendingSponsor, !.pendingSponsor = NoSponsor,
                          !.pendingSponsorBlock = 0]
CancelSponsorChange(u) ==
  /\ IsSponsor(u)
  /\ swap' = [swap EXCEPT !.pendingSponsor = NoSponsor, !.pendingSponsorBlock = 0]
-----------------------------------------------------------------------------
(* call: cmd is the decoded payload, out what the pool gives.               *)

Actions == {"to-sbtc", "to-usdcx"}
\* The fee comes off the sBTC: what comes out of the pool, or what goes in.
FeeFits(cmd) == (IF cmd.action = "to-sbtc" THEN cmd.minOut ELSE cmd.amount) > swap.fee
Swaps(cmd, out) ==
  /\ cmd.amount > 0 /\ cmd.minOut > 0
  /\ cmd.action \in Actions
  /\ FeeFits(cmd)
  /\ out >= cmd.minOut
\* What is left of the caller's sBTC and USDCx.
SbtcAfter(cmd, out, sbtc) ==
  IF cmd.action = "to-sbtc" THEN sbtc + out - swap.fee ELSE sbtc - cmd.amount
UsdcxAfter(cmd, out, usdcx) ==
  IF cmd.action = "to-sbtc" THEN usdcx - cmd.amount ELSE usdcx + out
=============================================================================
