-------------------------- MODULE MCSafeUnderCore --------------------------
(* A small safe and its core, and the safe whose user falls silent.         *)
EXTENDS SafeUnderCore, TLC

CONSTANTS alice, bob, rec, dep,  \* the first owner, the next, the recovery key,
                                 \* who deploys the safe and is admin of the core
          a1, h1, m1, juice, good

Policy1 == [stx |-> 1, sbtc |-> 1, cooldown |-> 1]
AliceOnly == {[owner |-> alice, recovery |-> rec, config |-> Policy1]}
NoAmounts == [stx |-> {}, sbtc |-> {}, other |-> {}]
\* Two in one period: the first leaves at once, the second is queued.
OneWithdrawal == {[amount |-> 1, maxFee |-> 0]}
SomeFunds == [stx |-> 0, sbtc |-> 2, other |-> 0, nft |-> 1, staked |-> 0]
Code == (Self :> good) @@ (juice :> good)
OneGesture == {<<a1, h1>>}

\* Nobody has to act: the chain goes on, and the holder of the recovery address,
\* who wants bob seated, calls if the call keeps succeeding.
RecoverySpec ==
  /\ CSpec
  /\ WF_cvars(NextBlock /\ UNCHANGED coreVars)
  /\ WF_cvars(Admitted /\ RecoverInactiveWallet(bob, recoveryAddress) /\ UNCHANGED coreVars)

\* The wallet has heard from nobody for longer than INACTIVITY-PERIOD.
LongSilent == pubkeyInitialized /\ burnHeight > Inactivity + lastActivityBlock

\* Funds are never stranded by an absent owner while the core admits the safe:
\* whatever proposals, locks, used signatures and owners the factors left behind,
\* a safe that stays silent and listed ends up with the owner the recovery
\* address names (recover-inactive-wallet).
RecoveryTakesOver ==
  LongSilent ~> (~LongSilent \/ ~Admitted \/ (admins = {bob} /\ owner = bob))
=============================================================================
