--------------------------- MODULE SafeUnderCore ---------------------------
(***************************************************************************)
(* The safe of JuiceSafe together with the core it is registered with      *)
(* (WalletCore).  onboard registers the safe; most of its calls end by     *)
(* logging to the core inside try!, so they fail while the core does not   *)
(* admit it.  The calls that do not log are those of WithoutCore.  Other   *)
(* wallets the core lists are left out: no code reads two entries together. *)
(***************************************************************************)
EXTENDS JuiceSafe

CONSTANTS
  Template,        \* the contract onboard registers the safe against
  CodeHash, CodeHashes, NoHash, Successors, CoreDeployer, AdminCooldown

ASSUME CoreAssumption ==
  /\ NoKey \notin Successors /\ CoreDeployer \in Users
  /\ AdminCooldown \in Nat /\ CodeHash[Self] # NoHash

VARIABLES
  contractAdmin, pendingAdmin, adminProposedAt,
  openAccess, whitelistedWallets, verifiedContracts

Core == INSTANCE WalletCore WITH
  Wallets <- {Self}, Templates <- {Template}, Callers <- Users,
  FirstAdmin <- CoreDeployer, NoAdmin <- NoKey
coreVars == <<contractAdmin, pendingAdmin, adminProposedAt,
              openAccess, whitelistedWallets, verifiedContracts>>
cvars == <<vars, coreVars>>

Admitted == Core!IsWhitelisted(Self)

CInit == Init /\ Core!Init
-----------------------------------------------------------------------------
\* What may do without the core: withdrawals of sBTC within the threshold, the
\* settling of queued withdrawals, and the gas limit.
SlipVetoUnlogged ==
  \E i \in 1 .. MaxOps, c \in Calls : VetoOperation(i, c)
WithoutCore ==
  \/ \E c \in Calls, w \in Withdrawals :
       SbtcInitiateWithdrawal(w.amount, w.maxFee, c) /\ UNCHANGED pendingOperations
  \/ \E i \in 1 .. MaxOps :
       \/ \E u \in Users : ExecutePending("sbtc-withdraw", i, u)
       \/ \E c \in PasskeyCalls, m \in Memos : ExecutePendingNow("sbtc-withdraw", i, m, c)
  \/ \E u \in Users, a \in GasAmounts : ProposeMaxGasAmount(a, u)
  \/ \E c \in PasskeyCalls : ConfirmMaxGasAmount(c)
WithCore ==
  /\ Admitted
  /\ Spending \/ Staking \/ Settling \/ PolicyChange \/ Handover \/ Recovery
\* register-wallet is part of onboard; what onboard logs then is admitted.
Registration == Onboarding /\ Core!RegisterWallet(Self, Template)

SafeStep == NextBlock \/ Unlock \/ WithoutCore \/ WithCore
CNext ==
  \/ SafeStep /\ UNCHANGED coreVars
  \/ Registration
  \/ Core!AdminCall /\ UNCHANGED vars
CSpec == CInit /\ [][CNext]_cvars
-----------------------------------------------------------------------------
(* Properties.                                                              *)

\* While the core does not admit an onboarded safe, its factors can do nothing
\* but withdraw sBTC and set the gas limit: no other money leaves, nothing is
\* queued or vetoed, owner, recovery, policy and lock stay as they are, and what
\* is settled of the queue is withdrawals.
UnlistedSafeOnlyWithdraws ==
  [][pubkeyInitialized /\ ~openAccess /\ Self \notin whitelistedWallets =>
       /\ UNCHANGED <<seatVars, handoverVars, configVars, tokenLockEnabled>>
       /\ \A asset \in {"stx", "other", "nft"} : Drop(asset) = 0
       /\ pendingOperations' # pendingOperations =>
            \E i \in DOMAIN pendingOperations :
              /\ JustExecuted(i) /\ pendingOperations[i].type = "sbtc-withdraw"
              /\ pendingOperations' = [pendingOperations EXCEPT ![i].executed = TRUE]]_cvars

\* The core, and with it every wallet that logs to it, changes hands only to an
\* admin proposed a cooldown earlier (propose-admin, confirm-admin,
\* cancel-admin-transfer).
AdminLock == INSTANCE Timelock WITH
  MinWait <- AdminCooldown, Unset <- NoKey, NoProposal <- NoKey, Harmless <- {},
  height <- burnHeight, current <- contractAdmin, proposal <- pendingAdmin,
  since <- adminProposedAt
AdminIsTimelocked == AdminLock!Spec
=============================================================================
