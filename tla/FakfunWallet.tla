---------------------------- MODULE FakfunWallet ----------------------------
(***************************************************************************)
(* contracts/fakfun-wallet-v19.clar with the two registries it consults.   *)
(*                                                                         *)
(* Policy, gas, lock, transfers, staking, veto, recovery and the proposal  *)
(* of a transfer are the code of juice-safe-v9 and the actions of          *)
(* JuiceSafe.  The wallet's own are its initialisation in three steps, the *)
(* extensions that may spend without limit, the markets, queued payments   *)
(* that only the admin settles, and a handover with one guard less.        *)
(* Not all of its calls refresh the inactivity clock.                      *)
(***************************************************************************)
EXTENDS JuiceSafe

CONSTANTS
  ExtensionContracts,   \* contracts somebody wants whitelisted
  SeedExtensions,       \* whitelisted by onboard
  ListedExtensions,     \* approved in the extension registry at deployment
  Routers, ListedRouters,
  RegistryOwner, Successors,
  RegistryCooldown,     \* COOLDOWN of the registries
  PubkeyCooldown,       \* pubkey-cooldown-period
  InitAdmins,           \* principals named by propose-admin-with-signature
  TradeAmounts,         \* amounts a market may take
  Expiries,             \* expiry-burn-block of limit orders
  MaxBalance            \* bound: what the wallet may come to hold by trading, in all

ASSUME FakfunAssumption ==
  /\ SeedExtensions \subseteq ExtensionContracts /\ ListedExtensions \subseteq ExtensionContracts
  /\ ListedRouters \subseteq Routers
  /\ InitAdmins \subseteq Principals \ {Nobody} /\ RegistryOwner \in Users
  /\ RegistryCooldown \in Nat /\ PubkeyCooldown \in Nat /\ MaxBalance \in Nat
  /\ TradeAmounts \subseteq Nat

VARIABLES
  isInitialized,
  pendingInit,            \* pending-init-admin; proposedAt = 0: none
  whitelistedExtensions,
  extensionRegistry, routerRegistry,
  acceptance              \* history: who last accepted which proposal

initVars == <<isInitialized, pendingInit, acceptance>>
listVars == <<whitelistedExtensions, extensionRegistry, routerRegistry>>
fvars == <<vars, initVars, listVars>>

ExtensionRegistry == INSTANCE ApprovalRegistry WITH
  Contracts <- ExtensionContracts, Seeds <- ListedExtensions, Callers <- Users,
  FirstOwner <- RegistryOwner, NoOwner <- Nobody, Cooldown <- RegistryCooldown,
  Revocable <- TRUE, height <- burnHeight, registry <- extensionRegistry
RouterRegistry == INSTANCE ApprovalRegistry WITH
  Contracts <- Routers, Seeds <- ListedRouters, Callers <- Users, Successors <- {},
  FirstOwner <- RegistryOwner, NoOwner <- Nobody, Cooldown <- RegistryCooldown,
  Revocable <- FALSE, height <- burnHeight, registry <- routerRegistry

NoInit == [newAdmin |-> Nobody, proposedAt |-> 0, accepted |-> FALSE]
FInit ==
  /\ Init
  /\ isInitialized = FALSE /\ pendingInit = NoInit
  /\ acceptance = [by |-> Nobody, proposedAt |-> 0]
  /\ whitelistedExtensions = {}
  /\ ExtensionRegistry!Init /\ RouterRegistry!Init
-----------------------------------------------------------------------------
(* Initialisation: the deployer registers the passkey for the placeholder   *)
(* seat; the passkey names an admin, who accepts; the passkey confirms.     *)

FOnboard(u) ==
  /\ u = Deployer
  /\ ~pubkeyInitialized
  /\ pubkeyToAdmin' = Nobody /\ pubkeyInitialized' = TRUE
  /\ whitelistedExtensions' = whitelistedExtensions \cup SeedExtensions
  /\ UNCHANGED <<burnHeight, lastActivityBlock, owner, admins, handoverVars, signatureVars,
                 configVars, gasLimitVars, tokenLockEnabled, moneyVars, pendingOperations,
                 initVars, extensionRegistry, routerRegistry>>

\* What the steps before the confirmation leave alone.
InitStep == UNCHANGED <<burnHeight, lastActivityBlock, seatVars, handoverVars, configVars,
                        gasLimitVars, tokenLockEnabled, pendingOperations, listVars,
                        isInitialized>>

ProposeAdminWithSignature(newAdmin, c) ==
  /\ ~isInitialized /\ pendingInit.proposedAt = 0
  /\ ByPasskey(c, TRUE) /\ PayGas(c.gas)
  /\ pendingInit' = [newAdmin |-> newAdmin, proposedAt |-> burnHeight, accepted |-> FALSE]
  /\ InitStep /\ UNCHANGED acceptance
AcceptAdminProposal(u) ==
  /\ ~isInitialized /\ pendingInit.proposedAt # 0
  /\ u = pendingInit.newAdmin
  /\ pendingInit' = [pendingInit EXCEPT !.accepted = TRUE]
  /\ acceptance' = [by |-> u, proposedAt |-> pendingInit.proposedAt]
  /\ InitStep /\ UNCHANGED <<signatureVars, moneyVars>>
VetoPendingInit(c) ==
  /\ ~isInitialized /\ pendingInit.proposedAt # 0
  /\ ByPasskey(c, TRUE) /\ PayGas(c.gas)
  /\ pendingInit' = NoInit
  /\ InitStep /\ UNCHANGED acceptance

SlipUnaccepted ==
  /\ ~isInitialized /\ pendingInit.proposedAt # 0
  /\ burnHeight >= pendingInit.proposedAt + PubkeyCooldown
MayConfirm ==
  /\ ~isInitialized /\ pendingInit.proposedAt # 0 /\ pendingInit.accepted
  /\ burnHeight >= pendingInit.proposedAt + PubkeyCooldown
SeatFirst(n) == admins' = (admins \ {Nobody}) \cup {n} /\ owner' = n
ConfirmAdminWithSignature(c) ==
  /\ MayConfirm
  /\ ByPasskey(c, TRUE) /\ PayGas(c.gas)
  /\ SeatFirst(pendingInit.newAdmin)
  /\ pubkeyToAdmin' = pendingInit.newAdmin
  /\ UpdateActivity
  /\ isInitialized' = TRUE /\ pendingInit' = NoInit
  /\ UNCHANGED <<burnHeight, pubkeyInitialized, handoverVars, configVars, gasLimitVars,
                 tokenLockEnabled, pendingOperations, acceptance, listVars>>
-----------------------------------------------------------------------------
(* Extensions.                                                              *)

\* whitelist-extension: the admin queues the listing.
WhitelistExtension(e, u) ==
  /\ ByAdmin(u)
  /\ Len(pendingOperations) < MaxOps
  /\ pendingOperations' = Append(pendingOperations,
       [type |-> "whitelist-ext", extension |-> e, amount |-> 0, maxFee |-> 0,
        created |-> burnHeight, executeAfter |-> burnHeight + walletConfig.cooldown,
        executed |-> FALSE, vetoed |-> FALSE])
  /\ UNCHANGED <<burnHeight, lastActivityBlock, seatVars, handoverVars, configVars,
                 gasLimitVars, tokenLockEnabled, moneyVars, initVars, listVars>>
\* execute-pending-whitelist: the passkey lets it take effect.
ExecutePendingWhitelist(i, c) ==
  /\ Payable(i) /\ pendingOperations[i].type = "whitelist-ext"
  /\ CooldownPassed(pendingOperations[i])
  /\ ByPasskey(c, TRUE) /\ PayGas(c.gas)
  /\ pendingOperations' = [pendingOperations EXCEPT ![i].executed = TRUE]
  /\ whitelistedExtensions' = whitelistedExtensions \cup {pendingOperations[i].extension}
  /\ UNCHANGED <<burnHeight, lastActivityBlock, seatVars, handoverVars, configVars,
                 gasLimitVars, tokenLockEnabled, initVars, extensionRegistry, routerRegistry>>

\* The registry stands in for the admin and for the wait.
SlipAnyExtension(e) == e \in ExtensionContracts
IsApprovedExtension(e) == e \in extensionRegistry.approved
ListAtOnce(e, c) ==
  /\ IsApprovedExtension(e)
  /\ ByPasskey(c, TRUE) /\ PayGas(c.gas)
  /\ whitelistedExtensions' = whitelistedExtensions \cup {e}
  /\ UpdateActivity
  /\ UNCHANGED <<burnHeight, seatVars, handoverVars, configVars, gasLimitVars,
                 tokenLockEnabled, pendingOperations, initVars, extensionRegistry,
                 routerRegistry>>

RemoveExtensionWhitelist(e, c) ==
  /\ Authorised(c) /\ PayGas(c.gas)
  /\ whitelistedExtensions' = whitelistedExtensions \ {e}
  /\ UNCHANGED <<burnHeight, lastActivityBlock, seatVars, handoverVars, configVars,
                 gasLimitVars, tokenLockEnabled, pendingOperations, initVars,
                 extensionRegistry, routerRegistry>>

\* with-all-assets-unsafe: the extension may take all of any asset not staked.
ExtensionCallLeaving(e, c, left) ==
  /\ e \in whitelistedExtensions
  /\ NotLockedOut(c) /\ Authorised(c) /\ UpdateActivity
  /\ spentThisPeriod' = SpentAfterGas(c.gas)
  /\ funds' = left
  /\ UNCHANGED <<burnHeight, seatVars, handoverVars, configVars, gasLimitVars,
                 tokenLockEnabled, pendingOperations, initVars, listVars>>
ExtensionCall(e, c) ==
  \E taken \in SUBSET Assets :
    ExtensionCallLeaving(e, c, [a \in DOMAIN funds |->
                                  IF a \in taken THEN 0 ELSE FundsAfterGas(c.gas)[a]])
-----------------------------------------------------------------------------
(* Markets: either factor, the token lock does not apply, and what is given *)
(* is bounded by the allowance of the call, not by the thresholds.          *)

Size(asset, amount) == IF asset = "nft" THEN 1 ELSE amount
TradeFor(given, received, amount, brought, c) ==
  LET held == FundsAfterGas(c.gas)
  IN  /\ Authorised(c) /\ UpdateActivity
      /\ \A a \in given : Size(a, amount) <= held[a]
      /\ funds' = [a \in DOMAIN held |->
                     held[a] - (IF a \in given THEN Size(a, amount) ELSE 0)
                             + (IF a = received THEN brought ELSE 0)]
      /\ funds'.stx + funds'.sbtc + funds'.other + funds'.nft <= MaxBalance
      /\ spentThisPeriod' = SpentAfterGas(c.gas)
      /\ UNCHANGED <<burnHeight, seatVars, handoverVars, configVars, gasLimitVars,
                     tokenLockEnabled, pendingOperations, initVars, listVars>>
Trade(given, received, amount, c) ==
  \E brought \in {0, Size(received, amount)} : TradeFor(given, received, amount, brought, c)

\* faktory-execute, -place-order, -process, -process-claim, -fee-airdrop,
\* -nft-execute and wager-deposit: what each may give and what it brings, if
\* anything, of one asset.
FaktoryTrades ==
  {<<{"sbtc"}, "other">>, <<{"other"}, "sbtc">>, <<{"sbtc", "other"}, "other">>,
   <<{}, "sbtc">>, <<{}, "other">>, <<{}, "nft">>,
   <<{"sbtc"}, "nft">>, <<{"other"}, "nft">>, <<{"nft"}, "other">>}
FaktoryCall(amount, c) == \E t \in FaktoryTrades : Trade(t[1], t[2], amount, c)
\* faktory-execute-limit: a relayed order, the one market call the lock stops.
FaktoryExecuteLimit(amount, expiry, c) ==
  /\ c.by = "passkey" /\ ~tokenLockEnabled /\ burnHeight <= expiry
  /\ Trade({"sbtc"}, "other", amount, c) \/ Trade({"other"}, "sbtc", amount, c)
\* smart-buy-sbtc, smart-buy-stx, smart-sell-sbtc, smart-sell-stx.
IsApprovedRouter(router) == router \in routerRegistry.approved
SmartCall(router, amount, c) ==
  /\ IsApprovedRouter(router)
  /\ \E coin \in {"sbtc", "stx"} : \/ Trade({coin}, "other", amount, c)
                                   \/ Trade({"other"}, coin, amount, c)
-----------------------------------------------------------------------------
(* What differs from the safe.                                              *)

\* execute-pending-{stx-transfer, sbtc-transfer, sbtc-withdrawal} refresh no
\* inactivity clock.
FExecutePending(type, i, u) ==
  LET op == pendingOperations[i]
  IN  /\ Payable(i) /\ op.type = type /\ CooldownPassed(op)
      /\ ByAdmin(u)
      /\ CostOf(op) <= funds[AssetOf(op)]
      /\ funds' = [funds EXCEPT ![AssetOf(op)] = @ - CostOf(op)]
      /\ pendingOperations' = [pendingOperations EXCEPT ![i].executed = TRUE]
      /\ UNCHANGED <<burnHeight, lastActivityBlock, seatVars, handoverVars, configVars,
                     gasLimitVars, tokenLockEnabled, spentThisPeriod, initVars, listVars>>

\* confirm-transfer-wallet seats the new admin, then deletes the owner's seat;
\* it does not ask whether the two are one.
FConfirmTransferWallet(c) ==
  /\ pendingTransfer # Nobody
  /\ ByPasskey(c, FALSE) /\ PayGas(c.gas)
  /\ pendingTransfer # Self
  /\ admins' = (admins \cup {pendingTransfer}) \ {owner}
  /\ owner' = pendingTransfer
  /\ pendingTransfer' = Nobody
  /\ UpdateActivity
  /\ UNCHANGED <<burnHeight, pubkeyInitialized, pubkeyToAdmin, recoveryAddress,
                 pendingRecovery, configVars, gasLimitVars, tokenLockEnabled,
                 pendingOperations, initVars, listVars>>
-----------------------------------------------------------------------------
Initialisation ==
  \/ \E u \in Users : FOnboard(u) \/ AcceptAdminProposal(u)
  \/ \E c \in PasskeyCalls :
       \/ \E n \in InitAdmins : ProposeAdminWithSignature(n, c)
       \/ VetoPendingInit(c) \/ ConfirmAdminWithSignature(c)
ExtensionStep ==
  \/ \E e \in ExtensionContracts :
       \/ \E u \in Users : WhitelistExtension(e, u)
       \/ \E c \in PasskeyCalls : ListAtOnce(e, c)
       \/ \E c \in Calls : RemoveExtensionWhitelist(e, c) \/ ExtensionCall(e, c)
  \/ \E i \in 1 .. MaxOps, c \in PasskeyCalls : ExecutePendingWhitelist(i, c)
MarketStep ==
  \E a \in TradeAmounts, c \in Calls :
    \/ FaktoryCall(a, c)
    \/ \E x \in Expiries : FaktoryExecuteLimit(a, x, c)
    \/ \E r \in Routers : SmartCall(r, a, c)
\* Calls whose code is that of juice-safe-v9: policy and veto, proposals and
\* recovery, transfers and staking.
PolicyAndVeto == PolicyChange \/ \E i \in 1 .. MaxOps, c \in Calls : VetoOperation(i, c)
ProposalsAndRecovery ==
  \/ \E n \in Candidates : \/ \E u \in Users : ProposeTransferWallet(n, u)
                           \/ \E c \in PasskeyCalls : ProposeRecovery(n, c)
  \/ \E u \in Users : ConfirmRecovery(u)
  \/ Recovery
AsInTheSafe ==
  /\ PolicyAndVeto \/ ProposalsAndRecovery \/ Spending \/ Staking
  /\ UNCHANGED <<initVars, listVars>>
RegistryStep ==
  /\ \/ ExtensionRegistry!Next /\ UNCHANGED routerRegistry
     \/ RouterRegistry!Next /\ UNCHANGED extensionRegistry
  /\ UNCHANGED <<vars, initVars, whitelistedExtensions>>
FNext ==
  \/ (NextBlock \/ Unlock) /\ UNCHANGED <<initVars, listVars>>
  \/ Initialisation \/ ExtensionStep \/ MarketStep \/ AsInTheSafe \/ RegistryStep
  \/ \E i \in 1 .. MaxOps, type \in OpTypes, u \in Users : FExecutePending(type, i, u)
  \/ \E c \in PasskeyCalls : FConfirmTransferWallet(c)
FSpec == FInit /\ [][FNext]_fvars
-----------------------------------------------------------------------------
(* Properties.                                                              *)

\* The first owner is seated by a passkey call, after the whole cooldown, and
\* accepted the very proposal that is confirmed: a veto and a new proposal
\* carry no acceptance over.
FirstOwnerAccepted ==
  [][isInitialized' # isInitialized =>
       /\ PasskeySpoke
       /\ acceptance = [by |-> owner', proposedAt |-> pendingInit.proposedAt]
       /\ burnHeight >= acceptance.proposedAt + PubkeyCooldown]_fvars

\* Nobody lists an extension alone: after onboard it takes a passkey call, and
\* either the owner of the registry approved the contract or the admin asked
\* for it a cooldown earlier and nobody vetoed.
ExtensionNeedsTwo ==
  [][pubkeyInitialized => \A e \in whitelistedExtensions' \ whitelistedExtensions :
       /\ PasskeySpoke
       /\ \/ e \in extensionRegistry.approved
          \/ \E i \in DOMAIN pendingOperations :
               LET op == pendingOperations[i]
               IN  /\ JustExecuted(i) /\ op.type = "whitelist-ext" /\ op.extension = e
                   /\ ~op.vetoed /\ burnHeight >= op.created + MinCooldown]_fvars

\* The queue, listings included, implements PaymentQueue: the wallet has no
\* countersigning, so everything waits.
FPayments ==
  [i \in 1 .. MaxOps |->
     IF i \in DOMAIN pendingOperations
     THEN LET op == pendingOperations[i]
          IN  [status |-> IF op.executed THEN "paid" ELSE IF op.vetoed THEN "vetoed" ELSE "pending",
               due |-> op.executeAfter, fromPasskey |-> TRUE, cost |-> CostOf(op)]
     ELSE [status |-> "absent", due |-> 0, fromPasskey |-> FALSE, cost |-> 0]]
Queue == INSTANCE PaymentQueue WITH
  Ids <- 1 .. MaxOps, MinWait <- MinCooldown, MaxWait <- MaxCooldown,
  height <- burnHeight, signatures <- usedAssertions, payments <- FPayments
QueueKeepsPromise == Queue!Spec

\* Whatever its owner revokes, proposes again or hands over, the extension
\* registry approves a contract only a cooldown after it was proposed.
ApprovalIsTimelocked ==
  [][\A x \in ExtensionContracts :
       \/ ExtensionRegistry!Lock(x)!Next
       \/ UNCHANGED ExtensionRegistry!Lock(x)!setting]_fvars

\* tests/rv/README.md:56 "once initialized, the owner is always in the admins map":
\* confirm-transfer-wallet sets the proposed owner's seat and deletes the present one's.
OwnerIsAdmin == isInitialized => owner \in admins
=============================================================================
