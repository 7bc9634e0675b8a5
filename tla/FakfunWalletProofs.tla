------------------------ MODULE FakfunWalletProofs -------------------------
(***************************************************************************)
(* Proofs about the trading wallet: its queue, its initialisation, its     *)
(* extensions and the registry that approves them, for every bound and     *)
(* every set of principals, extensions and markets.                        *)
(***************************************************************************)
EXTENDS FakfunWallet, JuiceSafeProofs

-----------------------------------------------------------------------------
(* Which steps touch which part of the state.                               *)

\* The calls shared with the safe are steps of the safe.
LEMMA SafeSteps ==
  ASSUME AsInTheSafe
  PROVE  Next /\ UNCHANGED <<initVars, listVars, burnHeight>>
<1>1. UNCHANGED <<initVars, listVars>>
  BY DEF AsInTheSafe
<1>2. CASE Spending \/ Staking
  BY <1>1, <1>2 DEF Next, Spending, StxTransfer, Sip010Transfer, Sip009Transfer,
    SbtcInitiateWithdrawal, Spend, SendUncapped, Staking, StakeStxJuice,
    UpdateStakeStxJuice, Unstake, LockStx
<1>3. CASE PolicyChange
  BY <1>1, <1>3 DEF Next, PolicyChange, ProposeMaxGasAmount, SignalConfigChange,
    ConfirmMaxGasAmount, SetWalletConfig, ToggleTokenLock
<1>4. CASE \E i \in 1 .. MaxOps, c \in Calls : VetoOperation(i, c)
  BY <1>1, <1>4 DEF Next, Settling, VetoOperation
<1>5. CASE ProposalsAndRecovery
  BY <1>1, <1>5 DEF ProposalsAndRecovery, Next, Handover, Recovery, ProposeTransferWallet,
    ProposeRecovery, ConfirmRecovery, RecoverInactiveWallet
<1>6. QED
  BY <1>2, <1>3, <1>4, <1>5 DEF AsInTheSafe, PolicyAndVeto

\* The calls of its own change neither the policy nor the height.
OwnStep ==
  \/ Initialisation \/ ExtensionStep \/ MarketStep \/ RegistryStep
  \/ \E i \in 1 .. MaxOps, type \in OpTypes, u \in Users : FExecutePending(type, i, u)
  \/ \E c \in PasskeyCalls : FConfirmTransferWallet(c)

LEMMA OwnSteps ==
  ASSUME OwnStep
  PROVE  UNCHANGED <<burnHeight, configVars>>
<1>1. CASE Initialisation
  BY <1>1 DEF Initialisation, FOnboard, AcceptAdminProposal, ProposeAdminWithSignature,
    VetoPendingInit, ConfirmAdminWithSignature, InitStep
<1>2. CASE ExtensionStep
  BY <1>2 DEF ExtensionStep, WhitelistExtension, ListAtOnce, RemoveExtensionWhitelist,
    ExtensionCall, ExtensionCallLeaving, ExecutePendingWhitelist
<1>3. CASE MarketStep
  BY <1>3 DEF MarketStep, FaktoryCall, FaktoryExecuteLimit, SmartCall, Trade, TradeFor
<1>4. CASE RegistryStep
  BY <1>4 DEF RegistryStep, vars
<1>5. CASE \/ \E i \in 1 .. MaxOps, type \in OpTypes, u \in Users : FExecutePending(type, i, u)
           \/ \E c \in PasskeyCalls : FConfirmTransferWallet(c)
  BY <1>5 DEF FExecutePending, FConfirmTransferWallet
<1>6. QED
  BY <1>1, <1>2, <1>3, <1>4, <1>5 DEF OwnStep

LEMMA StepsOfTheWallet ==
  ASSUME FNext
  PROVE  \/ (NextBlock \/ Unlock) /\ UNCHANGED <<initVars, listVars>>
         \/ AsInTheSafe
         \/ OwnStep
BY DEF FNext, OwnStep

-----------------------------------------------------------------------------
(* The registry of extensions.                                              *)

RegistryTyped ==
  /\ burnHeight \in Nat \ {0}
  /\ extensionRegistry \in [owner : Users, pendingOwner : Successors \cup {Nobody},
                            ownerProposedAt : Nat, approved : SUBSET ExtensionContracts,
                            pending : [ExtensionContracts -> Nat]]

\* The registry, and nobody else, changes its own data.
LEMMA RegistrySteps ==
  ASSUME FNext
  PROVE  /\ UNCHANGED extensionRegistry \/ ExtensionRegistry!Next
         /\ burnHeight' \in {burnHeight, burnHeight + 1}
<1>1. CASE (NextBlock \/ Unlock) /\ UNCHANGED <<initVars, listVars>>
  BY <1>1 DEF NextBlock, Unlock, listVars
<1>2. CASE AsInTheSafe
  BY <1>2, SafeSteps DEF listVars
<1>3. CASE OwnStep
  <2>1. burnHeight' = burnHeight
    BY <1>3, OwnSteps
  <2>2. CASE Initialisation
    BY <2>1, <2>2 DEF Initialisation, FOnboard, AcceptAdminProposal,
      ProposeAdminWithSignature, VetoPendingInit, ConfirmAdminWithSignature, InitStep, listVars
  <2>3. CASE ExtensionStep
    BY <2>1, <2>3 DEF ExtensionStep, WhitelistExtension, ListAtOnce,
      RemoveExtensionWhitelist, ExtensionCall, ExtensionCallLeaving,
      ExecutePendingWhitelist, listVars
  <2>4. CASE MarketStep
    BY <2>1, <2>4 DEF MarketStep, FaktoryCall, FaktoryExecuteLimit, SmartCall, Trade,
      TradeFor, listVars
  <2>5. CASE RegistryStep
    BY <2>1, <2>5 DEF RegistryStep
  <2>6. CASE \/ \E i \in 1 .. MaxOps, type \in OpTypes, u \in Users :
                  FExecutePending(type, i, u)
             \/ \E c \in PasskeyCalls : FConfirmTransferWallet(c)
    BY <2>1, <2>6 DEF FExecutePending, FConfirmTransferWallet, listVars
  <2>7. QED
    BY <1>3, <2>2, <2>3, <2>4, <2>5, <2>6 DEF OwnStep
<1>4. QED
  BY <1>1, <1>2, <1>3, StepsOfTheWallet

LEMMA RegistryStaysTyped == FSpec => []RegistryTyped
<1>1. FInit => RegistryTyped
  BY FakfunAssumption DEF FInit, Init, ExtensionRegistry!Init, RegistryTyped
<1>2. RegistryTyped /\ [FNext]_fvars => RegistryTyped'
  <2> SUFFICES ASSUME RegistryTyped, [FNext]_fvars
               PROVE  RegistryTyped'
    OBVIOUS
  <2>1. CASE UNCHANGED fvars
    BY <2>1 DEF fvars, vars, listVars, RegistryTyped
  <2>2. CASE FNext /\ UNCHANGED extensionRegistry
    BY <2>2, RegistrySteps DEF RegistryTyped
  <2>3. CASE FNext /\ ExtensionRegistry!Next
    <3>1. burnHeight \in Nat \ {0} /\ burnHeight' \in Nat \ {0}
      BY <2>3, RegistrySteps DEF RegistryTyped
    <3>2. PICK u \in Users :
            \/ \E x \in ExtensionContracts :
                 \/ ExtensionRegistry!Propose(x, u) \/ ExtensionRegistry!Confirm(x, u)
                 \/ ExtensionRegistry!RevokePending(x, u)
                 \/ ExtensionRegistry!RevokeExtension(x, u)
            \/ \E n \in Successors : ExtensionRegistry!ProposeOwner(n, u)
            \/ ExtensionRegistry!AcceptOwner(u)
      BY <2>3 DEF ExtensionRegistry!Next
    <3>3. CASE \E x \in ExtensionContracts :
                 \/ ExtensionRegistry!Propose(x, u) \/ ExtensionRegistry!RevokePending(x, u)
      BY <3>1, <3>3 DEF RegistryTyped, ExtensionRegistry!Propose,
        ExtensionRegistry!RevokePending
    <3>4. ASSUME NEW x \in ExtensionContracts,
                 \/ ExtensionRegistry!Confirm(x, u) \/ ExtensionRegistry!RevokeExtension(x, u)
          PROVE  RegistryTyped'
      <4> DEFINE r == extensionRegistry
      <4>1. /\ r.approved \cup {x} \in SUBSET ExtensionContracts
            /\ r.approved \ {x} \in SUBSET ExtensionContracts
            /\ [r.pending EXCEPT ![x] = 0] \in [ExtensionContracts -> Nat]
        BY DEF RegistryTyped
      <4>2. \/ r' = [r EXCEPT !.approved = r.approved \cup {x},
                              !.pending = [r.pending EXCEPT ![x] = 0]]
            \/ r' = [r EXCEPT !.approved = r.approved \ {x}]
        BY <3>4 DEF ExtensionRegistry!Confirm, ExtensionRegistry!RevokeExtension, RegistryTyped
      <4>3. QED
        BY <3>1, <4>1, <4>2 DEF RegistryTyped
    <3>5. CASE \/ \E n \in Successors : ExtensionRegistry!ProposeOwner(n, u)
               \/ ExtensionRegistry!AcceptOwner(u)
      BY <3>1, <3>5 DEF RegistryTyped, ExtensionRegistry!ProposeOwner,
        ExtensionRegistry!AcceptOwner
    <3>6. QED
      BY <3>2, <3>3, <3>4, <3>5
  <2>4. QED
    BY <2>1, <2>2, <2>3, RegistrySteps
<1>3. QED
  BY <1>1, <1>2, PTL DEF FSpec

LEMMA SettingKept ==
  ASSUME NEW x,
         (x \in extensionRegistry'.approved) = (x \in extensionRegistry.approved),
         extensionRegistry'.pending[x] = extensionRegistry.pending[x]
  PROVE  UNCHANGED ExtensionRegistry!Lock(x)!setting
BY Zenon DEF ExtensionRegistry!Lock!setting

LEMMA ApprovalSteps ==
  ASSUME RegistryTyped, ExtensionRegistry!Next, NEW x \in ExtensionContracts
  PROVE  ExtensionRegistry!Lock(x)!Next \/ UNCHANGED ExtensionRegistry!Lock(x)!setting
<1> USE DEF ExtensionRegistry!Lock!Next, ExtensionRegistry!Lock!setting
<1>1. PICK u \in Users :
        \/ \E y \in ExtensionContracts :
             \/ ExtensionRegistry!Propose(y, u) \/ ExtensionRegistry!Confirm(y, u)
             \/ ExtensionRegistry!RevokePending(y, u)
             \/ ExtensionRegistry!RevokeExtension(y, u)
        \/ \E n \in Successors : ExtensionRegistry!ProposeOwner(n, u)
        \/ ExtensionRegistry!AcceptOwner(u)
  BY DEF ExtensionRegistry!Next
<1>2. CASE UNCHANGED <<extensionRegistry.approved, extensionRegistry.pending>>
  BY <1>2, SettingKept
<1>3. ASSUME NEW y \in ExtensionContracts, ExtensionRegistry!Propose(y, u)
      PROVE  ExtensionRegistry!Lock(x)!Next \/ UNCHANGED ExtensionRegistry!Lock(x)!setting
  <2>1. /\ extensionRegistry'.approved = extensionRegistry.approved
        /\ extensionRegistry'.pending = [extensionRegistry.pending EXCEPT ![y] = burnHeight]
        /\ extensionRegistry.pending \in [ExtensionContracts -> Nat]
        /\ burnHeight # 0
    BY <1>3 DEF ExtensionRegistry!Propose, RegistryTyped
  <2>2. CASE x = y
    <3>1. extensionRegistry'.pending[x] = burnHeight
      BY <2>1, <2>2
    <3>2. QED
      BY <2>1, <3>1 DEF ExtensionRegistry!Lock!Propose
  <2>3. CASE x # y
    <3>1. /\ (x \in extensionRegistry'.approved) = (x \in extensionRegistry.approved)
          /\ extensionRegistry'.pending[x] = extensionRegistry.pending[x]
      BY <2>1, <2>3
    <3>2. QED
      BY <3>1, SettingKept
  <2>4. QED
    BY <2>2, <2>3
<1>4. ASSUME NEW y \in ExtensionContracts, ExtensionRegistry!Confirm(y, u)
      PROVE  ExtensionRegistry!Lock(x)!Next \/ UNCHANGED ExtensionRegistry!Lock(x)!setting
  <2>1. /\ extensionRegistry'.approved = extensionRegistry.approved \cup {y}
        /\ extensionRegistry'.pending = [extensionRegistry.pending EXCEPT ![y] = 0]
        /\ extensionRegistry.pending \in [ExtensionContracts -> Nat]
        /\ extensionRegistry.pending[y] # 0
        /\ burnHeight >= extensionRegistry.pending[y] + RegistryCooldown
    BY <1>4 DEF ExtensionRegistry!Confirm, RegistryTyped
  <2>2. CASE x = y
    <3>1. extensionRegistry'.pending[x] = 0 /\ x \in extensionRegistry'.approved
      BY <2>1, <2>2
    <3>2. QED
      BY <2>1, <2>2, <3>1 DEF ExtensionRegistry!Lock!Adopt
  <2>3. CASE x # y
    <3>1. /\ (x \in extensionRegistry'.approved) = (x \in extensionRegistry.approved)
          /\ extensionRegistry'.pending[x] = extensionRegistry.pending[x]
      BY <2>1, <2>3
    <3>2. QED
      BY <3>1, SettingKept
  <2>4. QED
    BY <2>2, <2>3
<1>5. ASSUME NEW y \in ExtensionContracts, ExtensionRegistry!RevokePending(y, u)
      PROVE  ExtensionRegistry!Lock(x)!Next \/ UNCHANGED ExtensionRegistry!Lock(x)!setting
  <2>1. /\ extensionRegistry'.approved = extensionRegistry.approved
        /\ extensionRegistry'.pending = [extensionRegistry.pending EXCEPT ![y] = 0]
        /\ extensionRegistry.pending \in [ExtensionContracts -> Nat]
    BY <1>5 DEF ExtensionRegistry!RevokePending, RegistryTyped
  <2>2. QED
    BY <2>1 DEF ExtensionRegistry!Lock!Cancel
<1>6. ASSUME NEW y \in ExtensionContracts, ExtensionRegistry!RevokeExtension(y, u)
      PROVE  ExtensionRegistry!Lock(x)!Next \/ UNCHANGED ExtensionRegistry!Lock(x)!setting
  <2>1. /\ extensionRegistry'.approved = extensionRegistry.approved \ {y}
        /\ extensionRegistry'.pending = extensionRegistry.pending
    BY <1>6 DEF ExtensionRegistry!RevokeExtension, RegistryTyped
  <2>2. CASE x = y
    <3>1. (x \in extensionRegistry'.approved) = FALSE
      BY <2>1, <2>2
    <3>2. extensionRegistry'.pending[x] = extensionRegistry.pending[x]
      BY <2>1
    <3>3. ExtensionRegistry!Lock(x)!MakeHarmless
      BY <3>1, <3>2, Zenon DEF ExtensionRegistry!Lock!MakeHarmless
    <3>4. QED
      BY <3>3
  <2>3. CASE x # y
    <3>1. /\ (x \in extensionRegistry'.approved) = (x \in extensionRegistry.approved)
          /\ extensionRegistry'.pending[x] = extensionRegistry.pending[x]
      BY <2>1, <2>3
    <3>2. QED
      BY <3>1, SettingKept
  <2>4. QED
    BY <2>2, <2>3
<1>7. CASE \/ \E n \in Successors : ExtensionRegistry!ProposeOwner(n, u)
           \/ ExtensionRegistry!AcceptOwner(u)
  BY <1>2, <1>7 DEF RegistryTyped, ExtensionRegistry!ProposeOwner,
    ExtensionRegistry!AcceptOwner
<1>8. QED
  BY <1>1, <1>3, <1>4, <1>5, <1>6, <1>7

\* Whatever the owner of the extension registry revokes, proposes again or
\* hands over, a contract is approved only a cooldown after its proposal
\* (propose-extension, confirm-extension, revoke-pending, revoke-extension,
\* accept-owner).
THEOREM ApprovalWaits == FSpec => ApprovalIsTimelocked
<1> DEFINE Waits == \A x \in ExtensionContracts :
                      \/ ExtensionRegistry!Lock(x)!Next
                      \/ UNCHANGED ExtensionRegistry!Lock(x)!setting
<1>1. RegistryTyped /\ FNext => Waits
  <2>1. UNCHANGED extensionRegistry => Waits
    BY DEF ExtensionRegistry!Lock!setting
  <2>2. RegistryTyped /\ ExtensionRegistry!Next => Waits
    BY ApprovalSteps
  <2>3. QED
    BY <2>1, <2>2, RegistrySteps
<1>2. RegistryTyped /\ [FNext]_fvars => [Waits]_fvars
  BY <1>1
<1>3. FSpec => [][Waits]_fvars
  BY <1>2, RegistryStaysTyped, PTL DEF FSpec
<1>4. QED
  BY <1>3 DEF ApprovalIsTimelocked
-----------------------------------------------------------------------------
(* The first owner.                                                         *)

\* An acceptance that counts is of the proposal that is pending.
AcceptanceInv ==
  /\ pendingInit \in [newAdmin : InitAdmins \cup {Nobody}, proposedAt : Nat, accepted : BOOLEAN]
  /\ pendingInit.accepted =>
       acceptance = [by |-> pendingInit.newAdmin, proposedAt |-> pendingInit.proposedAt]

\* Only the three steps of the initialisation and its veto touch it.
LEMMA InitSteps ==
  ASSUME FNext
  PROVE  UNCHANGED initVars \/ Initialisation
<1>1. CASE (NextBlock \/ Unlock) /\ UNCHANGED <<initVars, listVars>>
  BY <1>1
<1>2. CASE AsInTheSafe
  BY <1>2, SafeSteps
<1>3. CASE OwnStep
  <2>1. CASE ExtensionStep
    BY <2>1 DEF ExtensionStep, WhitelistExtension, ListAtOnce, RemoveExtensionWhitelist,
      ExtensionCall, ExtensionCallLeaving, ExecutePendingWhitelist
  <2>2. CASE MarketStep
    BY <2>2 DEF MarketStep, FaktoryCall, FaktoryExecuteLimit, SmartCall, Trade, TradeFor
  <2>3. CASE RegistryStep
    BY <2>3 DEF RegistryStep
  <2>4. CASE \/ \E i \in 1 .. MaxOps, type \in OpTypes, u \in Users :
                  FExecutePending(type, i, u)
             \/ \E c \in PasskeyCalls : FConfirmTransferWallet(c)
    BY <2>4 DEF FExecutePending, FConfirmTransferWallet
  <2>5. QED
    BY <1>3, <2>1, <2>2, <2>3, <2>4 DEF OwnStep
<1>4. QED
  BY <1>1, <1>2, <1>3, StepsOfTheWallet

LEMMA AcceptanceStays == FSpec => []AcceptanceInv
<1>1. FInit => AcceptanceInv
  BY DEF FInit, NoInit, AcceptanceInv
<1>2. RegistryTyped /\ AcceptanceInv /\ [FNext]_fvars => AcceptanceInv'
  <2> SUFFICES ASSUME RegistryTyped, AcceptanceInv, [FNext]_fvars
               PROVE  AcceptanceInv'
    OBVIOUS
  <2>1. CASE UNCHANGED initVars
    BY <2>1 DEF initVars, AcceptanceInv
  <2>2. ASSUME NEW u, FOnboard(u)
        PROVE  AcceptanceInv'
    BY <2>1, <2>2 DEF FOnboard
  <2>3. ASSUME NEW u, AcceptAdminProposal(u)
        PROVE  AcceptanceInv'
    BY <2>3 DEF AcceptAdminProposal, AcceptanceInv
  <2>4. ASSUME NEW n \in InitAdmins, NEW c, ProposeAdminWithSignature(n, c)
        PROVE  AcceptanceInv'
    BY <2>4 DEF ProposeAdminWithSignature, AcceptanceInv, RegistryTyped
  <2>5. ASSUME NEW c, VetoPendingInit(c) \/ ConfirmAdminWithSignature(c)
        PROVE  AcceptanceInv'
    <3>1. pendingInit' = [newAdmin |-> Nobody, proposedAt |-> 0, accepted |-> FALSE]
      BY <2>5 DEF VetoPendingInit, ConfirmAdminWithSignature, NoInit
    <3>2. QED
      BY <3>1 DEF AcceptanceInv
  <2>6. CASE UNCHANGED fvars
    BY <2>1, <2>6 DEF fvars
  <2>7. QED
    BY <2>1, <2>2, <2>3, <2>4, <2>5, <2>6, InitSteps DEF Initialisation
<1>3. QED
  BY <1>1, <1>2, RegistryStaysTyped, PTL DEF FSpec

LEMMA PasskeyCallsSpeak ==
  ASSUME NEW c, NEW enforce, ByPasskey(c, enforce)
  PROVE  PasskeySpoke
BY DEF ByPasskey, ConsumeSignature, PasskeySpoke

\* The first owner is seated by a passkey call after the whole cooldown and
\* accepted the very proposal that is confirmed: a veto and a new proposal
\* carry no acceptance over (propose-admin-with-signature,
\* accept-admin-proposal, veto-pending-init, confirm-admin-with-signature).
THEOREM FirstOwnerHasAccepted == FSpec => FirstOwnerAccepted
<1> DEFINE Accepted ==
      isInitialized' # isInitialized =>
        /\ PasskeySpoke
        /\ acceptance = [by |-> owner', proposedAt |-> pendingInit.proposedAt]
        /\ burnHeight >= acceptance.proposedAt + PubkeyCooldown
<1>1. AcceptanceInv /\ FNext => Accepted
  <2> SUFFICES ASSUME AcceptanceInv, FNext, isInitialized' # isInitialized
               PROVE  /\ PasskeySpoke
                      /\ acceptance = [by |-> owner', proposedAt |-> pendingInit.proposedAt]
                      /\ burnHeight >= acceptance.proposedAt + PubkeyCooldown
    OBVIOUS
  <2>1. Initialisation
    BY InitSteps DEF initVars
  <2>2. PICK c : ConfirmAdminWithSignature(c)
    BY <2>1 DEF Initialisation, FOnboard, AcceptAdminProposal, ProposeAdminWithSignature,
      VetoPendingInit, InitStep, initVars
  <2>3. PasskeySpoke
    BY <2>2, PasskeyCallsSpeak DEF ConfirmAdminWithSignature
  <2>4. /\ owner' = pendingInit.newAdmin /\ pendingInit.accepted
        /\ burnHeight >= pendingInit.proposedAt + PubkeyCooldown
    BY <2>2 DEF ConfirmAdminWithSignature, MayConfirm, SeatFirst
  <2>5. acceptance = [by |-> owner', proposedAt |-> pendingInit.proposedAt]
    BY <2>4 DEF AcceptanceInv
  <2>6. QED
    BY <2>3, <2>4, <2>5
<1>2. AcceptanceInv /\ [FNext]_fvars => [Accepted]_fvars
  BY <1>1
<1>3. QED
  BY <1>2, AcceptanceStays, PTL DEF FSpec, FirstOwnerAccepted

-----------------------------------------------------------------------------
(* The queue.                                                               *)

Listing == [type : {"whitelist-ext"}, extension : ExtensionContracts, amount : {0},
            maxFee : {0}, created : Nat, executeAfter : Nat, executed : BOOLEAN,
            vetoed : BOOLEAN]
FOperation == Operation \cup Listing

\* The cooldown in force stays within its bounds.
ConfigInv ==
  /\ burnHeight \in Nat \ {0}
  /\ walletConfig \in [stx : Nat, sbtc : Nat, cooldown : Nat, signaledAt : Nat]
  /\ pendingConfig \in Policy
  /\ walletConfig.cooldown \in MinCooldown .. MaxCooldown
  /\ walletConfig.signaledAt # 0 => pendingConfig.cooldown \in MinCooldown .. MaxCooldown

LEMMA ConfigSteps ==
  ASSUME FNext
  PROVE  UNCHANGED configVars \/ PolicyChange
<1>1. CASE (NextBlock \/ Unlock) /\ UNCHANGED <<initVars, listVars>>
  BY <1>1 DEF NextBlock, Unlock
<1>2. CASE AsInTheSafe
  BY <1>2, SafeSteps, PolicySteps DEF AsInTheSafe, PolicyAndVeto, ProposalsAndRecovery,
    Spending, StxTransfer, Sip010Transfer, Sip009Transfer, SbtcInitiateWithdrawal, Spend,
    SendUncapped, Staking, StakeStxJuice, UpdateStakeStxJuice, Unstake, LockStx,
    VetoOperation, Recovery, ProposeTransferWallet, ProposeRecovery, ConfirmRecovery,
    RecoverInactiveWallet
<1>3. CASE OwnStep
  BY <1>3, OwnSteps
<1>4. QED
  BY <1>1, <1>2, <1>3, StepsOfTheWallet

LEMMA ConfigStays == FSpec => []ConfigInv
<1> USE LimitsAssumption
<1>1. FInit => ConfigInv
  BY DEF FInit, Init, ConfigInv, Policy
<1>2. RegistryTyped /\ RegistryTyped' /\ ConfigInv /\ [FNext]_fvars => ConfigInv'
  <2> SUFFICES ASSUME RegistryTyped, RegistryTyped', ConfigInv, [FNext]_fvars
               PROVE  ConfigInv'
    OBVIOUS
  <2>1. burnHeight \in Nat \ {0} /\ burnHeight' \in Nat \ {0}
    BY DEF RegistryTyped
  <2>2. CASE UNCHANGED configVars
    BY <2>1, <2>2 DEF configVars, ConfigInv
  <2>3. ASSUME NEW f \in Configs, NEW u, SignalConfigChange(f, u)
        PROVE  ConfigInv'
    <3>1. f \in Policy /\ f.cooldown \in MinCooldown .. MaxCooldown
      BY <2>3, InputsAssumption DEF SignalConfigChange, LegalCooldown
    <3>2. /\ walletConfig' \in [stx : Nat, sbtc : Nat, cooldown : Nat, signaledAt : Nat]
          /\ walletConfig'.cooldown = walletConfig.cooldown
      BY <2>1, <2>3 DEF SignalConfigChange, ConfigInv
    <3>3. pendingConfig' = f
      BY <2>3 DEF SignalConfigChange
    <3>4. QED
      BY <2>1, <3>1, <3>2, <3>3 DEF ConfigInv
  <2>4. ASSUME NEW c, SetWalletConfig(c)
        PROVE  ConfigInv'
    <3>1. /\ walletConfig' = [stx |-> pendingConfig.stx, sbtc |-> pendingConfig.sbtc,
                              cooldown |-> pendingConfig.cooldown, signaledAt |-> 0]
          /\ pendingConfig' = [stx |-> 0, sbtc |-> 0, cooldown |-> 0]
          /\ pendingConfig \in Policy
          /\ pendingConfig.cooldown \in MinCooldown .. MaxCooldown
      BY <2>4 DEF SetWalletConfig, TimelockPassed, ConfigInv
    <3>2. QED
      BY <2>1, <3>1 DEF ConfigInv, Policy
  <2>5. ASSUME NEW c, \/ ConfirmMaxGasAmount(c) \/ \E e : ToggleTokenLock(e, c)
                      \/ \E a : ProposeMaxGasAmount(a, c)
        PROVE  ConfigInv'
    BY <2>2, <2>5 DEF ConfirmMaxGasAmount, ToggleTokenLock, ProposeMaxGasAmount
  <2>6. CASE UNCHANGED fvars
    BY <2>2, <2>6 DEF fvars, vars
  <2>7. QED
    BY <2>2, <2>3, <2>4, <2>5, <2>6, ConfigSteps DEF PolicyChange
<1>3. QED
  BY <1>1, <1>2, RegistryStaysTyped, PTL DEF FSpec

\* Whatever a step does to the queue, it appends one pending operation with the
\* delay in force, marks one executed after its delay, or vetoes one.
FAppended(op) ==
  /\ Len(pendingOperations) < MaxOps
  /\ pendingOperations' = Append(pendingOperations, op)
  /\ op \in FOperation /\ op.created = burnHeight
  /\ op.executeAfter = burnHeight + walletConfig.cooldown
  /\ ~op.executed /\ ~op.vetoed
FExecuted(i) ==
  /\ Payable(i) /\ CooldownPassed(pendingOperations[i])
  /\ pendingOperations' = [pendingOperations EXCEPT ![i].executed = TRUE]
FQueueStep == \/ UNCHANGED pendingOperations
              \/ \E op : FAppended(op)
              \/ \E i : FExecuted(i) \/ Vetoed(i)

LEMMA SpendAppends ==
  ASSUME ConfigInv, NEW asset, NEW type \in OpTypes, NEW amount \in Nat, NEW maxFee \in Nat,
         NEW memo \in Memos, NEW c, Spend(asset, type, amount, maxFee, memo, c)
  PROVE  FQueueStep
<1>1. CASE CreatePendingOperation(type, amount, maxFee, memo, c)
  <2> DEFINE op == [type |-> type, amount |-> amount, maxFee |-> maxFee, memo |-> memo,
                    created |-> burnHeight,
                    executeAfter |-> burnHeight + walletConfig.cooldown,
                    executed |-> FALSE, vetoed |-> FALSE,
                    passkeyCreated |-> (c.by = "passkey")]
  <2>1. op \in Operation
    BY DEF ConfigInv, Operation
  <2>2. FAppended(op)
    BY <1>1, <2>1 DEF CreatePendingOperation, FAppended, FOperation
  <2>3. QED
    BY <2>2 DEF FQueueStep
<1>2. QED
  BY <1>1 DEF Spend, FQueueStep

LEMMA SharedQueueSteps ==
  ASSUME ConfigInv, AsInTheSafe
  PROVE  FQueueStep
<1>1. CASE Spending
  <2>1. PICK c \in Calls :
          \/ \E m \in Memos :
               \/ \E a \in Amounts["stx"] : StxTransfer(a, m, c)
               \/ \E token \in {"sbtc", "other"} :
                    \E a \in Amounts[token] : Sip010Transfer(token, a, m, c)
          \/ \E w \in Withdrawals : SbtcInitiateWithdrawal(w.amount, w.maxFee, c)
          \/ Sip009Transfer(c)
    BY <1>1 DEF Spending
  <2>2. Amounts["stx"] \subseteq Nat /\ Amounts["sbtc"] \subseteq Nat /\ 0 \in Nat
    BY InputsAssumption
  <2>3. ASSUME NEW m \in Memos, NEW a \in Amounts["stx"], StxTransfer(a, m, c)
        PROVE  FQueueStep
    BY <2>2, <2>3, SpendAppends DEF StxTransfer, OpTypes
  <2>4. ASSUME NEW m \in Memos, NEW token \in {"sbtc", "other"}, NEW a \in Amounts[token],
               Sip010Transfer(token, a, m, c)
        PROVE  FQueueStep
    <3>1. CASE token = "sbtc" /\ Spend("sbtc", "sbtc-transfer", a, 0, m, c)
      BY <2>2, <3>1, SpendAppends DEF OpTypes
    <3>2. CASE token = "other" /\ SendUncapped("other", a, c)
      BY <3>2 DEF SendUncapped, FQueueStep
    <3>3. QED
      BY <2>4, <3>1, <3>2 DEF Sip010Transfer
  <2>5. ASSUME NEW w \in Withdrawals, SbtcInitiateWithdrawal(w.amount, w.maxFee, c)
        PROVE  FQueueStep
    <3>1. w.amount \in Nat /\ w.maxFee \in Nat
      BY InputsAssumption
    <3>2. QED
      BY <2>5, <3>1, SpendAppends DEF SbtcInitiateWithdrawal, OpTypes
  <2>6. Sip009Transfer(c) => FQueueStep
    BY DEF Sip009Transfer, SendUncapped, FQueueStep
  <2>7. QED
    BY <2>1, <2>3, <2>4, <2>5, <2>6
<1>2. CASE PolicyAndVeto
  <2>1. CASE \E i \in 1 .. MaxOps, c \in Calls : VetoOperation(i, c)
    BY <2>1 DEF VetoOperation, FQueueStep, Vetoed
  <2>2. CASE PolicyChange
    BY <2>2 DEF FQueueStep, PolicyChange, ProposeMaxGasAmount, SignalConfigChange,
      ConfirmMaxGasAmount, SetWalletConfig, ToggleTokenLock
  <2>3. QED
    BY <1>2, <2>1, <2>2 DEF PolicyAndVeto
<1>3. CASE ProposalsAndRecovery
  BY <1>3 DEF FQueueStep, ProposalsAndRecovery, Recovery, ProposeTransferWallet,
    ProposeRecovery, ConfirmRecovery, RecoverInactiveWallet
<1>4. CASE Staking
  BY <1>4 DEF FQueueStep, Staking, StakeStxJuice, UpdateStakeStxJuice, Unstake, LockStx
<1>5. QED
  BY <1>1, <1>2, <1>3, <1>4 DEF AsInTheSafe

LEMMA FQueueSteps ==
  ASSUME ConfigInv, FNext
  PROVE  FQueueStep
<1>1. CASE NextBlock \/ Unlock
  BY <1>1 DEF NextBlock, Unlock, FQueueStep
<1>2. CASE Initialisation
  BY <1>2 DEF FQueueStep, Initialisation, FOnboard, AcceptAdminProposal,
    ProposeAdminWithSignature, VetoPendingInit, ConfirmAdminWithSignature, InitStep
<1>3. ASSUME NEW e \in ExtensionContracts, NEW u, WhitelistExtension(e, u)
      PROVE  FQueueStep
  <2> DEFINE op == [type |-> "whitelist-ext", extension |-> e, amount |-> 0, maxFee |-> 0,
                    created |-> burnHeight,
                    executeAfter |-> burnHeight + walletConfig.cooldown,
                    executed |-> FALSE, vetoed |-> FALSE]
  <2>1. op \in Listing
    BY DEF ConfigInv, Listing
  <2>2. FAppended(op)
    BY <1>3, <2>1 DEF WhitelistExtension, FAppended, FOperation
  <2>3. QED
    BY <2>2 DEF FQueueStep
<1>4. ASSUME NEW i, NEW c, ExecutePendingWhitelist(i, c)
      PROVE  FQueueStep
  BY <1>4 DEF ExecutePendingWhitelist, FExecuted, FQueueStep
<1>5. ASSUME NEW e, NEW c, \/ ListAtOnce(e, c) \/ RemoveExtensionWhitelist(e, c)
                           \/ ExtensionCall(e, c)
      PROVE  FQueueStep
  BY <1>5 DEF FQueueStep, ListAtOnce, RemoveExtensionWhitelist, ExtensionCall,
    ExtensionCallLeaving
<1>6. CASE MarketStep
  BY <1>6 DEF FQueueStep, MarketStep, FaktoryCall, FaktoryExecuteLimit, SmartCall, Trade,
    TradeFor
<1>7. CASE RegistryStep
  BY <1>7 DEF FQueueStep, RegistryStep, vars
<1>8. ASSUME NEW i, NEW type, NEW u, FExecutePending(type, i, u)
      PROVE  FQueueStep
  BY <1>8 DEF FExecutePending, FExecuted, FQueueStep
<1>9. ASSUME NEW c, FConfirmTransferWallet(c)
      PROVE  FQueueStep
  BY <1>9 DEF FConfirmTransferWallet, FQueueStep
<1>10. CASE ExtensionStep
  BY <1>3, <1>4, <1>5, <1>10 DEF ExtensionStep
<1>11. QED
  BY <1>1, <1>2, <1>6, <1>7, <1>8, <1>9, <1>10, SharedQueueSteps DEF FNext

\* No operation, listings included, is both executed and vetoed, and each waits
\* the minimum cooldown at least.
FQueueInv ==
  /\ pendingOperations \in Seq(FOperation)
  /\ \A i \in DOMAIN pendingOperations :
       LET op == pendingOperations[i]
       IN  ~(op.executed /\ op.vetoed) /\ op.executeAfter >= op.created + MinCooldown

LEMMA FOperationFields ==
  ASSUME NEW op \in FOperation
  PROVE  /\ op.created \in Nat /\ op.executeAfter \in Nat
         /\ op.executed \in BOOLEAN /\ op.vetoed \in BOOLEAN
         /\ [op EXCEPT !.executed = TRUE] \in FOperation
         /\ [op EXCEPT !.vetoed = TRUE] \in FOperation
         /\ [op EXCEPT !.executed = TRUE].executed
         /\ [op EXCEPT !.vetoed = TRUE].vetoed
         /\ [op EXCEPT !.executed = TRUE].vetoed = op.vetoed
         /\ [op EXCEPT !.vetoed = TRUE].executed = op.executed
         /\ \A o \in {[op EXCEPT !.executed = TRUE], [op EXCEPT !.vetoed = TRUE]} :
              /\ o.created = op.created /\ o.executeAfter = op.executeAfter
              /\ CostOf(o) = CostOf(op)
<1>1. CASE op \in Operation
  BY <1>1 DEF Operation, FOperation, CostOf
<1>2. CASE op \in Listing
  BY <1>2 DEF Listing, FOperation, CostOf
<1>3. QED
  BY <1>1, <1>2 DEF FOperation

LEMMA FQueueStays == FSpec => []FQueueInv
<1>1. FInit => FQueueInv
  BY DEF FInit, Init, FQueueInv
<1>2. ConfigInv /\ FQueueInv /\ [FNext]_fvars => FQueueInv'
  <2> SUFFICES ASSUME ConfigInv, FQueueInv, [FNext]_fvars
               PROVE  FQueueInv'
    OBVIOUS
  <2>1. pendingOperations \in Seq(FOperation)
    BY DEF FQueueInv
  <2>2. CASE UNCHANGED pendingOperations
    BY <2>2 DEF FQueueInv
  <2>3. ASSUME NEW op, FAppended(op)
        PROVE  FQueueInv'
    <3>1. /\ pendingOperations' \in Seq(FOperation)
          /\ DOMAIN pendingOperations'
               = DOMAIN pendingOperations \cup {Len(pendingOperations) + 1}
          /\ \A i \in DOMAIN pendingOperations : pendingOperations'[i] = pendingOperations[i]
          /\ pendingOperations'[Len(pendingOperations) + 1] = op
      BY <2>1, <2>3 DEF FAppended
    <3>2. ~op.executed /\ op.executeAfter >= op.created + MinCooldown
      BY <2>3, LimitsAssumption DEF FAppended, ConfigInv
    <3>3. QED
      BY <3>1, <3>2 DEF FQueueInv
  <2>4. ASSUME NEW i \in DOMAIN pendingOperations, NEW op \in FOperation,
               pendingOperations' = [pendingOperations EXCEPT ![i] = op],
               ~(op.executed /\ op.vetoed), op.executeAfter >= op.created + MinCooldown
        PROVE  FQueueInv'
    BY <2>1, <2>4 DEF FQueueInv
  <2>5. ASSUME NEW i, FExecuted(i)
        PROVE  FQueueInv'
    <3> DEFINE op == [pendingOperations[i] EXCEPT !.executed = TRUE]
    <3>1. /\ i \in DOMAIN pendingOperations /\ pendingOperations[i] \in FOperation
          /\ ~pendingOperations[i].vetoed
          /\ pendingOperations' = [pendingOperations EXCEPT ![i] = op]
      BY <2>1, <2>5 DEF FExecuted, Payable
    <3>2. /\ op \in FOperation /\ op.vetoed = pendingOperations[i].vetoed
          /\ op.created = pendingOperations[i].created
          /\ op.executeAfter = pendingOperations[i].executeAfter
      BY <3>1, FOperationFields
    <3>3. op.executeAfter >= op.created + MinCooldown
      BY <3>1, <3>2 DEF FQueueInv
    <3> HIDE DEF op
    <3>4. QED
      BY <2>4, <3>1, <3>2, <3>3
  <2>6. ASSUME NEW i, Vetoed(i)
        PROVE  FQueueInv'
    <3> DEFINE op == [pendingOperations[i] EXCEPT !.vetoed = TRUE]
    <3>1. /\ i \in DOMAIN pendingOperations /\ pendingOperations[i] \in FOperation
          /\ ~pendingOperations[i].executed
          /\ pendingOperations' = [pendingOperations EXCEPT ![i] = op]
      BY <2>1, <2>6 DEF Vetoed
    <3>2. /\ op \in FOperation /\ op.executed = pendingOperations[i].executed
          /\ op.created = pendingOperations[i].created
          /\ op.executeAfter = pendingOperations[i].executeAfter
      BY <3>1, FOperationFields
    <3>3. op.executeAfter >= op.created + MinCooldown
      BY <3>1, <3>2 DEF FQueueInv
    <3> HIDE DEF op
    <3>4. QED
      BY <2>4, <3>1, <3>2, <3>3
  <2>7. CASE UNCHANGED fvars
    BY <2>2, <2>7 DEF fvars, vars
  <2>8. QED
    BY <2>2, <2>3, <2>5, <2>6, <2>7, FQueueSteps DEF FQueueStep
<1>3. QED
  BY <1>1, <1>2, ConfigStays, PTL DEF FSpec
-----------------------------------------------------------------------------
(* What the queue promises.                                                 *)

Ids == 1 .. MaxOps
Paid(op) == [op EXCEPT !.executed = TRUE]
Stopped(op) == [op EXCEPT !.vetoed = TRUE]
FStatus(op) == IF op.executed THEN "paid" ELSE IF op.vetoed THEN "vetoed" ELSE "pending"
AsPayment(op) == [status |-> FStatus(op), due |-> op.executeAfter, fromPasskey |-> TRUE,
                  cost |-> CostOf(op)]

LEMMA PaymentOf ==
  ASSUME NEW i \in Ids
  PROVE  FPayments[i] = IF i \in DOMAIN pendingOperations THEN AsPayment(pendingOperations[i]) ELSE Queue!Absent
BY DEF FPayments, Ids, AsPayment, FStatus, Queue!Absent

LEMMA NewPaymentOf ==
  ASSUME NEW i \in Ids
  PROVE  FPayments'[i] = IF i \in DOMAIN pendingOperations' THEN AsPayment(pendingOperations'[i]) ELSE Queue!Absent
BY DEF FPayments, Ids, AsPayment, FStatus, Queue!Absent

\* A step that rewrites one entry changes one payment at most.
LEMMA OnePayment ==
  ASSUME FQueueInv, NEW i \in DOMAIN pendingOperations, NEW op,
         pendingOperations' = [pendingOperations EXCEPT ![i] = op]
  PROVE  /\ \A j \in Ids \ {i} : FPayments'[j] = FPayments[j]
         /\ i \in Ids => /\ FPayments[i] = AsPayment(pendingOperations[i])
                         /\ FPayments'[i] = AsPayment(op)
<1>1. /\ DOMAIN pendingOperations' = DOMAIN pendingOperations /\ pendingOperations'[i] = op
      /\ \A j \in DOMAIN pendingOperations \ {i} :
           pendingOperations'[j] = pendingOperations[j]
  BY DEF FQueueInv
<1>2. QED
  BY <1>1, PaymentOf, NewPaymentOf

\* What a step may change of an entry is its status.
LEMMA NewStatus ==
  ASSUME NEW old, NEW new, NEW status,
         new.executeAfter = old.executeAfter, CostOf(new) = CostOf(old), FStatus(new) = status
  PROVE  AsPayment(new) = [AsPayment(old) EXCEPT !.status = status]
<1> DEFINE was == FStatus(old)  due == old.executeAfter  key == TRUE  cost == CostOf(old)
<1>1. /\ AsPayment(old) = [status |-> was, due |-> due, fromPasskey |-> key, cost |-> cost]
      /\ AsPayment(new) = [status |-> status, due |-> due, fromPasskey |-> key, cost |-> cost]
  BY Zenon DEF AsPayment
<1> HIDE DEF was, due, key, cost
<1>2. QED
  BY <1>1

\* A call appends one payment, settles one, or changes none of those the
\* abstract queue is asked about.
LEMMA QueueStepKeepsPromise ==
  ASSUME ConfigInv, FQueueInv, FNext
  PROVE  [Queue!Next]_FPayments
<1>0. pendingOperations \in Seq(FOperation)
  BY DEF FQueueInv
<1>1. CASE UNCHANGED pendingOperations
  BY <1>1 DEF FPayments
<1>2. ASSUME NEW op, FAppended(op)
      PROVE  Queue!Next
  <2> DEFINE i == Len(pendingOperations) + 1
  <2>1. /\ DOMAIN pendingOperations' = DOMAIN pendingOperations \cup {i}
        /\ i \notin DOMAIN pendingOperations
        /\ \A j \in DOMAIN pendingOperations : pendingOperations'[j] = pendingOperations[j]
        /\ pendingOperations'[i] = op
    BY <1>0, <1>2 DEF FAppended
  <2>2. i \in Ids
    BY <1>0, <1>2, LimitsAssumption DEF FAppended, Ids
  <2> HIDE DEF i
  <2>3. \A j \in Ids \ {i} : FPayments'[j] = FPayments[j]
    BY <2>1, PaymentOf, NewPaymentOf
  <2>4. FPayments[i] = Queue!Absent /\ FPayments'[i] = AsPayment(op)
    BY <2>1, <2>2, PaymentOf, NewPaymentOf
  <2>5. FPayments[i].status = "absent"
    BY <2>4 DEF Queue!Absent
  <2>6. FPayments'[i].status = "pending" /\ FPayments'[i].due = burnHeight + walletConfig.cooldown
    BY <1>2, <2>4 DEF FAppended, AsPayment, FStatus
  <2>7. burnHeight + walletConfig.cooldown \in burnHeight + MinCooldown .. burnHeight + MaxCooldown
    BY LimitsAssumption DEF ConfigInv
  <2>8. QED
    BY <2>2, <2>3, <2>5, <2>6, <2>7 DEF Queue!Next, Queue!Queue, Ids
<1>3. ASSUME NEW i, FExecuted(i)
      PROVE  [Queue!Next]_FPayments
  <2> DEFINE op == pendingOperations[i]
  <2>1. /\ i \in DOMAIN pendingOperations /\ op \in FOperation
        /\ ~op.executed /\ ~op.vetoed
        /\ pendingOperations' = [pendingOperations EXCEPT ![i] = Paid(op)]
    BY <1>0, <1>3 DEF FExecuted, Payable, Paid
  <2>2. /\ \A j \in Ids \ {i} : FPayments'[j] = FPayments[j]
        /\ i \in Ids => FPayments[i] = AsPayment(op) /\ FPayments'[i] = AsPayment(Paid(op))
    BY <2>1, OnePayment
  <2>3. CASE i \in Ids
    <3>1. /\ Paid(op).executed /\ Paid(op).executeAfter = op.executeAfter
          /\ CostOf(Paid(op)) = CostOf(op)
      BY <2>1, FOperationFields DEF Paid
    <3>2. AsPayment(Paid(op)) = [AsPayment(op) EXCEPT !.status = "paid"]
      <4>1. FStatus(Paid(op)) = "paid"
        BY <3>1, Zenon DEF FStatus
      <4>2. QED
        BY <3>1, <4>1, NewStatus
    <3>3. AsPayment(op).status = "pending" /\ AsPayment(op).due = op.executeAfter
      BY <2>1 DEF AsPayment, FStatus
    <3>4. burnHeight >= op.executeAfter
      BY <1>3 DEF FExecuted, CooldownPassed
    <3>5. QED
      BY <2>2, <2>3, <3>2, <3>3, <3>4
      DEF Queue!Next, Queue!PayWhenDue, Queue!Settle, Ids
  <2>4. CASE i \notin Ids
    <3>1. \A j \in Ids : FPayments'[j] = FPayments[j]
      BY <2>2, <2>4
    <3>2. UNCHANGED FPayments
      BY <3>1 DEF FPayments, Ids
    <3>3. QED
      BY <3>2
  <2>5. QED
    BY <2>3, <2>4
<1>4. ASSUME NEW i, Vetoed(i)
      PROVE  [Queue!Next]_FPayments
  <2> DEFINE op == pendingOperations[i]
  <2>1. /\ i \in DOMAIN pendingOperations /\ op \in FOperation /\ ~op.executed
        /\ pendingOperations' = [pendingOperations EXCEPT ![i] = Stopped(op)]
    BY <1>0, <1>4 DEF Vetoed, Stopped
  <2>2. /\ \A j \in Ids \ {i} : FPayments'[j] = FPayments[j]
        /\ i \in Ids => FPayments[i] = AsPayment(op) /\ FPayments'[i] = AsPayment(Stopped(op))
    BY <2>1, OnePayment
  <2>3. /\ Stopped(op).vetoed /\ Stopped(op).executed = op.executed
        /\ Stopped(op).executeAfter = op.executeAfter /\ CostOf(Stopped(op)) = CostOf(op)
    BY <2>1, FOperationFields DEF Stopped
  <2>4. AsPayment(Stopped(op)) = [AsPayment(op) EXCEPT !.status = "vetoed"]
    <3>1. ~Stopped(op).executed
      BY <2>1, <2>3, Zenon
    <3>2. FStatus(Stopped(op)) = "vetoed"
      BY <2>3, <3>1, Zenon DEF FStatus
    <3>3. QED
      BY <2>3, <3>2, NewStatus
  <2>5. CASE i \in Ids /\ ~op.vetoed
    <3>1. AsPayment(op).status = "pending"
      BY <2>1, <2>5 DEF AsPayment, FStatus
    <3>2. QED
      BY <2>2, <2>4, <2>5, <3>1 DEF Queue!Next, Queue!Veto, Queue!Settle, Ids
  <2>6. CASE i \notin Ids \/ op.vetoed
    <3>1. op.vetoed => AsPayment(op).status = "vetoed"
      BY <2>1 DEF AsPayment, FStatus
    <3>2. op.vetoed => AsPayment(Stopped(op)) = AsPayment(op)
      BY <2>4, <3>1 DEF AsPayment
    <3>3. \A j \in Ids : FPayments'[j] = FPayments[j]
      BY <2>2, <2>6, <3>2
    <3>4. UNCHANGED FPayments
      BY <3>3 DEF FPayments, Ids
    <3>5. QED
      BY <3>4
  <2>7. QED
    BY <2>5, <2>6
<1>5. QED
  BY <1>1, <1>2, <1>3, <1>4, FQueueSteps DEF FQueueStep

\* Everything the trading wallet queues, transfers and listings of extensions,
\* keeps the promise of PaymentQueue; nothing is paid before the minimum
\* cooldown (pending-operations, execute-pending-*, veto-operation).
THEOREM WalletImplementsPaymentQueue == FSpec => QueueKeepsPromise
<1>1. FInit => Queue!Init
  BY DEF FInit, Init, Queue!Init, Queue!Absent, FPayments
<1>2. ConfigInv /\ FQueueInv /\ [FNext]_fvars => [Queue!Next]_FPayments
  <2>1. UNCHANGED fvars => UNCHANGED FPayments
    BY DEF fvars, vars, FPayments
  <2>2. QED
    BY <2>1, QueueStepKeepsPromise
<1>3. QED
  BY <1>1, <1>2, ConfigStays, FQueueStays, PTL DEF FSpec, QueueKeepsPromise, Queue!Spec

-----------------------------------------------------------------------------
(* Listing an extension.                                                    *)

LEMMA ListingSteps ==
  ASSUME FNext, pubkeyInitialized
  PROVE  \/ whitelistedExtensions' \subseteq whitelistedExtensions
         \/ \E e, c : ListAtOnce(e, c)
         \/ \E i, c : ExecutePendingWhitelist(i, c)
<1>1. CASE (NextBlock \/ Unlock) /\ UNCHANGED <<initVars, listVars>>
  BY <1>1 DEF listVars
<1>2. CASE AsInTheSafe
  BY <1>2, SafeSteps DEF listVars
<1>3. CASE Initialisation
  BY <1>3 DEF Initialisation, FOnboard, AcceptAdminProposal, ProposeAdminWithSignature,
    VetoPendingInit, ConfirmAdminWithSignature, InitStep, listVars
<1>4. CASE ExtensionStep
  BY <1>4 DEF ExtensionStep, WhitelistExtension, RemoveExtensionWhitelist, ExtensionCall,
    ExtensionCallLeaving, listVars
<1>5. CASE MarketStep
  BY <1>5 DEF MarketStep, FaktoryCall, FaktoryExecuteLimit, SmartCall, Trade, TradeFor, listVars
<1>6. CASE RegistryStep
  BY <1>6 DEF RegistryStep
<1>7. CASE \/ \E i \in 1 .. MaxOps, type \in OpTypes, u \in Users : FExecutePending(type, i, u)
           \/ \E c \in PasskeyCalls : FConfirmTransferWallet(c)
  BY <1>7 DEF FExecutePending, FConfirmTransferWallet, listVars
<1>8. QED
  BY <1>1, <1>2, <1>3, <1>4, <1>5, <1>6, <1>7 DEF FNext

\* After onboard nobody lists an extension alone: it takes a passkey call, and
\* either the registry approved the contract or the admin queued the listing a
\* cooldown earlier and nobody vetoed it (whitelist-extension,
\* execute-pending-whitelist, whitelist-approved-extension, onboard).
THEOREM ListingTakesTwo == FSpec => ExtensionNeedsTwo
<1> DEFINE Queued(e) ==
      \E i \in DOMAIN pendingOperations :
        LET op == pendingOperations[i]
        IN  /\ JustExecuted(i) /\ op.type = "whitelist-ext" /\ op.extension = e
            /\ ~op.vetoed /\ burnHeight >= op.created + MinCooldown
    TakesTwo ==
      pubkeyInitialized => \A e \in whitelistedExtensions' \ whitelistedExtensions :
        /\ PasskeySpoke
        /\ \/ e \in extensionRegistry.approved
           \/ Queued(e)
<1>1. ConfigInv /\ FQueueInv /\ FNext => TakesTwo
  <2> SUFFICES ASSUME ConfigInv, FQueueInv, FNext, pubkeyInitialized,
                      NEW e \in whitelistedExtensions' \ whitelistedExtensions
               PROVE  PasskeySpoke /\ (e \in extensionRegistry.approved \/ Queued(e))
    OBVIOUS
  <2>1. ASSUME NEW x, NEW c, ListAtOnce(x, c)
        PROVE  PasskeySpoke /\ e \in extensionRegistry.approved
    BY <2>1, PasskeyCallsSpeak DEF ListAtOnce, IsApprovedExtension
  <2>2. ASSUME NEW i, NEW c, ExecutePendingWhitelist(i, c)
        PROVE  PasskeySpoke /\ Queued(e)
    <3> DEFINE op == pendingOperations[i]
    <3>1. PasskeySpoke
      BY <2>2, PasskeyCallsSpeak DEF ExecutePendingWhitelist
    <3>2. /\ i \in DOMAIN pendingOperations /\ ~op.executed /\ ~op.vetoed
          /\ op.type = "whitelist-ext" /\ burnHeight >= op.executeAfter
          /\ pendingOperations' = [pendingOperations EXCEPT ![i] = Paid(op)]
          /\ whitelistedExtensions' = whitelistedExtensions \cup {op.extension}
      BY <2>2 DEF ExecutePendingWhitelist, Payable, CooldownPassed, Paid
    <3>3. op \in FOperation /\ op.executeAfter >= op.created + MinCooldown
      BY <3>2 DEF FQueueInv
    <3>4. op.extension = e
      BY <3>2
    <3>5. burnHeight >= op.created + MinCooldown
      <4>1. /\ op.executeAfter \in Nat /\ op.created \in Nat /\ burnHeight \in Nat
            /\ MinCooldown \in Nat
        BY <3>3, FOperationFields, LimitsAssumption DEF ConfigInv
      <4>2. QED
        BY <3>2, <3>3, <4>1
    <3>6. JustExecuted(i)
      <4>1. pendingOperations'[i] = Paid(op)
        BY <3>2
      <4>2. Paid(op).executed
        BY <3>3, FOperationFields DEF Paid
      <4>3. QED
        BY <3>2, <4>1, <4>2 DEF JustExecuted
    <3>7. QED
      BY <3>1, <3>2, <3>4, <3>5, <3>6
  <2>3. QED
    BY <2>1, <2>2, ListingSteps
<1>2. ConfigInv /\ FQueueInv /\ [FNext]_fvars => [TakesTwo]_fvars
  BY <1>1
<1>3. FSpec => [][TakesTwo]_fvars
  BY <1>2, ConfigStays, FQueueStays, PTL DEF FSpec
<1>4. QED
  BY <1>3 DEF ExtensionNeedsTwo
=============================================================================
