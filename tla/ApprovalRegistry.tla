-------------------------- MODULE ApprovalRegistry --------------------------
(***************************************************************************)
(* contracts/fakfun-extension-registry.clar, and, with Revocable = FALSE,  *)
(* fakfun-smart-router-registry.clar: an owner approves contracts in two   *)
(* steps, and hands the registry over in two steps.                        *)
(***************************************************************************)
EXTENDS Integers

CONSTANTS
  Contracts,    \* what may be proposed
  Seeds,        \* approved at deployment
  Successors,   \* principals named as the next owner
  Callers,      \* principals that send transactions
  FirstOwner,   \* the deployer
  NoOwner,      \* no pending-owner
  Cooldown,     \* COOLDOWN
  Revocable     \* whether the registry has revoke-extension
VARIABLES
  height,       \* burn-block-height
  registry      \* the contract's data: pending[x] = 0 stands for no entry

Init ==
  registry = [owner |-> FirstOwner, pendingOwner |-> NoOwner, ownerProposedAt |-> 0,
              approved |-> Seeds, pending |-> [x \in Contracts |-> 0]]

Propose(x, u) ==
  /\ u = registry.owner
  /\ x \notin registry.approved
  /\ registry' = [registry EXCEPT !.pending[x] = height]

SlipProposalKept(x, u) ==
  /\ registry.pending[x] # 0
  /\ u = registry.owner
  /\ height >= registry.pending[x] + Cooldown
  /\ registry' = [registry EXCEPT !.approved = @ \cup {x}]
Confirm(x, u) ==
  /\ registry.pending[x] # 0
  /\ u = registry.owner
  /\ height >= registry.pending[x] + Cooldown
  /\ registry' = [registry EXCEPT !.approved = @ \cup {x}, !.pending[x] = 0]

RevokePending(x, u) ==
  /\ u = registry.owner
  /\ registry' = [registry EXCEPT !.pending[x] = 0]
\* It leaves a proposal alone, but there is none for what is approved.
RevokeExtension(x, u) ==
  /\ Revocable
  /\ u = registry.owner
  /\ registry' = [registry EXCEPT !.approved = @ \ {x}]

ProposeOwner(n, u) ==
  /\ u = registry.owner
  /\ registry' = [registry EXCEPT !.pendingOwner = n, !.ownerProposedAt = height]
AcceptOwner(u) ==
  /\ registry.pendingOwner # NoOwner /\ u = registry.pendingOwner
  /\ height >= registry.ownerProposedAt + Cooldown
  /\ registry' = [registry EXCEPT !.owner = u, !.pendingOwner = NoOwner]

Next ==
  \E u \in Callers :
    \/ \E x \in Contracts : \/ Propose(x, u) \/ Confirm(x, u)
                            \/ RevokePending(x, u) \/ RevokeExtension(x, u)
    \/ \E n \in Successors : ProposeOwner(n, u)
    \/ AcceptOwner(u)
-----------------------------------------------------------------------------
(* What a registry promises of one contract: approval takes a proposal and  *)
(* the cooldown, also after a revocation and whoever owns the registry by   *)
(* then; withdrawing it takes neither.  1 stands for approved or proposed, 0 *)
(* for neither; there is no state before the setting is installed (2).      *)

Lock(x) == INSTANCE Timelock WITH
  MinWait <- Cooldown, Unset <- 2, NoProposal <- 0, Harmless <- {0},
  current <- IF x \in registry.approved THEN 1 ELSE 0,
  proposal <- IF registry.pending[x] = 0 THEN 0 ELSE 1,
  since <- registry.pending[x]
=============================================================================
