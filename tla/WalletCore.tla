----------------------------- MODULE WalletCore -----------------------------
(***************************************************************************)
(* contracts/fakfun-wallet-core-v2.clar: which wallets the ecosystem       *)
(* admits.  A wallet registers itself when its code has the hash the core's *)
(* admin verified for the template it names; the admin may list and unlist *)
(* any wallet, or admit all.  A wallet that is not admitted may not log,   *)
(* and the wallets call the core to log in the middle of their calls.      *)
(***************************************************************************)
EXTENDS Integers

CONSTANTS
  Wallets,        \* contracts that register or are listed
  Templates,      \* contracts the admin verifies
  CodeHash,       \* contract-hash?: the hash of a contract's code
  CodeHashes,     \* hashes the admin may give
  NoHash,         \* none: no verified hash, or no hash given
  Callers,        \* principals that send transactions
  Successors,     \* principals named as the next admin
  FirstAdmin,     \* the deployer
  NoAdmin,        \* pending-admin is none
  AdminCooldown   \* ADMIN-COOLDOWN
VARIABLES
  burnHeight,
  contractAdmin, pendingAdmin, adminProposedAt,
  openAccess, whitelistedWallets, verifiedContracts

adminVars == <<contractAdmin, pendingAdmin, adminProposedAt>>
listVars == <<openAccess, whitelistedWallets, verifiedContracts>>
coreVars == <<adminVars, listVars>>

Init ==
  /\ contractAdmin = FirstAdmin /\ pendingAdmin = NoAdmin /\ adminProposedAt = 0
  /\ openAccess = FALSE /\ whitelistedWallets = {}
  /\ verifiedContracts = [t \in Templates |-> NoHash]

IsWhitelisted(w) == openAccess \/ w \in whitelistedWallets

SlipProposalKeepsClock(n, u) ==
  /\ u = contractAdmin
  /\ pendingAdmin' = n
  /\ adminProposedAt' = IF pendingAdmin = NoAdmin THEN burnHeight ELSE adminProposedAt
  /\ UNCHANGED <<contractAdmin, listVars>>
ProposeAdmin(n, u) ==
  /\ u = contractAdmin
  /\ pendingAdmin' = n /\ adminProposedAt' = burnHeight
  /\ UNCHANGED <<contractAdmin, listVars>>
\* The proposed admin confirms, whoever is admin by then.
ConfirmAdmin(u) ==
  /\ pendingAdmin # NoAdmin /\ u = pendingAdmin
  /\ burnHeight >= adminProposedAt + AdminCooldown
  /\ contractAdmin' = pendingAdmin /\ pendingAdmin' = NoAdmin /\ adminProposedAt' = 0
  /\ UNCHANGED listVars
CancelAdminTransfer(u) ==
  /\ u = contractAdmin
  /\ pendingAdmin' = NoAdmin /\ adminProposedAt' = 0
  /\ UNCHANGED <<contractAdmin, listVars>>

SetOpenAccess(open, u) ==
  /\ u = contractAdmin
  /\ openAccess' = open
  /\ UNCHANGED <<adminVars, whitelistedWallets, verifiedContracts>>
WhitelistWallet(w, allowed, u) ==
  /\ u = contractAdmin
  /\ whitelistedWallets' = IF allowed THEN whitelistedWallets \cup {w}
                                      ELSE whitelistedWallets \ {w}
  /\ UNCHANGED <<adminVars, openAccess, verifiedContracts>>

\* Without a hash the contract's own is verified.
SetVerifiedContract(t, hash, u) ==
  /\ u = contractAdmin
  /\ verifiedContracts' =
       [verifiedContracts EXCEPT ![t] = IF hash = NoHash THEN CodeHash[t] ELSE hash]
  /\ UNCHANGED <<adminVars, openAccess, whitelistedWallets>>
RemoveVerifiedContract(t, u) ==
  /\ u = contractAdmin
  /\ verifiedContracts' = [verifiedContracts EXCEPT ![t] = NoHash]
  /\ UNCHANGED <<adminVars, openAccess, whitelistedWallets>>

\* register-wallet, called by the contract w itself.
RegisterWallet(w, t) ==
  /\ verifiedContracts[t] # NoHash /\ CodeHash[w] = verifiedContracts[t]
  /\ whitelistedWallets' = whitelistedWallets \cup {w}
  /\ UNCHANGED <<adminVars, openAccess, verifiedContracts>>

AdminCall ==
  \E u \in Callers :
    \/ \E n \in Successors : ProposeAdmin(n, u)
    \/ ConfirmAdmin(u) \/ CancelAdminTransfer(u)
    \/ \E b \in BOOLEAN : SetOpenAccess(b, u) \/ \E w \in Wallets : WhitelistWallet(w, b, u)
    \/ \E t \in Templates :
         \/ \E h \in CodeHashes \cup {NoHash} : SetVerifiedContract(t, h, u)
         \/ RemoveVerifiedContract(t, u)
=============================================================================
