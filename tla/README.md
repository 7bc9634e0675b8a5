# A TLA+ verification of pillar-wallets-xyz

This directory models the contracts of this repository in TLA+, checks the
models with TLC on small instances and proves theorems about them with TLAPS.
It is written for a reader of the contracts: paths below are relative to the
repository.

## The system

The repository is a family of Clarity smart wallets for Stacks. A wallet has two
factors, an *admin key* (the transaction sender) and a *passkey* (a WebAuthn
assertion that any relay may submit), and guards its funds with thresholds,
queues, timelocks and an inactivity recovery. Around the wallets stand a wager
escrow, a staking signer and a few registries.

| Component | State it keeps | Operations | Status |
|---|---|---|---|
| `contracts/juice-safe-v9.clar`, two-factor safe | owner and admin seat, passkey, policy (thresholds, cooldown), gas limit, period counters, queued operations, used assertions, pending proposals, inactivity clock | transfers, queue / execute / countersign / veto, staking, signal / set configuration, propose / confirm gas limit, token lock, transfer, recovery, onboarding | modelled |
| `contracts/game-wager-v2.clar`, wager escrow | balances per passkey and token, games, fees, used signatures, registered wallets, rates | deposit, withdraw, register, create / resolve / cancel a game, setters, sweep | modelled |
| `contracts/external/juice-pool-stx-signer.clar`, staking signer | tranches (pot, paid, paid shares), payments recorded, fee and its proposal, exempt stakers | claim, pay in batches, sweep dust, fee timelock, setters, withdraw | modelled |
| `contracts/juice-autostake-safe.clar` | the safe's, plus keeper | the safe's, plus keeper change and restake | modelled |
| `contracts/fakfun-wallet-v19.clar` | the safe's, plus the initialisation proposal and the whitelisted extensions | the safe's (no countersigning), plus a three-step initialisation, listing, removing and calling extensions, market and router calls | modelled |
| `contracts/fakfun-wallet-core-v2.clar` | admin and its handover, verified hashes, whitelist, open access | propose / confirm / cancel, verify, list, register, log calls | modelled |
| `contracts/fakfun-extension-registry.clar`, `fakfun-smart-router-registry.clar` | pending and approved contracts, owner handover | propose, confirm, revoke, owner handover | modelled |
| `contracts/fakfun-extensions/usdcx-sbtc-swap-v2.clar` | sponsor fee and sponsor with proposals | swap, propose / confirm / cancel | modelled |
| `contracts/jing-mm-safe.clar`, `pillar-safe.clar`, `builders/deorgmedia/` | as the safe | as the safe, plus calls to external markets | not modelled |
| `contracts/clarity-5-webauthn-v4.clar`, auth helpers | none | verify an assertion, hash an operation | abstracted to constants |
| `simul-*.js`, simulations of the contracts on a fork of mainnet | none: a list of calls, the answers expected, readings and checks | replay | 45 plans replayed |
| older versions, `deployed/`, signing scripts, `tests/` | | | not modelled |

**How they interact.** A wallet registers itself at the core and logs to it from nearly every
entry point, inside `try!`: the core refuses to log for a wallet it does not admit, and
then the wallet's call fails. A wallet calls a gas station (any contract the caller names) to pay a relay,
pox-5 to stake, and tokens to pay. The trading wallet asks two registries which extensions and
routers are approved. The signer is called by pox-5 when a wallet
stakes and pays wallets their rewards. The escrow asks a wallet to vouch for a
passkey when a player registers it. All calls are synchronous and every Clarity
transaction is atomic: an error anywhere undoes all of it.

**What is hard.** There are no threads and no crashes. What interleaves are
transactions: of the admin, of any relay with any assertion it has seen (again,
late, against another operation), of the recovery address, the oracle, a
stranger, the deployer, the admin of the core. Time (burn blocks) passes between them, policy changes
between a proposal and its confirmation, counters are reset lazily by whoever
writes them next, fees round, and several ledgers share one balance.
`PROJECT.json` lists these hazards line by line with the properties for each.

## The modules

| Module | What it models |
|---|---|
| `JuiceSafe` | `juice-safe-v9.clar`: one action per public function; the guard is its asserts, the primed variables its writes |
| `JuiceSafeHistory` | the same with history variables: which factors have acted, what left unqueued in which block, the loosest policy so far |
| `PaymentQueue` | abstract: what a wallet promises of the payments it queues |
| `Timelock` | abstract: what a two-step setting promises |
| `JuiceSafeRefinement` | the mappings of the safe to `PaymentQueue` and (twice) to `Timelock` |
| `WalletCore` | `fakfun-wallet-core-v2.clar`: who is admin, which templates are verified, which wallets are admitted |
| `SafeUnderCore` | the safe composed with the core: which calls need the core, and that `onboard` registers; its mapping of the core's admin to `Timelock` |
| `AutostakeSafe` | `juice-autostake-safe.clar`: the actions of `JuiceSafe` with what they do to the keeper and the lock, plus `set-keeper`, `restake` and the reward cycles of pox-5 |
| `FakfunWallet` | `fakfun-wallet-v19.clar`: extends `JuiceSafe`, takes over the actions whose code is the same, and composes the wallet with two instances of `ApprovalRegistry` |
| `ApprovalRegistry` | `fakfun-extension-registry.clar`, and without the revocation `fakfun-smart-router-registry.clar` |
| `GameWager` | `game-wager-v2.clar` |
| `StxSigner` | `juice-pool-stx-signer.clar`, with the part of pox-5 it sees, and its mapping to `Timelock` |
| `SwapExtension` | `usdcx-sbtc-swap-v2.clar`: the swap, its fee, and the two-step settings of fee and sponsor |
| `SimSteps` | what a simulation script is made of: a step with its sender, arguments, signatures, gas and expected answer; readings; signatures of `lib-webauthn-test-signer.mjs` |
| `SimWager`, `SimSafe`, `SimSafeVersions`, `SimOperations`, `SimAutostake`, `SimGas`, `SimFixes`, `SimTrading`, `SimMarkets` | the scripts, by what they simulate, and what each checks at its end |
| `SimPlans` | which script runs on which wallet |
| `Simulation` | replays the scripts on the composition of all the models above |
| `MC...` | constant values for TLC, and the specifications with fairness |
| `JuiceSafeProofs`, `JuiceSafeHistoryProofs`, `JuiceSafeRefinementProofs` (also of `SafeUnderCore`), `AutostakeSafeProofs`, `FakfunWalletProofs`, `GameWagerProofs`, `StxSignerProofs` | theorems and proofs |
| `SumTheorems` | what the proofs need to know of sums over finite sets |

**Conventions.** A successful call is one step; a call that returns an error is
a step that is not enabled. Variables carry the contract's names in camel case
(`pending-operations` is `pendingOperations`); maps are functions, an entry that
may be missing is a model value (`NoKey`, `NoWallet`, `Unpaid`) or a 0 the code
uses in the same way (`signaledAt`). Contracts number operations and games
from 0, sequences from 1. The sender of a transaction is the last parameter (`u`) or
part of the call record `c`, which says by which factor the call is authorised
and which gas fee it names. Definitions named `Slip...` are the plausible
mistakes that the mutants of `PROJECT.json` put in place of the definition that
follows them; no specification uses them.

**Abstractions of the safe.** An assertion is a model value; `Signs` says for
which operation hashes the WebAuthn helper accepts it. The hash is not tied to
the arguments of a call: any relay may submit any signed hash with any operation,
which over-approximates the binding of the arguments and keeps what the safe
itself checks (replay of the hash, replay of the assertion, the seat of the
passkey). `InitialFunds` bounds the money; tokens without a threshold are one
balance "other", NFTs one balance "nft", and staked STX is a fifth balance that
pox-5 unlocks at any time and whose refusals (a lock already running, the prepare phase) are left out: `JuiceSafe` may
stake where pox-5 would not. A gas station takes a fee of `GasFees`; that it cannot
re-enter as the wallet rests on `OneSeat` (the wallet is no admin of its own),
which is checked and proved. As a caller like any other it could submit another assertion to another entry point while it is being
paid; in the model such a call is a step of its own before or after, not inside the call. `OutflowAccounted` takes the
fee of a call from what its gas counter shows (`GasCounted`), so the cap on the counter (`GasFuse`) is a cap on
the sats taken. Recipients and printing are left out, and so are log calls:
`JuiceSafe` is the safe while the core admits it.

**The safe under its core.** `SafeUnderCore` takes the log calls in. A call that logs is enabled only while the core
admits the safe (`WithCore`). Without the core remain the calls of `WithoutCore`: withdrawals of sBTC within the
threshold, the settling of queued withdrawals by either path, and the gas limit. In particular a safe the core has
unlisted cannot veto, transfer, change policy, stake, be handed over or be recovered, which README.md:62 ("Inactive wallets
can be recovered after a 1-year dormancy window") does not say; without the escape `~Admitted` in `RecoveryTakesOver`
TLC finds the silent safe that is unlisted and stays with its owner. The core is modelled for one wallet and one
template, since no code of it reads two entries together; `CodeHash` is the hash of a contract's code. The keeper's
safe and the trading wallet log in the same way; their models are those wallets while the core admits them.

**The safe with a keeper.** `juice-autostake-safe.clar` is `juice-safe-v9.clar` with a keeper,
its reset in `confirm-transfer-wallet` and `recover-inactive-wallet`, and the two calls `set-keeper`
and `restake`; nothing else in the shared functions differs, so `AutostakeSafe`
extends `JuiceSafe` and conjoins the rest. Where `JuiceSafe` lets the stake unlock at any time,
`AutostakeSafe` counts reward cycles: pox-5 keeps the end of the lock, accepts an
extension that runs at least into the next cycle and at most `NUM-CYCLES`, and an
unstake ends the lock with the current cycle (the comment above `restake`). Each cycle ends with a prepare phase
(`preparing`, entered by `PreparePhase`, left by `NextCycle`), in which pox-5 refuses an extension
(README-juice-autostake-safe-review.md:42, tests/juice-autostake-safe-keeper.test.ts:548). The repository does not say whether
it also refuses the first stake or an unstake there, so these stay enabled in both phases.
`exitCycle`, `namedUnder` and `ownerCall` are history variables.

**The trading wallet.** `fakfun-wallet-v19.clar` shares most of its functions with
`juice-safe-v9.clar` up to the helper that hashes the operation and the arguments of log calls;
those are the actions of `JuiceSafe`. `FakfunWallet` adds what is its own: the deployer registers the
passkey for the placeholder principal, the passkey names an admin, the admin accepts, the passkey
confirms or vetoes; extensions are listed through the queue or through the registry, and then spend
without a limit (`ExtensionCall` takes all of any set of assets); delayed execution does not refresh the
inactivity clock; `confirm-transfer-wallet` lacks an assertion. A market call gives at most its allowance
and brings the same amount of at most one asset or nothing, whatever the market; the price is not modelled.
An extension that calls back into the wallet is nobody the wallet knows: its sender is the
wallet, which holds no seat. `acceptance` is a history variable. The registries share the wallet's clock;
each of their calls is a step in which the wallet does nothing.

**Abstractions of the escrow.** A signature is its message; any player may have
signed any message. The token is a ledger per account with the SIP-010 checks.
A wallet's answer to the vouching call is the constant `Vouches`. `FirstOracle` is the oracle the
contract is deployed with, who need not be the deployer.

**Abstractions of the signer.** A payment list is the set of stakers in it: a
second mention is skipped by the contract as already paid. Every block is a distribution cycle.
Shares of a reward cycle can be changed by staking and unstaking until it begins
and are fixed afterwards (README-pox5-staking-sims.md).

**The simulations.** A `simul-*.js` script sends a fork of mainnet a list of calls, states the answer it
expects to each, takes readings and compares them at its end. `Simulation` composes the models on one burn
chain (staking ties the wallet to the signer's shares and payments, the swap extension is called through the
wallet's `extension-call`) and runs each script on them:

* A step is the contract function called (`op`), its sender (`by`), arguments, signed authorisations, gas, and
  the answer expected. `Perform` hands it to the action of the model; the signature must be one of the
  registered key, for a relying party the contract lists, over the very message the contract rebuilds
  from the call and its own state (`Genuine`), so a wrong argument, another key or another site is refused as in the contract.
* A call whose action is enabled is performed. If the script expects it to be refused, `RunsAsSimulated`
  is violated. A call that is not enabled but is expected to be accepted stops the script, which TLC reports as a deadlock.
* A refusal names an error code, and `Grounds` says which guard that code stands for; the property asks that this
  guard fails. Where a script accepts any error the ground is not checked.
* Where a script states changes of balances (`Moving`) or compares readings (`Checks`), so does the property.

Steps that deploy contracts are the initial state. Amounts are scaled so that one unit is what the script tells apart:
whole STX and sats, rewards in thousands of sats, tokens in millions, USDCx in thousandths, quotes of a market chosen such
that the next sale of the script is possible. What a fork of mainnet holds besides (the pool's real stakers, its height
within a reward cycle) is part of the script's actors; reward cycle 142 of the scripts is cycle 1.
Several contracts are older versions of the ones modelled, and their scripts run where the two agree:
up to v4 `onboard` of the safe takes no cooldown (the default is used) and there is no shortest cooldown; v7 does not bind the memo
of a countersigned payment; v10 and v11 of the trading wallet have no gas counters to read. Left out of the scripts are
the confirmations the admin made unsigned (gas limit up to v4 of the safe and up to v14 of the trading wallet),
v6's refusal of a burn address as recovery, the fee-less first version of the swap extension, the unfixed controls
that `simul-juice-safe-memo-binding.js` runs beside the fixed contracts, and the phase that
prints challenges for a human to sign. Further, since the models do not have what these steps are about:

* scenario K of `simul-juice-autostake-safe.js` (a second copy of the safe onboards against the canonical hash, a tampered
  one is refused): `Simulation` runs wallets the core admits, `SafeUnderCore` models the hash check; for the same reason each
  script's `set-verified-contract` at the core;
* sBTC sent to pox-5 and `calculate-rewards`, which are part of the claim step they lead up to; the funding of gas stations and other
  contracts, `register-self` and other steps of deployment; advances of the chain whose only purpose is to keep the
  fork out of a prepare phase;
* checks of names, texts, hashes and events (memos and calldata that are printed, the signer named by `staker-info`,
  equality of contract hashes), and of what accounts other than the wallet receive (the sponsor of a swap; a recipient's
  balance is read as the wallet's loss);
* the refusal that step G6 of the gas-limit script expects is replayed as such, where the script itself accepts any answer.

## What the runs check

| Run | What it shows |
|---|---|
| `juice_money` | Every outflow (STX staked or not, sBTC) is within the period's threshold and counted, or a queued operation that waited or was countersigned, or gas (`OutflowAccounted`); the lock holds the passkey (`LockHoldsPasskey`); gas is capped (`GasFuse`); the queue implements `PaymentQueue`, through vetoes and both ways of settling |
| `juice_policy` | Policy and gas limit implement `Timelock` and stay in bounds (`PolicyLegal`); the queue implements `PaymentQueue` while the cooldown changes: a queued payment keeps the block it is due at; no factor alone changes owner, recovery, policy or gas limit (`NeitherFactorAlone`) nor settles a queued payment with the passkey only; at most two thresholds leave unqueued in any stretch of one cooldown |
| `juice_handover` | One seat through all handovers and recoveries (`OneSeat`); the passkey speaks for the owner only; every call refreshes the inactivity clock; one gesture authorises one call |
| `core` | A safe the core does not admit can only withdraw sBTC and set its gas limit (`UnlistedSafeOnlyWithdraws`); the core changes hands only after the whole wait of the proposal that is confirmed (`AdminIsTimelocked`); a listed safe that stays silent, whatever its factors left behind, ends up with the owner the recovery address names (`RecoveryTakesOver`) |
| `autostake` | STX that was unstaked is free at the next cycle whatever the keeper calls; the keeper goes with the owner who named them and is no activity that holds off a recovery |
| `fakfun` | The first owner accepted the very proposal that is confirmed after the cooldown (`FirstOwnerAccepted`); no extension is listed by one party (`ExtensionNeedsTwo`); the queue, listings included, implements `PaymentQueue`; approval in the registry implements `Timelock` through revocations and handovers |
| `fakfun_seat` | *Violation.* tests/rv/README.md:56 says that once the wallet is initialized the owner is always in `admins` (of v2; :287 records the defect as fixed in a sibling). In v19 a transfer proposed between two recoveries and confirmed after the second, to who is the owner by then, empties `admins` |
| `wager_escrow` | Pots go to the two players and the fees whatever rates apply by then; payouts reach the registered wallet; every game ends |
| `wager_concurrent` | With concurrent games, rounding, rate changes and sweeps the escrow holds exactly what it owes; each game consumed two fresh signatures |
| `signer_tranches` | Every unit of sBTC is accounted for; nobody is recorded as paid without being paid their part; sweeps take rounding dust only; the fee implements `Timelock` |
| `simulation` | Each simulation script runs as it says on the models with the constants of the deployed contracts (`RunsAsSimulated`, below) |
| `signer_rerun` | *Violation.* README-pox5-staking-sims.md:307 says the payment script is safe to re-run; a run before the claim records stakers as paid nothing |

One more disagreement needs no run: README.md:173 promises a refund of a wager by anybody "after a 12-hour timeout", and
`GAME_TIMEOUT` is 144 burn blocks (contracts/game-wager-v2.clar:10), about a day.

**Bounds.** Instances are two or three people, two or three assertions, one or
two payments, three to six blocks with cooldowns of one or two. Amounts are chosen
around the threshold (below, equal, above) and rates so that fees round. The
periods matter only relative to each other, so a minimum cooldown of 1, a
maximum of 2 and an inactivity of 1 to 3 blocks keep every order of expiries
that 144, 4032 and 52560 blocks give. Two games and two tranches are enough for one to interfere with another; no action
involves three. The safe and the trading wallet queue one operation (`MaxOps = 1`) in the runs about money and policy:
TLC races every way of settling it against vetoes, policy changes and handovers, but not two queued operations against each
other. That no operation disturbs another is proved, for every `MaxOps` (`SafeImplementsPaymentQueue`, `WalletImplementsPaymentQueue`).
`MaxHeight`, `MaxOps`, `MaxGames`, `Tranches` and `Horizon` are bounds on the
exploration, not of the contracts; the runs stop there, hence `CHECK_DEADLOCK FALSE`. `simulation` has no such
bounds: its constants are the contracts' own (144, 4032 and 52560 blocks, 10,000 sats, 96 cycles), and deadlock is checked.

In `fakfun` three assertions are enough to initialise the wallet (two) and to hand it over, list or veto (one);
`x1` is an extension nobody approved at deployment, so the seeds of `onboard` are empty there. `Expiries`,
`TradeAmounts` and `MaxBalance` bound the markets. `fakfun_seat` needs four assertions (two to initialise, one for the
recovery address, one to confirm) and two inactivities.

Assertions and hashes are interchangeable where both are symmetric in `Signs`, so
the larger runs use the permutations that map `Signs` to itself (`Gestures`) as symmetry;
the properties of these runs are invariants and action properties, for which that is sound.
In `core` the admin of the core is the deployer of the safe and may hand over to the recovery key or back; they verify the
template by its own hash, drop it, list, unlist and open access at any time. Two withdrawals
in one period are enough for one that leaves at once and one that is queued, vetoed or settled.
The keeper's run has one person as keeper who can also become owner, a lock of two
cycles and four cycles: enough to stake, leave, be restaked in between and stake again.

**Fairness.** Contracts schedule nothing; somebody has to call. The liveness
properties assume that the burn chain grows (`WF_vars(NextBlock)`), and that the one person the
property is about keeps calling while the call would succeed: the holder of the
recovery address in `RecoverySpec` (run `core`, while the core admits the safe), any stranger in `DesertedSpec`. Nobody else has to act: in
`RecoverySpec` everybody may act at any time (an act that breaks the silence starts the wait anew, which the
property allows), in `DesertedSpec` up to `Horizon`. So these properties say that nothing the
others leave behind can stop that person.

## What is proved

For every value of the constants allowed by the named assumptions:

* `JuiceSafeProofs`: `TypeCorrect`, `SeatsAreSound`, `PasskeySilencedByHandover`,
  `PolicyStaysLegal`, `QueueStaysSound`. `OneSeat` is inductive together with the types: each
  handover replaces the seat it removes. `PasskeySilencedByHandover` follows from
  it, because a passkey is accepted only when the principal it maps to is in `admins = {owner}`.
  `PolicyLegal` carries the bounds of pending proposals, which is what makes
  it inductive: the confirming calls check no bound. `QueueSound` needs `PolicyLegal`
  for the delay of an operation that is being queued.
* In the same module, of the money: `NothingLeavesUnaccounted`, `GasStaysFused`, `LockConfinesPasskey`,
  `GesturesAreSpentOnce`. `EveryStepIsAMoneyStep` says of every call what it does to funds, counters and queue, starting from
  the funds and counters the gas fee left; the rest is arithmetic about the counter that gas and spending share.
  `GesturesAreSpentOnce` needs that both sets of used signatures are finite (`GestureInv`) and that consuming one adds a new
  element to each.
* `JuiceSafeHistoryProofs`: `PasskeyNeverSettlesAlone`, `TwoFactors`, `TwoThresholdsAtMost`. None is inductive. `PasskeyQueueInv` adds that a queue only
  the passkey has touched holds passkey operations only; `FactorInv` says which factor stands behind each open proposal, so that the
  call that confirms it brings the other. `TwoThresholdsAtMost` is about what left unqueued in any stretch of blocks no longer than
  the shortest cooldown. `UnqueuedInv` follows the counter through its periods: what left after the block that began
  the running period is at most the counter, what left since one cooldown further back is at most the highest threshold more, and
  nothing leaves before `onboard` begins the first period. TLC confirmed it with the bounds of `juice_policy` before it was proved.
* `JuiceSafeRefinementProofs`: `SafeImplementsPaymentQueue`: every step of the
  safe is a step of `PaymentQueue` or leaves the payments alone; a new payment is due
  within the bounds by `PolicyLegal`, the delayed path waits for that block, the countersigned path the guard on the
  creating factor. `TakeoverNeedsSilence`: every call refreshes the clock and a takeover waits for it.
  `PolicyWaits`, `GasLimitWaits`: policy and gas limit implement `Timelock`. The delay is read from the policy in force when it is
  over, so the proof needs that this never is below the minimum (`PolicyLegal`) and that nothing is signalled before `onboard` sets it (`UnsignalledInv`);
  `PlaceholderAssumption` keeps
  the placeholder of the mapping apart from real settings.
* In the same module, of `SafeUnderCore`: `CoreOnlyWithholds`: the composition implements the safe alone, so every theorem
  above holds of a safe under any core; `CoreAdminWaits`: the core's admin implements `Timelock`; `UnlistedWithdrawsOnly`,
  from what each call that does not log leaves alone.
* `AutostakeSafeProofs`: `AutostakeTypeCorrect`, `UnstakeIsFinal`, `KeeperGoesWithOwner`,
  `KeeperHoldsOffNoRecovery`. A step is a step of the safe (then the lemmas of `JuiceSafeProofs` and
  `JuiceSafeRefinementProofs` apply) or one of `SetKeeper`, `Restake`, `PreparePhase`, `NextCycle`. `LeavingSafeLeaves` is not
  inductive; `LeavingSound` is: after an unstake the lock's end is the exit cycle, at most
  one ahead, which is exactly what the guard of `restake` refuses.
  Along the same split the promises of the safe carry over, although this contract is no refinement of it (`SetKeeper` is
  a call of its own): `KeeperDisturbsNoInvariant`, `KeeperMovesNothingOut`, `KeeperLeavesPasskeyItsLimits`, `KeeperSafeRefines`.
  The four steps leave seat, policy and queue alone, and are steps of the money that take gas at most. `TakeoverWaits` combines
  the guard of `recover-inactive-wallet` with `KeeperHoldsOffNoRecovery`: the wait before a takeover counts from the last call
  of anybody but the keeper.
* `FakfunWalletProofs`: `FirstOwnerHasAccepted`, `ListingTakesTwo`, `WalletImplementsPaymentQueue`, `ApprovalWaits`. `AcceptanceInv`: the
  acceptance on record is of the open proposal as long as its flag is set. `ConfigInv` bounds the cooldown, as `FQueueInv` then
  does the delays in the queue. `ApprovalWaits` rests on the registry dropping an open proposal when it approves or revokes.
* `GameWagerProofs`: `WagerTypeCorrect`, `PotIsDivided`, `StakesAreSignedOnce`, `WithdrawalsReachTheirWallet`, `EscrowIsSolvent`. Rates keep their caps and no
  balance, fee or ledger entry goes below zero; the lemmas say what each ending of a game does to its pot, and the caps on
  the rates bound the rounded fees; the two players of a game are different, so their messages are two new ones.
  `EscrowIsSolvent` adds up the ledger of finitely many players: each call changes one or two entries by what it moves in the pot,
  the fees and the sBTC of the contract.
* `StxSignerProofs`: `FeeWaits`: the fee of the signer implements `Timelock`. `SignerTypeCorrect`, `NoSatCreatedOrLost`,
  `TranchePaysItsPot`, `RecordedArePaid`, `SweptIsDust`, for finitely many stakers, cycles and tranches. They hold
  together or not at all: a balance stays non-negative because of the books of its tranche. `TrancheInv` is the inductive part:
  only cycles that have begun have a pot, a cycle's tranches are claimed in order, a tranche paid before its cycle began is
  marked as such, and for every other tranche what was paid is the sum of the parts of those on record, or the whole pot once it
  was swept. The bound on a sweep is that rounding takes less than one unit from each staker.
* `SumTheorems`: the library's theorems on induction take an operator as a parameter. `SetInduction` instead speaks of a
  collection of subsets and follows from a minimal element of the strict subset order. `SumIsCellSum` reads a
  sum of the community modules as a difference of two cardinalities, which no order of summing enters; from there, sums are
  monotone, additive, split in two parts, and change with one value by as much.

Only model-checked: liveness (`RecoveryTakesOver`, `EveryGameEnds`), which needs ENABLED, and `RunsAsSimulated`, which is about fixed
scripts. The hash functions and the WebAuthn helper are not modelled below the level of which assertion is accepted for
which hash.

## Not modelled

* `jing-mm-safe.clar`, `pillar-safe.clar` and the wallet of `builders/deorgmedia`: siblings of the modelled safe with the same
  queue, policy and handover. What is their own is calls to markets outside the repository.
* `clarity-5-webauthn-v4.clar` and the auth helpers below the level of which assertion verifies for which message.
* Scripts on wallets older than the ones above (`simul-fakfun-v2-*.js`, `simul-jing-mm-safe*.js`, `simul-pillar-safe*.js`), scripts that
  probe what mainnet holds, and scripts that sign or deploy.
* Under `tests/`, unit and fuzz tests of the same contracts.

## Plan

1. Done: `JuiceSafe` with its refinements, its core and their proofs, `AutostakeSafe`, `GameWager`, `StxSigner`, `FakfunWallet` with
   the registries, `SwapExtension`, the simulations.
2. Done: the proofs of the sums (escrow, staking rewards, what a passkey spends unqueued).
3. Done: the promises of the safe proved of the keeper's safe. Next: the types of the trading wallet, and its passkey under lock and cap.
4. The fee and the sponsor of `SwapExtension` against `Timelock` (the simulation replays them only); the keeper's safe and the
   trading wallet under the core.
