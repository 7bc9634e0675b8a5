----------------------------- MODULE GameWager -----------------------------
(***************************************************************************)
(* The wager escrow of contracts/game-wager-v2.clar.  Players hold         *)
(* balances under their passkey; an oracle pairs two of them into a game   *)
(* they both signed for, their stakes leave the balances, and the oracle   *)
(* names the winner or the game is cancelled (by anybody after a timeout). *)
(* Withdrawals, cancellations and wins pay fees the deployer sweeps.       *)
(*                                                                         *)
(* Clarity transactions are atomic: an action is one successful call.      *)
(* A signature is what its SIP-018 hash binds: the message itself.  Any    *)
(* player may sign any message, and anybody may submit what was signed.    *)
(* Definitions named Slip... are plausible mistakes in the definition that *)
(* follows them, used by nothing.                                          *)
(***************************************************************************)
EXTENDS Integers, Sequences, FiniteSets, Functions

CONSTANTS
  Players,         \* passkey public keys
  Users,           \* principals that send transactions
  Wallets,         \* contract wallets a player may register
  Vouches,         \* <<wallet, player>>: wallet answers is-admin-pubkey with ok
  Self,            \* current-contract
  Deployer,
  FirstOracle,     \* oracle at deployment, a principal of its own
  NoWallet, NoWinner,
  Tokens,
  AuthIds,
  Amounts,         \* amounts deposited, wagered and withdrawn
  InitialTokens,   \* what every user holds of every token at first
  FeeBasis,        \* 10000: rates are per this
  FeeRates, WithdrawFeeRates,   \* rates the deployer may ask for
  MaxFeeRate,      \* 2000
  MaxWithdrawFeeRate,           \* 1000
  InitialFeeRate, InitialWithdrawFeeRate,
  GameTimeout,     \* GAME_TIMEOUT
  MaxHeight,       \* bound: the last burn block explored
  MaxGames         \* bound: games ever created

Accounts == Users \cup Wallets \cup {Self}

ASSUME AccountsAssumption ==
  /\ Deployer \in Users /\ FirstOracle \in Users /\ Self \notin Users \cup Wallets
  /\ Vouches \subseteq Wallets \X Players
  /\ NoWallet \notin Accounts /\ NoWinner \notin Players
  /\ IsFiniteSet(Players)   \* a public key is 33 bytes
ASSUME RatesAssumption ==
  /\ FeeBasis \in Nat \ {0}
  /\ MaxFeeRate \in 0 .. FeeBasis /\ MaxWithdrawFeeRate \in 0 .. FeeBasis
  /\ FeeRates \subseteq Nat /\ WithdrawFeeRates \subseteq Nat
  /\ InitialFeeRate \in 0 .. MaxFeeRate
  /\ InitialWithdrawFeeRate \in 0 .. MaxWithdrawFeeRate
ASSUME BoundsAssumption ==
  /\ Amounts \subseteq Nat /\ InitialTokens \in Nat
  /\ GameTimeout \in Nat /\ MaxHeight \in Nat /\ MaxGames \in Nat

VARIABLES
  burnHeight,
  oracle, treasury, feeRate, withdrawFeeRate, whitelistedTokens,
  balances,         \* [Players -> [Tokens -> Nat]]
  accumulatedFees,  \* [Tokens -> Nat]
  games,            \* game game-id is entry game-id + 1
  usedSignatures,   \* keyed on the message alone: the signer is not in the hash
  pubkeyWallet,     \* [Players -> wallet or NoWallet]
  ledger            \* external: the tokens' own balances, [Tokens -> [Accounts -> Nat]]

adminVars == <<oracle, treasury, feeRate, withdrawFeeRate, whitelistedTokens>>
escrowVars == <<balances, accumulatedFees, games>>
vars == <<burnHeight, adminVars, escrowVars, usedSignatures, pubkeyWallet, ledger>>

Game == [playerA : Players, playerB : Players, token : Tokens, wager : Nat,
         status : {"active", "resolved", "cancelled"},
         winner : Players \cup {NoWinner}, createdAt : Nat]

RegisterHash(authId, wallet) ==
  [topic |-> "register-wallet", authId |-> authId, wallet |-> wallet]
WithdrawHash(authId, amount, recipient, token) ==
  [topic |-> "withdraw", authId |-> authId, amount |-> amount,
   recipient |-> recipient, token |-> token]
WagerHash(authId, opponent, token, wager) ==
  [topic |-> "wager", authId |-> authId, opponent |-> opponent, token |-> token,
   wager |-> wager]

Fee(amount, rate) == (amount * rate) \div FeeBasis

Init ==
  /\ burnHeight = 1
  /\ oracle = FirstOracle /\ treasury = Deployer
  /\ feeRate = InitialFeeRate /\ withdrawFeeRate = InitialWithdrawFeeRate
  /\ whitelistedTokens = {}
  /\ balances = [p \in Players |-> [t \in Tokens |-> 0]]
  /\ accumulatedFees = [t \in Tokens |-> 0]
  /\ games = <<>> /\ usedSignatures = {}
  /\ pubkeyWallet = [p \in Players |-> NoWallet]
  /\ ledger = [t \in Tokens |-> [a \in Accounts |-> IF a \in Users THEN InitialTokens ELSE 0]]

NextBlock ==
  /\ burnHeight < MaxHeight
  /\ burnHeight' = burnHeight + 1
  /\ UNCHANGED <<adminVars, escrowVars, usedSignatures, pubkeyWallet, ledger>>

\* A SIP-010 transfer: a positive amount the sender holds, to somebody else.
Transfer(token, amount, from, to) ==
  /\ amount > 0 /\ from # to /\ amount <= ledger[token][from]
  /\ ledger' = [ledger EXCEPT ![token][from] = @ - amount, ![token][to] = @ + amount]

SlipReplayable(hashes) == usedSignatures' = usedSignatures \cup hashes
ConsumeSignatures(hashes) ==
  /\ hashes \cap usedSignatures = {}
  /\ usedSignatures' = usedSignatures \cup hashes

SlipCreditOverwrites(funds, player, token, amount) == [funds EXCEPT ![player][token] = amount]
CreditBalance(funds, player, token, amount) == [funds EXCEPT ![player][token] = @ + amount]
DebitBalance(funds, player, token, amount) == [funds EXCEPT ![player][token] = @ - amount]
-----------------------------------------------------------------------------
\* Anybody may credit any player.
Deposit(token, amount, player, u) ==
  /\ amount > 0 /\ token \in whitelistedTokens
  /\ Transfer(token, amount, u, Self)
  /\ balances' = CreditBalance(balances, player, token, amount)
  /\ UNCHANGED <<burnHeight, adminVars, accumulatedFees, games, usedSignatures, pubkeyWallet>>

RegisterWallet(player, wallet, authId) ==
  /\ ConsumeSignatures({RegisterHash(authId, wallet)})
  /\ <<wallet, player>> \in Vouches
  /\ pubkeyWallet' = [pubkeyWallet EXCEPT ![player] = wallet]
  /\ UNCHANGED <<burnHeight, adminVars, escrowVars, ledger>>

\* A registered wallet overrides the recipient the caller names.
SlipCallerPicks(player, recipient) == recipient
ActualRecipient(player, recipient) ==
  IF pubkeyWallet[player] = NoWallet THEN recipient ELSE pubkeyWallet[player]

Withdraw(player, token, amount, recipient, authId) ==
  LET to == ActualRecipient(player, recipient)
      fee == Fee(amount, withdrawFeeRate)
  IN  /\ amount > 0
      /\ ConsumeSignatures({WithdrawHash(authId, amount, to, token)})
      /\ amount <= balances[player][token]
      /\ balances' = DebitBalance(balances, player, token, amount)
      /\ accumulatedFees' = [accumulatedFees EXCEPT ![token] = @ + fee]
      /\ Transfer(token, amount - fee, Self, to)
      /\ UNCHANGED <<burnHeight, adminVars, games, pubkeyWallet>>

CreateGame(a, b, token, wager, idA, idB, u) ==
  /\ u = oracle
  /\ wager > 0 /\ a # b /\ token \in whitelistedTokens
  /\ ConsumeSignatures({WagerHash(idA, b, token, wager), WagerHash(idB, a, token, wager)})
  /\ wager <= balances[a][token] /\ wager <= balances[b][token]
  /\ balances' = DebitBalance(DebitBalance(balances, a, token, wager), b, token, wager)
  /\ Len(games) < MaxGames
  /\ games' = Append(games, [playerA |-> a, playerB |-> b, token |-> token,
                             wager |-> wager, status |-> "active", winner |-> NoWinner,
                             createdAt |-> burnHeight])
  /\ UNCHANGED <<burnHeight, adminVars, accumulatedFees, pubkeyWallet, ledger>>

SlipAnyStatus(i) == i \in DOMAIN games
Active(i) == i \in DOMAIN games /\ games[i].status = "active"

ResolveGame(i, winner, u) ==
  /\ Active(i) /\ u = oracle
  /\ LET game == games[i]
         pot == game.wager * 2
         fee == Fee(pot, feeRate)
     IN  /\ winner \in {game.playerA, game.playerB}
         /\ balances' = CreditBalance(balances, winner, game.token, pot - fee)
         /\ accumulatedFees' = [accumulatedFees EXCEPT ![game.token] = @ + fee]
  /\ games' = [games EXCEPT ![i].status = "resolved", ![i].winner = winner]
  /\ UNCHANGED <<burnHeight, adminVars, usedSignatures, pubkeyWallet, ledger>>

SlipOracleOnly(i, u) == u = oracle
MayCancel(i, u) == u = oracle \/ burnHeight > games[i].createdAt + GameTimeout

CancelGame(i, u) ==
  /\ Active(i) /\ MayCancel(i, u)
  /\ LET game == games[i]
         fee == Fee(game.wager, withdrawFeeRate)
         refund == game.wager - fee
     IN  /\ balances' = CreditBalance(CreditBalance(balances, game.playerA, game.token, refund),
                                      game.playerB, game.token, refund)
         /\ accumulatedFees' = [accumulatedFees EXCEPT ![game.token] = @ + fee * 2]
  /\ games' = [games EXCEPT ![i].status = "cancelled"]
  /\ UNCHANGED <<burnHeight, adminVars, usedSignatures, pubkeyWallet, ledger>>
-----------------------------------------------------------------------------
(* The deployer's setters.                                                  *)

SetOracle(newOracle, u) ==
  /\ u = Deployer /\ oracle' = newOracle
  /\ UNCHANGED <<burnHeight, treasury, feeRate, withdrawFeeRate, whitelistedTokens,
                 escrowVars, usedSignatures, pubkeyWallet, ledger>>
SlipFeeRateUncapped(rate, u) ==
  /\ u = Deployer /\ feeRate' = rate
  /\ UNCHANGED <<burnHeight, oracle, treasury, withdrawFeeRate, whitelistedTokens,
                 escrowVars, usedSignatures, pubkeyWallet, ledger>>
SetFeeRate(rate, u) ==
  /\ u = Deployer /\ rate <= MaxFeeRate /\ feeRate' = rate
  /\ UNCHANGED <<burnHeight, oracle, treasury, withdrawFeeRate, whitelistedTokens,
                 escrowVars, usedSignatures, pubkeyWallet, ledger>>
SetWithdrawFeeRate(rate, u) ==
  /\ u = Deployer /\ rate <= MaxWithdrawFeeRate /\ withdrawFeeRate' = rate
  /\ UNCHANGED <<burnHeight, oracle, treasury, feeRate, whitelistedTokens,
                 escrowVars, usedSignatures, pubkeyWallet, ledger>>
SetTreasury(newTreasury, u) ==
  /\ u = Deployer /\ treasury' = newTreasury
  /\ UNCHANGED <<burnHeight, oracle, feeRate, withdrawFeeRate, whitelistedTokens,
                 escrowVars, usedSignatures, pubkeyWallet, ledger>>
SetTokenWhitelist(token, enabled, u) ==
  /\ u = Deployer
  /\ whitelistedTokens' = IF enabled THEN whitelistedTokens \cup {token}
                                     ELSE whitelistedTokens \ {token}
  /\ UNCHANGED <<burnHeight, oracle, treasury, feeRate, withdrawFeeRate,
                 escrowVars, usedSignatures, pubkeyWallet, ledger>>
SweepFees(token, u) ==
  /\ u = Deployer /\ accumulatedFees[token] > 0
  /\ accumulatedFees' = [accumulatedFees EXCEPT ![token] = 0]
  /\ Transfer(token, accumulatedFees[token], Self, treasury)
  /\ UNCHANGED <<burnHeight, adminVars, balances, games, usedSignatures, pubkeyWallet>>
-----------------------------------------------------------------------------
Playing ==
  \/ \E t \in Tokens, n \in Amounts, p \in Players :
       \/ \E u \in Users : Deposit(t, n, p, u)
       \/ \E to \in Accounts, id \in AuthIds : Withdraw(p, t, n, to, id)
       \/ \E q \in Players, idA, idB \in AuthIds, u \in Users :
            CreateGame(p, q, t, n, idA, idB, u)
  \/ \E p \in Players, w \in Wallets, id \in AuthIds : RegisterWallet(p, w, id)
Ending ==
  \E i \in 1 .. MaxGames, u \in Users :
    (\E p \in Players : ResolveGame(i, p, u)) \/ CancelGame(i, u)
Administering ==
  \E u \in Users :
    \/ \E x \in Users : SetOracle(x, u) \/ SetTreasury(x, u)
    \/ \E r \in FeeRates : SetFeeRate(r, u)
    \/ \E r \in WithdrawFeeRates : SetWithdrawFeeRate(r, u)
    \/ \E t \in Tokens : SweepFees(t, u)
                         \/ \E enabled \in BOOLEAN : SetTokenWhitelist(t, enabled, u)
Next == NextBlock \/ Playing \/ Ending \/ Administering
Spec == Init /\ [][Next]_vars
-----------------------------------------------------------------------------
(* Properties.                                                              *)

\* Every variable keeps its shape; in particular no balance goes below zero.
TypeOK ==
  /\ burnHeight \in Nat
  /\ oracle \in Users /\ treasury \in Users
  /\ feeRate \in 0 .. MaxFeeRate /\ withdrawFeeRate \in 0 .. MaxWithdrawFeeRate
  /\ whitelistedTokens \subseteq Tokens
  /\ balances \in [Players -> [Tokens -> Nat]]
  /\ accumulatedFees \in [Tokens -> Nat]
  /\ games \in Seq(Game)
  /\ pubkeyWallet \in [Players -> Wallets \cup {NoWallet}]
  /\ ledger \in [Tokens -> [Accounts -> Nat]]

Staked(token) ==
  SumFunction([i \in DOMAIN games |->
                 IF Active(i) /\ games[i].token = token THEN games[i].wager * 2 ELSE 0])
Owed(token) == SumFunction([p \in Players |-> balances[p][token]])

\* The contract holds exactly what it owes: balances, the pots of the active
\* games and the unswept fees, whatever rounding, rate changes between the
\* creation and the end of a game, and sweeps do.
Solvent ==
  \A t \in Tokens : ledger[t][Self] = Owed(t) + Staked(t) + accumulatedFees[t]

\* Every game took two signatures nobody used before: a player's gesture is
\* staked in one game only, however often and by whom it is submitted.
TwoSignaturesPerGame ==
  Cardinality({h \in usedSignatures : h.topic = "wager"}) = 2 * Len(games)

\* A game ends once.  Its pot goes to its two players and the fees and nowhere
\* else: a win leaves the loser's balance alone and costs at most the highest
\* fee rate, a cancellation refunds both alike and costs at most the highest
\* withdrawal rate, whatever the rates were when the stakes were placed.
PotGoesToPlayers ==
  [][\A i \in DOMAIN games :
       LET game == games[i]
           Gain(p) == balances'[p][game.token] - balances[p][game.token]
           a == Gain(game.playerA)
           b == Gain(game.playerB)
           cut == accumulatedFees'[game.token] - accumulatedFees[game.token]
       IN  games'[i] # game =>
             /\ game.status = "active"
             /\ a + b + cut = 2 * game.wager /\ a >= 0 /\ b >= 0
             /\ \A p \in Players \ {game.playerA, game.playerB} : Gain(p) = 0
             /\ \/ /\ games'[i].status = "resolved" /\ (a = 0 \/ b = 0)
                   /\ cut * FeeBasis <= 2 * game.wager * MaxFeeRate
                \/ /\ games'[i].status = "cancelled" /\ a = b
                   /\ cut * FeeBasis <= 2 * game.wager * MaxWithdrawFeeRate]_vars

\* What leaves the contract goes to the treasury and empties the fees, or goes
\* out of the balance of one player: to the wallet that player registered, if
\* any, even when the submitter names another recipient.
PayoutFollowsRegistration ==
  [][\A t \in Tokens, q \in Accounts \ {Self} :
       ledger'[t][q] > ledger[t][q] =>
         \/ q = treasury /\ accumulatedFees'[t] = 0
         \/ \E p \in Players :
              /\ balances'[p][t] < balances[p][t]
              /\ pubkeyWallet[p] \in {q, NoWallet}]_vars
=============================================================================
