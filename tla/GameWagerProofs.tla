-------------------------- MODULE GameWagerProofs --------------------------
(***************************************************************************)
(* Proofs about the wager escrow, for every number of players, tokens,     *)
(* games and blocks, every fee rate under the caps and every timeout.      *)
(***************************************************************************)
EXTENDS GameWager, SumTheorems, SequenceTheorems, TLAPS

\* A fee rounds down and is never more than what it is taken from.
LEMMA FeeBounds ==
  ASSUME NEW n \in Nat, NEW rate \in Nat, NEW cap \in 0 .. FeeBasis, rate <= cap
  PROVE  /\ Fee(n, rate) \in Nat /\ Fee(n, rate) * FeeBasis <= n * cap
         /\ Fee(n, rate) <= n
<1> DEFINE q == Fee(n, rate)
<1>1. FeeBasis \in Nat /\ FeeBasis > 0 /\ n * rate \in Nat
  BY RatesAssumption
<1>2. q \in Nat /\ q * FeeBasis <= n * rate
  BY <1>1 DEF Fee
<1>3. n * rate <= n * cap /\ n * cap <= n * FeeBasis
  BY <1>1
<1>4. n * cap \in Nat /\ n * FeeBasis \in Nat /\ q * FeeBasis \in Nat
  BY <1>1, <1>2
<1>5. q * FeeBasis <= n * cap /\ q * FeeBasis <= n * FeeBasis
  BY <1>2, <1>3, <1>4
<1>6. q <= n
  <2> SUFFICES ASSUME q >= n + 1
               PROVE  FALSE
    BY <1>2
  <2>1. q * FeeBasis >= (n + 1) * FeeBasis
    BY <1>1, <1>2
  <2>2. (n + 1) * FeeBasis = n * FeeBasis + FeeBasis
    BY <1>1
  <2>3. QED
    BY <1>1, <1>4, <1>5, <2>1, <2>2
<1>7. QED
  BY <1>2, <1>5, <1>6

\* The rates in force take at most what they are taken from.
LEMMA FeesInForce ==
  ASSUME TypeOK, NEW n \in Nat
  PROVE  /\ Fee(n, feeRate) \in Nat /\ n - Fee(n, feeRate) \in Nat
         /\ Fee(n, feeRate) * FeeBasis <= n * MaxFeeRate
         /\ Fee(n, withdrawFeeRate) \in Nat /\ n - Fee(n, withdrawFeeRate) \in Nat
         /\ Fee(n, withdrawFeeRate) * FeeBasis <= n * MaxWithdrawFeeRate
<1>1. /\ feeRate \in Nat /\ feeRate <= MaxFeeRate /\ MaxFeeRate \in 0 .. FeeBasis
      /\ withdrawFeeRate \in Nat /\ withdrawFeeRate <= MaxWithdrawFeeRate
      /\ MaxWithdrawFeeRate \in 0 .. FeeBasis
  BY RatesAssumption DEF TypeOK
<1>2. /\ Fee(n, feeRate) \in Nat /\ Fee(n, feeRate) <= n
      /\ Fee(n, feeRate) * FeeBasis <= n * MaxFeeRate
  BY <1>1, FeeBounds
<1>3. /\ Fee(n, withdrawFeeRate) \in Nat /\ Fee(n, withdrawFeeRate) <= n
      /\ Fee(n, withdrawFeeRate) * FeeBasis <= n * MaxWithdrawFeeRate
  BY <1>1, FeeBounds
<1>4. QED
  BY <1>2, <1>3

\* Transfers keep the tokens' ledgers typed.
LEMMA TransferType ==
  ASSUME TypeOK, NEW token \in Tokens, NEW amount \in Nat, NEW from \in Accounts,
         NEW to \in Accounts, Transfer(token, amount, from, to)
  PROVE  ledger' \in [Tokens -> [Accounts -> Nat]]
BY DEF Transfer, TypeOK

LEMMA CreditType ==
  ASSUME NEW funds \in [Players -> [Tokens -> Nat]], NEW p \in Players, NEW t \in Tokens,
         NEW n \in Nat
  PROVE  /\ CreditBalance(funds, p, t, n) \in [Players -> [Tokens -> Nat]]
         /\ n <= funds[p][t] => DebitBalance(funds, p, t, n) \in [Players -> [Tokens -> Nat]]
BY DEF CreditBalance, DebitBalance
LEMMA PlayingType ==
  ASSUME TypeOK, Playing
  PROVE  TypeOK'
<1>0. Amounts \subseteq Nat
  BY BoundsAssumption
<1>1. ASSUME NEW t \in Tokens, NEW n \in Amounts, NEW p \in Players, NEW u \in Users,
             Deposit(t, n, p, u)
      PROVE  TypeOK'
  <2>1. n \in Nat /\ u \in Accounts /\ Self \in Accounts
    BY <1>0 DEF Accounts
  <2>2. ledger' \in [Tokens -> [Accounts -> Nat]]
    BY <1>1, <2>1, TransferType DEF Deposit
  <2>3. balances' \in [Players -> [Tokens -> Nat]]
    BY <1>1, <2>1, CreditType DEF Deposit, TypeOK
  <2>4. QED
    BY <1>1, <2>2, <2>3 DEF Deposit, TypeOK, adminVars
<1>2. ASSUME NEW t \in Tokens, NEW n \in Amounts, NEW p \in Players, NEW to \in Accounts,
             NEW id, Withdraw(p, t, n, to, id)
      PROVE  TypeOK'
  <2> DEFINE fee == Fee(n, withdrawFeeRate)
  <2>1. fee \in Nat /\ n - fee \in Nat
    BY <1>0, FeesInForce
  <2>2. ActualRecipient(p, to) \in Accounts /\ Self \in Accounts
    BY DEF ActualRecipient, TypeOK, Accounts
  <2>3. ledger' \in [Tokens -> [Accounts -> Nat]]
    BY <1>2, <2>1, <2>2, TransferType DEF Withdraw
  <2>4. balances' \in [Players -> [Tokens -> Nat]]
    BY <1>0, <1>2, CreditType DEF Withdraw, TypeOK
  <2>5. accumulatedFees' \in [Tokens -> Nat]
    BY <1>2, <2>1 DEF Withdraw, TypeOK
  <2>6. QED
    BY <1>2, <2>3, <2>4, <2>5 DEF Withdraw, TypeOK, adminVars
<1>3. ASSUME NEW t \in Tokens, NEW n \in Amounts, NEW p \in Players, NEW q \in Players,
             NEW idA, NEW idB, NEW u, CreateGame(p, q, t, n, idA, idB, u)
      PROVE  TypeOK'
  <2> DEFINE paidA == DebitBalance(balances, p, t, n)
             game == [playerA |-> p, playerB |-> q, token |-> t, wager |-> n,
                      status |-> "active", winner |-> NoWinner, createdAt |-> burnHeight]
  <2>1. n \in Nat /\ p # q /\ n <= balances[p][t] /\ n <= balances[q][t]
    BY <1>0, <1>3 DEF CreateGame
  <2>2. paidA \in [Players -> [Tokens -> Nat]] /\ paidA[q][t] = balances[q][t]
    BY <2>1 DEF DebitBalance, TypeOK
  <2>3. balances' \in [Players -> [Tokens -> Nat]]
    <3>1. balances' = DebitBalance(paidA, q, t, n) /\ n <= paidA[q][t]
      BY <1>3, <2>1, <2>2 DEF CreateGame
    <3> HIDE DEF paidA
    <3>2. QED
      BY <2>1, <2>2, <3>1, CreditType
  <2>4. game \in Game
    BY <2>1 DEF Game, TypeOK
  <2>5. games' \in Seq(Game)
    BY <1>3, <2>4 DEF CreateGame, TypeOK
  <2>6. QED
    BY <1>3, <2>3, <2>5 DEF CreateGame, TypeOK, adminVars
<1>4. ASSUME NEW p \in Players, NEW w \in Wallets, NEW id, RegisterWallet(p, w, id)
      PROVE  TypeOK'
  BY <1>4 DEF RegisterWallet, TypeOK, adminVars, escrowVars
<1>5. QED
  BY <1>1, <1>2, <1>3, <1>4 DEF Playing

\* Marking the end of a game keeps the games typed and touches no other game.
LEMMA EndType ==
  ASSUME TypeOK, NEW i, Active(i), NEW game \in Game,
         games' = [games EXCEPT ![i] = game]
  PROVE  /\ games' \in Seq(Game) /\ Len(games') = Len(games)
         /\ games'[i] = game
         /\ \A j \in DOMAIN games : j # i => games'[j] = games[j]
<1>1. games \in Seq(Game) /\ i \in 1 .. Len(games)
  BY DEF Active, TypeOK
<1>2. QED
  BY <1>1, ExceptSeq

LEMMA ResolveEffect ==
  ASSUME TypeOK, NEW i, NEW winner, NEW u, ResolveGame(i, winner, u)
  PROVE  /\ games[i] \in Game /\ games[i].status = "active"
         /\ winner \in {games[i].playerA, games[i].playerB}
         /\ games' = [games EXCEPT ![i] = [games[i] EXCEPT !.status = "resolved",
                                                             !.winner = winner]]
         /\ [games[i] EXCEPT !.status = "resolved", !.winner = winner] \in Game
<1>1. games[i] \in Game /\ games[i].status = "active"
  BY DEF ResolveGame, Active, TypeOK
<1>2. winner \in {games[i].playerA, games[i].playerB}
  BY DEF ResolveGame
<1>3. games' = [games EXCEPT ![i] = [games[i] EXCEPT !.status = "resolved",
                                                      !.winner = winner]]
  BY DEF ResolveGame, TypeOK, Active
<1>4. [games[i] EXCEPT !.status = "resolved", !.winner = winner] \in Game
  BY <1>1, <1>2 DEF Game
<1>5. QED
  BY <1>1, <1>2, <1>3, <1>4

LEMMA CancelEffect ==
  ASSUME TypeOK, NEW i, NEW u, CancelGame(i, u)
  PROVE  /\ games[i] \in Game /\ games[i].status = "active"
         /\ games' = [games EXCEPT ![i] = [games[i] EXCEPT !.status = "cancelled"]]
         /\ [games[i] EXCEPT !.status = "cancelled"] \in Game
<1>1. games[i] \in Game /\ games[i].status = "active"
  BY DEF CancelGame, Active, TypeOK
<1>2. QED
  BY <1>1 DEF CancelGame, Game

LEMMA EndingType ==
  ASSUME TypeOK, Ending
  PROVE  TypeOK'
<1>1. ASSUME NEW i, NEW p, NEW u, ResolveGame(i, p, u)
      PROVE  TypeOK'
  <2> DEFINE game == games[i]
             pot == game.wager * 2
             fee == Fee(pot, feeRate)
  <2>0. game \in Game /\ games' \in Seq(Game)
    BY <1>1, ResolveEffect, EndType DEF ResolveGame
  <2>1. p \in Players /\ pot \in Nat
    BY <1>1, <2>0 DEF ResolveGame, Game
  <2>2. fee \in Nat /\ pot - fee \in Nat
    BY <2>1, FeesInForce
  <2>3. balances' \in [Players -> [Tokens -> Nat]] /\ accumulatedFees' \in [Tokens -> Nat]
    <3>1. game.token \in Tokens
      BY <2>0 DEF Game
    <3>2. /\ balances' = CreditBalance(balances, p, game.token, pot - fee)
          /\ accumulatedFees' = [accumulatedFees EXCEPT ![game.token] = @ + fee]
      BY <1>1 DEF ResolveGame
    <3>3. balances \in [Players -> [Tokens -> Nat]] /\ accumulatedFees \in [Tokens -> Nat]
      BY DEF TypeOK
    <3> HIDE DEF game, pot, fee
    <3>4. balances' \in [Players -> [Tokens -> Nat]]
      BY <2>1, <2>2, <3>1, <3>2, <3>3, CreditType
    <3>5. accumulatedFees' \in [Tokens -> Nat]
      BY <2>2, <3>1, <3>2, <3>3
    <3>6. QED
      BY <3>4, <3>5
  <2>4. QED
    BY <1>1, <2>0, <2>3 DEF ResolveGame, TypeOK, adminVars
<1>2. ASSUME NEW i, NEW u, CancelGame(i, u)
      PROVE  TypeOK'
  <2> DEFINE game == games[i]
             fee == Fee(game.wager, withdrawFeeRate)
             refund == game.wager - fee
             paidA == CreditBalance(balances, game.playerA, game.token, refund)
  <2>1. game \in Game /\ games' \in Seq(Game)
    BY <1>2, CancelEffect, EndType DEF CancelGame
  <2>2. /\ game.wager \in Nat /\ game.token \in Tokens
        /\ game.playerA \in Players /\ game.playerB \in Players
    BY <2>1 DEF Game
  <2>3. fee \in Nat /\ refund \in Nat
    BY <2>2, FeesInForce
  <2>4. paidA \in [Players -> [Tokens -> Nat]]
    BY <2>2, <2>3, CreditType DEF TypeOK
  <2>5. balances' \in [Players -> [Tokens -> Nat]]
    <3>1. balances' = CreditBalance(paidA, game.playerB, game.token, refund)
      BY <1>2 DEF CancelGame
    <3> HIDE DEF paidA, refund
    <3>2. QED
      BY <2>2, <2>3, <2>4, <3>1, CreditType
  <2>6. accumulatedFees' \in [Tokens -> Nat]
    BY <1>2, <2>2, <2>3 DEF CancelGame, TypeOK
  <2>7. QED
    BY <1>2, <2>1, <2>5, <2>6 DEF CancelGame, TypeOK, adminVars
<1>3. QED
  BY <1>1, <1>2 DEF Ending

LEMMA AdministeringType ==
  ASSUME TypeOK, Administering
  PROVE  TypeOK'
<1> USE DEF escrowVars
<1>1. ASSUME NEW x \in Users, NEW u, SetOracle(x, u) \/ SetTreasury(x, u)
      PROVE  TypeOK'
  BY <1>1 DEF SetOracle, SetTreasury, TypeOK
<1>2. ASSUME NEW r, NEW u, \/ r \in FeeRates /\ SetFeeRate(r, u)
                           \/ r \in WithdrawFeeRates /\ SetWithdrawFeeRate(r, u)
      PROVE  TypeOK'
  <2>1. r \in Nat
    BY <1>2, RatesAssumption
  <2>2. CASE SetFeeRate(r, u)
    <3>1. feeRate' \in 0 .. MaxFeeRate
      BY <2>1, <2>2, RatesAssumption DEF SetFeeRate
    <3>2. QED
      BY <2>2, <3>1 DEF SetFeeRate, TypeOK
  <2>3. CASE SetWithdrawFeeRate(r, u)
    <3>1. withdrawFeeRate' \in 0 .. MaxWithdrawFeeRate
      BY <2>1, <2>3, RatesAssumption DEF SetWithdrawFeeRate
    <3>2. QED
      BY <2>3, <3>1 DEF SetWithdrawFeeRate, TypeOK
  <2>4. QED
    BY <1>2, <2>2, <2>3
<1>3. ASSUME NEW t \in Tokens, NEW u, SweepFees(t, u)
      PROVE  TypeOK'
  <2>1. accumulatedFees[t] \in Nat /\ Self \in Accounts /\ treasury \in Accounts
    BY DEF TypeOK, Accounts
  <2>2. ledger' \in [Tokens -> [Accounts -> Nat]]
    BY <1>3, <2>1, TransferType DEF SweepFees
  <2>3. QED
    BY <1>3, <2>2 DEF SweepFees, TypeOK, adminVars
<1>4. ASSUME NEW t \in Tokens, NEW enabled, NEW u, SetTokenWhitelist(t, enabled, u)
      PROVE  TypeOK'
  BY <1>4 DEF SetTokenWhitelist, TypeOK
<1>5. QED
  BY <1>1, <1>2, <1>3, <1>4 DEF Administering

\* Every variable keeps its shape; in particular neither a player's balance nor
\* the fees nor the contract's own tokens ever go below zero (debit-balance,
\* withdraw, resolve-game, cancel-game, sweep-fees).
THEOREM WagerTypeCorrect == Spec => []TypeOK
<1> USE DEF adminVars, escrowVars
<1>1. Init => TypeOK
  <2> SUFFICES ASSUME Init
               PROVE  TypeOK
    OBVIOUS
  <2>1. balances \in [Players -> [Tokens -> Nat]] /\ accumulatedFees \in [Tokens -> Nat]
    BY DEF Init
  <2>2. ledger \in [Tokens -> [Accounts -> Nat]]
    BY BoundsAssumption DEF Init
  <2>3. /\ burnHeight \in Nat /\ oracle \in Users /\ treasury \in Users
        /\ feeRate \in 0 .. MaxFeeRate /\ withdrawFeeRate \in 0 .. MaxWithdrawFeeRate
        /\ whitelistedTokens \subseteq Tokens
    BY AccountsAssumption, RatesAssumption DEF Init
  <2>4. games \in Seq(Game) /\ pubkeyWallet \in [Players -> Wallets \cup {NoWallet}]
    BY DEF Init
  <2>5. QED
    BY <2>1, <2>2, <2>3, <2>4 DEF TypeOK
<1>2. TypeOK /\ [Next]_vars => TypeOK'
  <2>1. TypeOK /\ NextBlock => TypeOK'
    BY DEF TypeOK, NextBlock
  <2>2. TypeOK /\ UNCHANGED vars => TypeOK'
    BY DEF TypeOK, vars
  <2>3. QED
    BY <2>1, <2>2, PlayingType, EndingType, AdministeringType DEF Next
<1>3. QED
  BY <1>1, <1>2, PTL DEF Spec
-----------------------------------------------------------------------------
(* Every game is paid for with two unused signatures.                       *)

WagerHashes(hashes) == {h \in hashes : h.topic = "wager"}
GestureInv == IsFiniteSet(WagerHashes(usedSignatures)) /\ TwoSignaturesPerGame

LEMMA GesturesPerStep ==
  ASSUME TypeOK, GestureInv, Next
  PROVE  GestureInv'
<1>1. CASE WagerHashes(usedSignatures') = WagerHashes(usedSignatures) /\ Len(games') = Len(games)
  BY <1>1 DEF GestureInv, TwoSignaturesPerGame, WagerHashes
<1>2. ASSUME NEW a, NEW b, NEW t, NEW n, NEW idA, NEW idB, NEW u,
             CreateGame(a, b, t, n, idA, idB, u)
      PROVE  GestureInv'
  <2> DEFINE first == WagerHash(idA, b, t, n)
             second == WagerHash(idB, a, t, n)
             before == WagerHashes(usedSignatures)
  <2>1. /\ a # b /\ first \notin usedSignatures /\ second \notin usedSignatures
        /\ usedSignatures' = usedSignatures \cup {first, second}
    BY <1>2 DEF CreateGame, ConsumeSignatures
  <2>2. first.topic = "wager" /\ second.topic = "wager" /\ first # second
    BY <2>1 DEF WagerHash
  <2>3. WagerHashes(usedSignatures') = (before \cup {first}) \cup {second}
    <3> HIDE DEF first, second
    <3>1. QED
      BY <2>1, <2>2 DEF WagerHashes
  <2>4. first \notin before /\ second \notin before \cup {first}
    <3> HIDE DEF first, second
    <3>1. QED
      BY <2>1, <2>2 DEF WagerHashes
  <2>5. IsFiniteSet(before) /\ Cardinality(before) = 2 * Len(games) /\ Len(games) \in Nat
    BY DEF GestureInv, TwoSignaturesPerGame, TypeOK, WagerHashes
  <2>6. Len(games') = Len(games) + 1
    BY <1>2 DEF CreateGame, TypeOK
  <2> HIDE DEF first, second, before
  <2>7. /\ IsFiniteSet(before \cup {first})
        /\ Cardinality(before \cup {first}) = Cardinality(before) + 1
    BY <2>4, <2>5, FS_AddElement
  <2>8. /\ IsFiniteSet(WagerHashes(usedSignatures'))
        /\ Cardinality(WagerHashes(usedSignatures')) = Cardinality(before) + 2
    BY <2>3, <2>4, <2>5, <2>7, FS_AddElement
  <2>9. Cardinality(WagerHashes(usedSignatures')) = 2 * Len(games')
    BY <2>5, <2>6, <2>8
  <2>10. QED
    BY <2>8, <2>9 DEF GestureInv, TwoSignaturesPerGame, WagerHashes
<1>3. ASSUME NEW h, h.topic # "wager", ConsumeSignatures({h}), UNCHANGED games
      PROVE  GestureInv'
  <2>1. WagerHashes(usedSignatures') = WagerHashes(usedSignatures)
    BY <1>3 DEF ConsumeSignatures, WagerHashes
  <2>2. QED
    BY <1>1, <1>3, <2>1
<1>4. CASE Playing
  <2>1. ASSUME NEW t, NEW n, NEW p, NEW u, Deposit(t, n, p, u)
        PROVE  GestureInv'
    BY <1>1, <2>1 DEF Deposit
  <2>2. ASSUME NEW t, NEW n, NEW p, NEW to, NEW id, Withdraw(p, t, n, to, id)
        PROVE  GestureInv'
    BY <1>3, <2>2 DEF Withdraw, WithdrawHash
  <2>3. ASSUME NEW p, NEW w, NEW id, RegisterWallet(p, w, id)
        PROVE  GestureInv'
    BY <1>3, <2>3 DEF RegisterWallet, RegisterHash, escrowVars
  <2>4. QED
    BY <1>2, <1>4, <2>1, <2>2, <2>3 DEF Playing
<1>5. CASE Ending
  <2>1. Len(games') = Len(games) /\ UNCHANGED usedSignatures
    BY <1>5 DEF Ending, ResolveGame, CancelGame, TypeOK
  <2>2. QED
    BY <1>1, <2>1
<1>6. CASE NextBlock \/ Administering
  <2>1. UNCHANGED <<games, usedSignatures>>
    BY <1>6 DEF NextBlock, Administering, SetOracle, SetTreasury, SetFeeRate,
      SetWithdrawFeeRate, SweepFees, SetTokenWhitelist, escrowVars
  <2>2. QED
    BY <1>1, <2>1
<1>7. QED
  BY <1>4, <1>5, <1>6 DEF Next

\* Every game took two signatures nobody used before: a stake is placed in one
\* game only, however often its signature is submitted (consume-signature,
\* create-game).
THEOREM StakesAreSignedOnce == Spec => []TwoSignaturesPerGame
<1>1. Init => GestureInv
  <2> SUFFICES ASSUME Init
               PROVE  GestureInv
    OBVIOUS
  <2>1. WagerHashes(usedSignatures) = {} /\ Len(games) = 0
    BY DEF Init, WagerHashes
  <2>2. QED
    BY <2>1, FS_EmptySet DEF GestureInv, TwoSignaturesPerGame, WagerHashes
<1>2. TypeOK /\ GestureInv /\ [Next]_vars => GestureInv'
  <2>1. TypeOK /\ GestureInv /\ UNCHANGED vars => GestureInv'
    BY DEF GestureInv, TwoSignaturesPerGame, WagerHashes, vars, escrowVars
  <2>2. QED
    BY <2>1, GesturesPerStep
<1>3. GestureInv => TwoSignaturesPerGame
  BY DEF GestureInv
<1>4. QED
  BY <1>1, <1>2, <1>3, WagerTypeCorrect, PTL DEF Spec

-----------------------------------------------------------------------------
(* Where the tokens of the escrow go.                                       *)

LEMMA OnlyReceiverGains ==
  ASSUME TypeOK, NEW t \in Tokens, NEW n, NEW from \in Accounts, NEW to \in Accounts,
         Transfer(t, n, from, to), n \in Nat,
         NEW s \in Tokens, NEW q \in Accounts, ledger'[s][q] > ledger[s][q]
  PROVE  s = t /\ q = to
<1>1. ledger \in [Tokens -> [Accounts -> Nat]]
  BY DEF TypeOK
<1>2. from # to /\ n \in Nat /\ n > 0 /\ n <= ledger[t][from]
      /\ ledger' = [ledger EXCEPT ![t][from] = @ - n, ![t][to] = @ + n]
  BY DEF Transfer
<1>3. s # t => ledger'[s][q] = ledger[s][q]
  BY <1>1, <1>2
<1>4. s = t /\ q # to /\ q # from => ledger'[s][q] = ledger[s][q]
  BY <1>1, <1>2
<1>5. s = t /\ q # to /\ q = from => ledger'[s][q] = ledger[s][q] - n
  BY <1>1, <1>2
<1>6. ledger[s][q] \in Nat
  BY <1>1
<1>7. QED
  BY <1>2, <1>3, <1>4, <1>5, <1>6

\* What leaves the escrow is swept to the treasury, or was in the balance of a
\* player whose registered wallet, if any, receives it (withdraw,
\* register-wallet, sweep-fees).
THEOREM WithdrawalsReachTheirWallet == Spec => PayoutFollowsRegistration
<1> DEFINE Follows ==
      \A t \in Tokens, q \in Accounts \ {Self} :
        ledger'[t][q] > ledger[t][q] =>
          \/ q = treasury /\ accumulatedFees'[t] = 0
          \/ \E p \in Players :
               /\ balances'[p][t] < balances[p][t]
               /\ pubkeyWallet[p] \in {q, NoWallet}
<1>1. TypeOK /\ UNCHANGED ledger => Follows
  BY DEF TypeOK
<1>2. ASSUME TypeOK, NEW s \in Tokens, NEW n \in Amounts, NEW p \in Players, NEW u \in Users,
             Deposit(s, n, p, u)
      PROVE  Follows
  BY <1>2, OnlyReceiverGains, BoundsAssumption DEF Deposit, Accounts
<1>3. ASSUME TypeOK, NEW s \in Tokens, NEW n \in Amounts, NEW p \in Players,
             NEW to \in Accounts, NEW id, Withdraw(p, s, n, to, id)
      PROVE  Follows
  <2> DEFINE paid == n - Fee(n, withdrawFeeRate)
             receiver == ActualRecipient(p, to)
  <2>1. /\ n \in Nat /\ n > 0 /\ paid \in Nat /\ Self \in Accounts
        /\ Transfer(s, paid, Self, receiver)
        /\ balances' = DebitBalance(balances, p, s, n)
    BY <1>3, FeesInForce, BoundsAssumption DEF Withdraw, Accounts
  <2>2. receiver \in Accounts
    BY <1>3 DEF ActualRecipient, TypeOK, Accounts
  <2>3. balances'[p][s] < balances[p][s]
    <3>1. balances \in [Players -> [Tokens -> Nat]]
      BY <1>3 DEF TypeOK
    <3>2. balances'[p][s] = balances[p][s] - n
      BY <2>1, <3>1, <1>3 DEF DebitBalance
    <3>3. balances[p][s] \in Nat
      BY <1>3, <3>1
    <3>4. QED
      BY <2>1, <3>2, <3>3
  <2> HIDE DEF paid
  <2>4. ASSUME NEW t \in Tokens, NEW q \in Accounts, ledger'[t][q] > ledger[t][q]
        PROVE  t = s /\ q = receiver
    <3> HIDE DEF receiver
    <3>1. QED
      BY <1>3, <2>1, <2>2, <2>4, OnlyReceiverGains
  <2>5. pubkeyWallet[p] \in {receiver, NoWallet}
    BY DEF ActualRecipient
  <2>6. QED
    BY <1>3, <2>3, <2>4, <2>5
<1>4. ASSUME TypeOK, NEW s \in Tokens, NEW u \in Users, SweepFees(s, u)
      PROVE  Follows
  <2>1. /\ accumulatedFees[s] \in Nat /\ Self \in Accounts /\ treasury \in Accounts
        /\ Transfer(s, accumulatedFees[s], Self, treasury)
        /\ accumulatedFees' = [accumulatedFees EXCEPT ![s] = 0]
        /\ s \in DOMAIN accumulatedFees
    BY <1>4 DEF SweepFees, TypeOK, Accounts
  <2>2. ASSUME NEW t \in Tokens, NEW q \in Accounts, ledger'[t][q] > ledger[t][q]
        PROVE  t = s /\ q = treasury
    BY <1>4, <2>1, <2>2, OnlyReceiverGains
  <2>3. accumulatedFees'[s] = 0
    BY <2>1
  <2>4. QED
    BY <2>2, <2>3
<1>5. TypeOK /\ Next => Follows
  <2> SUFFICES ASSUME TypeOK, Next
               PROVE  Follows
    OBVIOUS
  <2>1. CASE UNCHANGED ledger
    BY <1>1, <2>1
  <2>2. CASE Playing
    <3> HIDE DEF Follows
    <3>1. CASE \E p, q, t, n, idA, idB, u :
                  CreateGame(p, q, t, n, idA, idB, u)
      BY <2>1, <3>1 DEF CreateGame
    <3>2. CASE \E p, w, id : RegisterWallet(p, w, id)
      BY <2>1, <3>2 DEF RegisterWallet
    <3>3. QED
      BY <1>2, <1>3, <2>2, <3>1, <3>2 DEF Playing
  <2>3. CASE Ending \/ NextBlock
    BY <2>1, <2>3 DEF Ending, ResolveGame, CancelGame, NextBlock
  <2>4. CASE Administering
    <3> HIDE DEF Follows
    <3>1. CASE \E t \in Tokens, u \in Users : SweepFees(t, u)
      BY <1>4, <3>1
    <3>2. CASE UNCHANGED ledger
      BY <2>1, <3>2
    <3>3. QED
      BY <2>4, <3>1, <3>2 DEF Administering, SetOracle, SetTreasury, SetFeeRate,
        SetWithdrawFeeRate, SetTokenWhitelist
  <2>5. QED
    BY <2>2, <2>3, <2>4 DEF Next
<1>6. TypeOK /\ [Next]_vars => [Follows]_vars
  BY <1>5
<1>7. QED
  BY <1>6, WagerTypeCorrect, PTL DEF Spec, PayoutFollowsRegistration
-----------------------------------------------------------------------------
(* Where the pots go.                                                       *)

\* Nobody plays against himself.
DistinctPlayers == \A i \in DOMAIN games : games[i].playerA # games[i].playerB

\* A game that is on the books changes only by ending.
LEMMA GamesSteps ==
  ASSUME TypeOK, Next
  PROVE  \/ UNCHANGED games
         \/ \E i \in DOMAIN games, p \in Players, u \in Users : ResolveGame(i, p, u)
         \/ \E i \in DOMAIN games, u \in Users : CancelGame(i, u)
         \/ \E a, b \in Players, t \in Tokens, n \in Amounts, idA, idB \in AuthIds, u \in Users :
              CreateGame(a, b, t, n, idA, idB, u)
<1>1. CASE NextBlock \/ Administering
  BY <1>1 DEF NextBlock, Administering, SetOracle, SetTreasury, SetFeeRate,
    SetWithdrawFeeRate, SweepFees, SetTokenWhitelist, escrowVars
<1>2. CASE Playing
  BY <1>2 DEF Playing, Deposit, Withdraw, RegisterWallet, escrowVars
<1>3. CASE Ending
  BY <1>3 DEF Ending, ResolveGame, CancelGame, Active
<1>4. QED
  BY <1>1, <1>2, <1>3 DEF Next

\* What create-game appends.
LEMMA CreateEffect ==
  ASSUME TypeOK, NEW a, NEW b, NEW t, NEW n, NEW idA, NEW idB, NEW u,
         CreateGame(a, b, t, n, idA, idB, u)
  PROVE  /\ a # b
         /\ DOMAIN games' = DOMAIN games \cup {Len(games) + 1}
         /\ \A i \in DOMAIN games : games'[i] = games[i]
         /\ games'[Len(games) + 1].playerA = a /\ games'[Len(games) + 1].playerB = b
<1> DEFINE game == [playerA |-> a, playerB |-> b, token |-> t, wager |-> n,
                    status |-> "active", winner |-> NoWinner, createdAt |-> burnHeight]
<1>1. games \in Seq(Game) /\ games' = Append(games, game) /\ a # b
  BY DEF CreateGame, TypeOK
<1>2. game.playerA = a /\ game.playerB = b
  OBVIOUS
<1> HIDE DEF game
<1>3. QED
  BY <1>1, <1>2

LEMMA PlayersDiffer == Spec => []DistinctPlayers
<1>1. Init => DistinctPlayers
  BY DEF Init, DistinctPlayers
<1>2. TypeOK /\ DistinctPlayers /\ [Next]_vars => DistinctPlayers'
  <2> SUFFICES ASSUME TypeOK, DistinctPlayers, [Next]_vars
               PROVE  DistinctPlayers'
    OBVIOUS
  <2>1. CASE UNCHANGED games
    BY <2>1 DEF DistinctPlayers
  <2>2. ASSUME NEW i \in DOMAIN games, NEW game \in Game, Active(i),
               games' = [games EXCEPT ![i] = game],
               game.playerA = games[i].playerA, game.playerB = games[i].playerB
        PROVE  DistinctPlayers'
    <3>1. /\ DOMAIN games' = DOMAIN games /\ games'[i] = game
          /\ \A j \in DOMAIN games : j # i => games'[j] = games[j]
      BY <2>2, EndType DEF TypeOK
    <3>2. QED
      BY <2>2, <3>1 DEF DistinctPlayers
  <2>3. ASSUME NEW i \in DOMAIN games, NEW p, NEW u, ResolveGame(i, p, u)
        PROVE  DistinctPlayers'
    <3> DEFINE game == [games[i] EXCEPT !.status = "resolved", !.winner = p]
    <3>1. games[i] \in Game /\ game \in Game /\ games' = [games EXCEPT ![i] = game]
      BY <2>3, ResolveEffect
    <3>2. game.playerA = games[i].playerA /\ game.playerB = games[i].playerB
      BY <3>1 DEF Game
    <3> HIDE DEF game
    <3>3. QED
      BY <2>2, <2>3, <3>1, <3>2 DEF ResolveGame
  <2>4. ASSUME NEW i \in DOMAIN games, NEW u, CancelGame(i, u)
        PROVE  DistinctPlayers'
    <3> DEFINE game == [games[i] EXCEPT !.status = "cancelled"]
    <3>1. games[i] \in Game /\ game \in Game /\ games' = [games EXCEPT ![i] = game]
      BY <2>4, CancelEffect
    <3>2. game.playerA = games[i].playerA /\ game.playerB = games[i].playerB
      BY <3>1 DEF Game
    <3> HIDE DEF game
    <3>3. QED
      BY <2>2, <2>4, <3>1, <3>2 DEF CancelGame
  <2>5. ASSUME NEW a, NEW b, NEW t, NEW n, NEW idA, NEW idB, NEW u,
               CreateGame(a, b, t, n, idA, idB, u)
        PROVE  DistinctPlayers'
    BY <2>5, CreateEffect DEF DistinctPlayers
  <2>6. CASE UNCHANGED vars
    BY <2>1, <2>6 DEF vars, escrowVars
  <2>7. QED
    BY <2>1, <2>3, <2>4, <2>5, <2>6, GamesSteps
<1>3. QED
  BY <1>1, <1>2, WagerTypeCorrect, PTL DEF Spec

\* The end of game i divides its pot between its players and the fees.
Divided(i) ==
  LET game == games[i]
      Gain(p) == balances'[p][game.token] - balances[p][game.token]
      a == Gain(game.playerA)
      b == Gain(game.playerB)
      cut == accumulatedFees'[game.token] - accumulatedFees[game.token]
  IN  /\ game.status = "active"
      /\ a + b + cut = 2 * game.wager /\ a >= 0 /\ b >= 0
      /\ \A p \in Players \ {game.playerA, game.playerB} : Gain(p) = 0
      /\ \/ /\ games'[i].status = "resolved" /\ (a = 0 \/ b = 0)
            /\ cut * FeeBasis <= 2 * game.wager * MaxFeeRate
         \/ /\ games'[i].status = "cancelled" /\ a = b
            /\ cut * FeeBasis <= 2 * game.wager * MaxWithdrawFeeRate

LEMMA ResolveDivides ==
  ASSUME TypeOK, DistinctPlayers, NEW i, NEW w \in Players, NEW u, ResolveGame(i, w, u)
  PROVE  /\ Divided(i)
         /\ \A j \in DOMAIN games : j # i => games'[j] = games[j]
<1> DEFINE ended == [games[i] EXCEPT !.status = "resolved", !.winner = w]
           t == games[i].token
           n == games[i].wager
           fee == Fee(n * 2, feeRate)
<1>1. /\ games[i] \in Game /\ ended \in Game /\ games[i].status = "active"
      /\ games' = [games EXCEPT ![i] = ended] /\ i \in DOMAIN games /\ Active(i)
      /\ w \in {games[i].playerA, games[i].playerB}
  BY ResolveEffect DEF ResolveGame, Active
<1>2. /\ games'[i] = ended
      /\ \A j \in DOMAIN games : j # i => games'[j] = games[j]
  <2> HIDE DEF ended
  <2>1. QED
    BY <1>1, EndType
<1>3. games'[i].status = "resolved"
  BY <1>1, <1>2 DEF Game
<1>4. /\ t \in Tokens /\ n \in Nat /\ n * 2 \in Nat
      /\ games[i].playerA \in Players /\ games[i].playerB \in Players
      /\ games[i].playerA # games[i].playerB
  BY <1>1 DEF Game, DistinctPlayers
<1>5. fee \in Nat /\ n * 2 - fee \in Nat /\ fee * FeeBasis <= (n * 2) * MaxFeeRate
  BY <1>4, FeesInForce
<1>6. /\ balances' = [balances EXCEPT ![w][t] = @ + (n * 2 - fee)]
      /\ accumulatedFees' = [accumulatedFees EXCEPT ![t] = @ + fee]
  BY DEF ResolveGame, CreditBalance
<1>7. /\ balances \in [Players -> [Tokens -> Nat]]
      /\ accumulatedFees \in [Tokens -> Nat]
  BY DEF TypeOK
<1> HIDE DEF ended, fee
<1>8. /\ balances'[w][t] = balances[w][t] + (n * 2 - fee)
      /\ \A p \in Players \ {w} : balances'[p][t] = balances[p][t]
      /\ accumulatedFees'[t] = accumulatedFees[t] + fee
      /\ \A p \in Players : balances[p][t] \in Nat
      /\ accumulatedFees[t] \in Nat
  BY <1>4, <1>6, <1>7
<1>9. (n * 2) * MaxFeeRate = 2 * n * MaxFeeRate
  BY <1>4, RatesAssumption
<1>10. Divided(i)
  <2>1. accumulatedFees'[t] - accumulatedFees[t] = fee
    BY <1>5, <1>8
  <2>2. /\ balances'[w][t] - balances[w][t] = n * 2 - fee
        /\ \A p \in Players \ {w} : balances'[p][t] - balances[p][t] = 0
    BY <1>4, <1>5, <1>8
  <2>3. fee * FeeBasis <= 2 * n * MaxFeeRate
    BY <1>5, <1>9
  <2>4. n * 2 - fee + 0 + fee = 2 * n /\ 0 + (n * 2 - fee) + fee = 2 * n
    BY <1>4, <1>5
  <2>5. n * 2 - fee >= 0
    BY <1>5
  <2>6. CASE w = games[i].playerA
    BY <1>1, <1>3, <1>4, <2>1, <2>2, <2>3, <2>4, <2>5, <2>6 DEF Divided
  <2>7. CASE w = games[i].playerB
    BY <1>1, <1>3, <1>4, <2>1, <2>2, <2>3, <2>4, <2>5, <2>7 DEF Divided
  <2>8. QED
    BY <1>1, <2>6, <2>7
<1>11. QED
  BY <1>2, <1>10

LEMMA CancelDivides ==
  ASSUME TypeOK, DistinctPlayers, NEW i, NEW u, CancelGame(i, u)
  PROVE  /\ Divided(i)
         /\ \A j \in DOMAIN games : j # i => games'[j] = games[j]
<1> DEFINE ended == [games[i] EXCEPT !.status = "cancelled"]
           t == games[i].token
           n == games[i].wager
           a == games[i].playerA
           b == games[i].playerB
           fee == Fee(n, withdrawFeeRate)
<1>1. /\ games[i] \in Game /\ ended \in Game /\ games[i].status = "active"
      /\ games' = [games EXCEPT ![i] = ended] /\ i \in DOMAIN games /\ Active(i)
  BY CancelEffect DEF CancelGame, Active
<1>2. /\ games'[i] = ended
      /\ \A j \in DOMAIN games : j # i => games'[j] = games[j]
  <2> HIDE DEF ended
  <2>1. QED
    BY <1>1, EndType
<1>3. games'[i].status = "cancelled"
  BY <1>1, <1>2 DEF Game
<1>4. t \in Tokens /\ n \in Nat /\ a \in Players /\ b \in Players /\ a # b
  BY <1>1 DEF Game, DistinctPlayers
<1>5. fee \in Nat /\ n - fee \in Nat /\ fee * FeeBasis <= n * MaxWithdrawFeeRate
  BY <1>4, FeesInForce
<1>6. /\ balances' = [[balances EXCEPT ![a][t] = @ + (n - fee)]
                         EXCEPT ![b][t] = @ + (n - fee)]
      /\ accumulatedFees' = [accumulatedFees EXCEPT ![t] = @ + fee * 2]
  BY DEF CancelGame, CreditBalance
<1>7. /\ balances \in [Players -> [Tokens -> Nat]]
      /\ accumulatedFees \in [Tokens -> Nat]
  BY DEF TypeOK
<1>8. /\ balances'[a][t] - balances[a][t] = n - fee
      /\ balances'[b][t] - balances[b][t] = n - fee
      /\ \A p \in Players \ {a, b} : balances'[p][t] - balances[p][t] = 0
      /\ accumulatedFees'[t] - accumulatedFees[t] = fee * 2
  <2> HIDE DEF ended, fee, t, n, a, b
  <2> DEFINE refund == n - fee
             paidA == [balances EXCEPT ![a][t] = @ + refund]
  <2>1. refund \in Nat /\ balances' = [paidA EXCEPT ![b][t] = @ + refund]
    BY <1>5, <1>6
  <2> HIDE DEF refund
  <2>2. /\ paidA \in [Players -> [Tokens -> Nat]]
        /\ paidA[a][t] = balances[a][t] + refund
        /\ \A p \in Players \ {a} : paidA[p][t] = balances[p][t]
    BY <1>4, <1>7, <2>1
  <2> HIDE DEF paidA
  <2>3. /\ balances'[b][t] = paidA[b][t] + refund
        /\ \A p \in Players \ {b} : balances'[p][t] = paidA[p][t]
    BY <1>4, <2>1, <2>2
  <2>4. \A p \in Players : balances[p][t] \in Nat
    BY <1>4, <1>7
  <2>5. /\ balances'[a][t] - balances[a][t] = refund
        /\ balances'[b][t] - balances[b][t] = refund
        /\ \A p \in Players \ {a, b} : balances'[p][t] - balances[p][t] = 0
    BY <1>4, <2>1, <2>2, <2>3, <2>4
  <2>6. accumulatedFees'[t] - accumulatedFees[t] = fee * 2
    BY <1>4, <1>5, <1>6, <1>7
  <2>7. QED
    BY <2>5, <2>6 DEF refund
<1>9. /\ (n - fee) + (n - fee) + fee * 2 = 2 * n /\ n - fee >= 0
      /\ (fee * 2) * FeeBasis <= 2 * n * MaxWithdrawFeeRate
  <2> HIDE DEF fee, n
  <2>1. /\ fee * FeeBasis \in Nat /\ n * MaxWithdrawFeeRate \in Nat
        /\ (fee * 2) * FeeBasis = 2 * (fee * FeeBasis)
        /\ 2 * n * MaxWithdrawFeeRate = 2 * (n * MaxWithdrawFeeRate)
    BY <1>4, <1>5, RatesAssumption
  <2>2. QED
    BY <1>4, <1>5, <2>1
<1>10. Divided(i)
  <2> HIDE DEF fee
  <2>1. QED
    BY <1>1, <1>3, <1>4, <1>8, <1>9 DEF Divided
<1>11. QED
  BY <1>2, <1>10

\* A game ends once, and its pot goes to its two players and the fees, which
\* take no more than the highest rate, whatever the rates were when the stakes
\* were placed (resolve-game, cancel-game, set-fee-rate, set-withdraw-fee-rate).
THEOREM PotIsDivided == Spec => PotGoesToPlayers
<1> DEFINE Divides == \A i \in DOMAIN games : games'[i] # games[i] => Divided(i)
<1>1. TypeOK /\ DistinctPlayers /\ Next => Divides
  <2> SUFFICES ASSUME TypeOK, DistinctPlayers, Next,
                      NEW i \in DOMAIN games, games'[i] # games[i]
               PROVE  Divided(i)
    OBVIOUS
  <2>1. CASE \E j \in DOMAIN games, p \in Players, u \in Users : ResolveGame(j, p, u)
    BY <2>1, ResolveDivides
  <2>2. CASE \E j \in DOMAIN games, u \in Users : CancelGame(j, u)
    BY <2>2, CancelDivides
  <2>3. QED
    BY <2>1, <2>2, GamesSteps, CreateEffect
<1>2. TypeOK /\ DistinctPlayers /\ [Next]_vars => [Divides]_vars
  BY <1>1
<1>3. Spec => [][Divides]_vars
  BY <1>2, WagerTypeCorrect, PlayersDiffer, PTL DEF Spec
<1>4. QED
  BY <1>3 DEF PotGoesToPlayers, Divided
-----------------------------------------------------------------------------
(* The contract holds exactly what it owes.                                 *)

OwedIn(funds, t) == SumFunction([p \in Players |-> funds[p][t]])
StakeOf(game, t) == IF game.status = "active" /\ game.token = t THEN game.wager * 2 ELSE 0
StakedIn(gs, t) == SumFunction([i \in DOMAIN gs |-> StakeOf(gs[i], t)])

LEMMA StakeIsNat ==
  ASSUME NEW game \in Game, NEW t
  PROVE  StakeOf(game, t) \in Nat
<1>1. game.wager \in Nat
  BY DEF Game
<1> QED BY <1>1 DEF StakeOf

LEMMA StakesAreNat ==
  ASSUME TypeOK, NEW t
  PROVE  /\ IsFiniteSet(DOMAIN games) /\ DOMAIN games = 1 .. Len(games) /\ Len(games) \in Nat
         /\ \A i \in DOMAIN games : games[i] \in Game /\ StakeOf(games[i], t) \in Nat
<1>1. DOMAIN games = 1 .. Len(games) /\ Len(games) \in Nat
  BY DEF TypeOK
<1>2. IsFiniteSet(1 .. Len(games))
  BY <1>1, FS_Interval
<1>3. ASSUME NEW i \in DOMAIN games PROVE games[i] \in Game /\ StakeOf(games[i], t) \in Nat
  <2>1. games[i] \in Game
    BY DEF TypeOK
  <2> QED BY <2>1, StakeIsNat
<1> QED BY <1>1, <1>2, <1>3

LEMMA BooksBefore ==
  ASSUME TypeOK, NEW t \in Tokens
  PROVE  /\ Owed(t) = OwedIn(balances, t) /\ Staked(t) = StakedIn(games, t)
         /\ OwedIn(balances, t) \in Int /\ StakedIn(games, t) \in Int
<1>1. Owed(t) = OwedIn(balances, t)
  BY DEF Owed, OwedIn
<1>2. Staked(t) = StakedIn(games, t)
  <2>1. \A i \in DOMAIN games :
          (IF Active(i) /\ games[i].token = t THEN games[i].wager * 2 ELSE 0)
            = StakeOf(games[i], t)
    BY DEF Active, StakeOf
  <2>2. [i \in DOMAIN games |->
           IF Active(i) /\ games[i].token = t THEN games[i].wager * 2 ELSE 0]
          = [i \in DOMAIN games |-> StakeOf(games[i], t)]
    BY <2>1
  <2> QED BY <2>2 DEF Staked, StakedIn
<1>3. OwedIn(balances, t) \in Int
  <2> DEFINE f == [p \in Players |-> balances[p][t]]
  <2>1. IsFiniteSet(Players) /\ DOMAIN f = Players /\ \A p \in Players : f[p] \in Int
    BY AccountsAssumption DEF TypeOK
  <2>2. OwedIn(balances, t) = SumFunctionOnSet(f, Players)
    BY <2>1 DEF OwedIn, SumFunction
  <2> HIDE DEF f
  <2> QED BY <2>1, <2>2, SumInt
<1>4. StakedIn(games, t) \in Int
  <2> DEFINE f == [i \in DOMAIN games |-> StakeOf(games[i], t)]
  <2>2. IsFiniteSet(DOMAIN games) /\ \A i \in DOMAIN games : f[i] \in Int
    BY StakesAreNat
  <2>4. StakedIn(games, t) = SumFunctionOnSet(f, DOMAIN games)
    BY DEF StakedIn, SumFunction
  <2> HIDE DEF f
  <2> QED BY <2>2, <2>4, SumInt
<1> QED BY <1>1, <1>2, <1>3, <1>4

\* A credit or a debit of a balance changes what is owed of that token by as much.
LEMMA OwedChange ==
  ASSUME NEW funds \in [Players -> [Tokens -> Nat]], NEW p \in Players, NEW t \in Tokens,
         NEW n \in Nat, NEW s \in Tokens
  PROVE  /\ OwedIn(funds, s) \in Int
         /\ OwedIn(CreditBalance(funds, p, t, n), s) =
              OwedIn(funds, s) + (IF s = t THEN n ELSE 0)
         /\ OwedIn(DebitBalance(funds, p, t, n), s) =
              OwedIn(funds, s) - (IF s = t THEN n ELSE 0)
<1> DEFINE f == [q \in Players |-> funds[q][s]]
           up == [q \in Players |-> CreditBalance(funds, p, t, n)[q][s]]
           down == [q \in Players |-> DebitBalance(funds, p, t, n)[q][s]]
<1>1. IsFiniteSet(Players) /\ DOMAIN f = Players /\ DOMAIN up = Players /\ DOMAIN down = Players
  BY AccountsAssumption
<1>2. \A q \in Players : f[q] \in Int
  OBVIOUS
<1>3. /\ up[p] = f[p] + (IF s = t THEN n ELSE 0)
      /\ \A q \in Players \ {p} : up[q] = f[q]
  BY DEF CreditBalance
<1>4. /\ down[p] = f[p] - (IF s = t THEN n ELSE 0)
      /\ \A q \in Players \ {p} : down[q] = f[q]
  BY DEF DebitBalance
<1>5. /\ OwedIn(funds, s) = SumFunctionOnSet(f, Players)
      /\ OwedIn(CreditBalance(funds, p, t, n), s) = SumFunctionOnSet(up, Players)
      /\ OwedIn(DebitBalance(funds, p, t, n), s) = SumFunctionOnSet(down, Players)
  BY <1>1 DEF OwedIn, SumFunction
<1> HIDE DEF f, up, down
<1>6. SumFunctionOnSet(f, Players) \in Int
  BY <1>1, <1>2, SumInt
<1>7. SumFunctionOnSet(up, Players) = SumFunctionOnSet(f, Players) + up[p] - f[p]
  BY <1>1, <1>2, <1>3, SumUpdate
<1>8. SumFunctionOnSet(down, Players) = SumFunctionOnSet(f, Players) + down[p] - f[p]
  BY <1>1, <1>2, <1>4, SumUpdate
<1> QED BY <1>2, <1>3, <1>4, <1>5, <1>6, <1>7, <1>8

LEMMA OwedAfterCredit ==
  ASSUME NEW funds \in [Players -> [Tokens -> Nat]], NEW p \in Players, NEW t \in Tokens,
         NEW n \in Nat, NEW s \in Tokens
  PROVE  OwedIn(CreditBalance(funds, p, t, n), s) =
           OwedIn(funds, s) + (IF s = t THEN n ELSE 0)
BY OwedChange
LEMMA OwedAfterDebit ==
  ASSUME NEW funds \in [Players -> [Tokens -> Nat]], NEW p \in Players, NEW t \in Tokens,
         NEW n \in Nat, NEW s \in Tokens
  PROVE  OwedIn(DebitBalance(funds, p, t, n), s) =
           OwedIn(funds, s) - (IF s = t THEN n ELSE 0)
BY OwedChange

\* A new game stakes its wager twice.
LEMMA StakedByNewGame ==
  ASSUME TypeOK, NEW game \in Game, NEW t \in Tokens
  PROVE  StakedIn(Append(games, game), t) = StakedIn(games, t) + StakeOf(game, t)
<1> DEFINE N == Len(games) + 1
           gs == Append(games, game)
           f == [i \in DOMAIN games |-> StakeOf(games[i], t)]
           g == [i \in DOMAIN gs |-> StakeOf(gs[i], t)]
<1>1. /\ DOMAIN games = 1 .. Len(games) /\ Len(games) \in Nat /\ DOMAIN gs = 1 .. N
      /\ gs[N] = game /\ \A i \in DOMAIN games : gs[i] = games[i]
  BY DEF TypeOK
<1>2. IsFiniteSet(1 .. N) /\ IsFiniteSet(DOMAIN games)
  <2>1. IsFiniteSet(1 .. N)
    BY <1>1, FS_Interval
  <2> QED BY <2>1, StakesAreNat
<1>3. \A i \in DOMAIN games : f[i] \in Int /\ g[i] = f[i]
  BY <1>1, StakesAreNat
<1>4. g[N] = StakeOf(game, t) /\ StakeOf(game, t) \in Int
  BY <1>1, StakeIsNat
<1>5. StakedIn(games, t) = SumFunctionOnSet(f, DOMAIN games)
  BY DEF StakedIn, SumFunction
<1>6. StakedIn(gs, t) = SumFunctionOnSet(g, 1 .. N)
  BY <1>1 DEF StakedIn, SumFunction
<1>7. N \in 1 .. N /\ (1 .. N) \ {N} = DOMAIN games
  BY <1>1
<1> HIDE DEF f, g, gs, N
<1>8. \A i \in 1 .. N : g[i] \in Int
  BY <1>3, <1>4, <1>7
<1>9. SumFunctionOnSet(g, 1 .. N) = g[N] + SumFunctionOnSet(g, (1 .. N) \ {N})
  BY <1>2, <1>7, <1>8, SumWithout
<1>10. SumFunctionOnSet(g, DOMAIN games) = SumFunctionOnSet(f, DOMAIN games)
  BY <1>2, <1>3, SumSame
<1>11. SumFunctionOnSet(f, DOMAIN games) \in Int
  BY <1>2, <1>3, SumInt
<1>12. StakedIn(gs, t) = StakedIn(games, t) + StakeOf(game, t)
  BY <1>4, <1>5, <1>6, <1>7, <1>9, <1>10, <1>11
<1> QED BY <1>12 DEF gs

\* The end of a game releases its stakes and no others.
LEMMA StakedByEnd ==
  ASSUME TypeOK, NEW i, Active(i), NEW game \in Game, game.status # "active",
         games' = [games EXCEPT ![i] = game], NEW t \in Tokens
  PROVE  StakedIn(games', t) = StakedIn(games, t) - StakeOf(games[i], t)
<1> DEFINE f == [j \in DOMAIN games |-> StakeOf(games[j], t)]
           g == [j \in DOMAIN games' |-> StakeOf(games'[j], t)]
<1>1. /\ i \in DOMAIN games /\ DOMAIN games = 1 .. Len(games) /\ Len(games) \in Nat
      /\ DOMAIN games' = DOMAIN games
      /\ games'[i] = game /\ \A j \in DOMAIN games : j # i => games'[j] = games[j]
  BY EndType DEF TypeOK, Active
<1>2. IsFiniteSet(DOMAIN games)
  BY StakesAreNat
<1>3. \A j \in DOMAIN games : f[j] \in Int
  BY StakesAreNat
<1>4. g[i] = 0 /\ \A j \in DOMAIN games \ {i} : g[j] = f[j]
  BY <1>1 DEF StakeOf
<1>5. f[i] = StakeOf(games[i], t)
  BY <1>1
<1>6. StakedIn(games, t) = SumFunctionOnSet(f, DOMAIN games)
  BY DEF StakedIn, SumFunction
<1>7. StakedIn(games', t) = SumFunctionOnSet(g, DOMAIN games)
  BY <1>1 DEF StakedIn, SumFunction
<1> HIDE DEF f, g
<1>8. SumFunctionOnSet(g, DOMAIN games) = SumFunctionOnSet(f, DOMAIN games) + g[i] - f[i]
  BY <1>1, <1>2, <1>3, <1>4, SumUpdate
<1>9. SumFunctionOnSet(f, DOMAIN games) \in Int /\ f[i] \in Int
  BY <1>1, <1>2, <1>3, SumInt
<1> QED BY <1>4, <1>5, <1>6, <1>7, <1>8, <1>9

LEMMA BooksAfter ==
  ASSUME NEW t \in Tokens
  PROVE  Owed(t)' = OwedIn(balances', t) /\ Staked(t)' = StakedIn(games', t)
<1>1. Owed(t)' = OwedIn(balances', t)
  BY DEF Owed, OwedIn
<1>2. \A i \in DOMAIN games' :
        (IF Active(i)' /\ games'[i].token = t THEN games'[i].wager * 2 ELSE 0)
          = StakeOf(games'[i], t)
  BY DEF Active, StakeOf
<1>3. [i \in DOMAIN games' |->
         IF Active(i)' /\ games'[i].token = t THEN games'[i].wager * 2 ELSE 0]
        = [i \in DOMAIN games' |-> StakeOf(games'[i], t)]
  BY <1>2
<1> QED BY <1>1, <1>3 DEF Staked, StakedIn

LEMMA TransferAtSelf ==
  ASSUME TypeOK, NEW t \in Tokens, NEW n \in Nat, NEW from \in Accounts, NEW to \in Accounts,
         Transfer(t, n, from, to), NEW s \in Tokens
  PROVE  /\ ledger[s][Self] \in Nat
         /\ ledger'[s][Self] = ledger[s][Self]
              + (IF s = t /\ to = Self THEN n ELSE 0) - (IF s = t /\ from = Self THEN n ELSE 0)
<1>1. Self \in Accounts /\ ledger \in [Tokens -> [Accounts -> Nat]]
  BY DEF Accounts, TypeOK
<1> QED BY <1>1 DEF Transfer

\* Whatever an action does to the tokens held, the balances, the stakes and the
\* fees, it does to both sides of the books.
LEMMA BooksPerStep ==
  ASSUME TypeOK, Solvent, Next, NEW s \in Tokens
  PROVE  ledger'[s][Self] =
           OwedIn(balances', s) + StakedIn(games', s) + accumulatedFees'[s]
<1>1. /\ ledger[s][Self] = OwedIn(balances, s) + StakedIn(games, s) + accumulatedFees[s]
      /\ OwedIn(balances, s) \in Int /\ StakedIn(games, s) \in Int
      /\ accumulatedFees[s] \in Nat
  BY BooksBefore DEF Solvent, TypeOK
<1>2. Self \in Accounts /\ Users \subseteq Accounts /\ Self \notin Users
  BY AccountsAssumption DEF Accounts
<1>3. /\ balances \in [Players -> [Tokens -> Nat]] /\ accumulatedFees \in [Tokens -> Nat]
      /\ games \in Seq(Game)
  BY DEF TypeOK
<1>4. Amounts \subseteq Nat
  BY BoundsAssumption
<1>5. ASSUME UNCHANGED <<balances, games, accumulatedFees, ledger>>
      PROVE  ledger'[s][Self] = OwedIn(balances', s) + StakedIn(games', s) + accumulatedFees'[s]
  BY <1>1, <1>5
<1>6. ASSUME NEW t \in Tokens, NEW n \in Amounts, NEW p \in Players, NEW u \in Users,
             Deposit(t, n, p, u)
      PROVE  ledger'[s][Self] = OwedIn(balances', s) + StakedIn(games', s) + accumulatedFees'[s]
  <2>1. /\ Transfer(t, n, u, Self) /\ balances' = CreditBalance(balances, p, t, n)
        /\ UNCHANGED <<games, accumulatedFees>>
    BY <1>6 DEF Deposit
  <2>2. ledger'[s][Self] = ledger[s][Self] + (IF s = t THEN n ELSE 0)
    BY <1>2, <1>4, <2>1, TransferAtSelf
  <2>3. OwedIn(balances', s) = OwedIn(balances, s) + (IF s = t THEN n ELSE 0)
    <3>1. n \in Nat
      BY <1>4
    <3>2. balances \in [Players -> [Tokens -> Nat]]
      BY <1>3
    <3>3. OwedIn(CreditBalance(balances, p, t, n), s) =
            OwedIn(balances, s) + (IF s = t THEN n ELSE 0)
      BY ONLY <3>1, <3>2, OwedAfterCredit
    <3> QED BY <2>1, <3>3
  <2> QED BY <1>1, <1>4, <2>1, <2>2, <2>3
<1>7. ASSUME NEW t \in Tokens, NEW n \in Amounts, NEW p \in Players, NEW to \in Accounts,
             NEW id \in AuthIds, Withdraw(p, t, n, to, id)
      PROVE  ledger'[s][Self] = OwedIn(balances', s) + StakedIn(games', s) + accumulatedFees'[s]
  <2> DEFINE fee == Fee(n, withdrawFeeRate)
             payee == ActualRecipient(p, to)
  <2>1. fee \in Nat /\ n - fee \in Nat /\ n \in Nat
    BY <1>4, FeesInForce
  <2>2. payee \in Accounts
    BY DEF ActualRecipient, TypeOK, Accounts
  <2>3. /\ Transfer(t, n - fee, Self, payee) /\ balances' = DebitBalance(balances, p, t, n)
        /\ accumulatedFees' = [accumulatedFees EXCEPT ![t] = @ + fee] /\ games' = games
    BY <1>7 DEF Withdraw
  <2> HIDE DEF fee, payee
  <2>4. payee # Self
    BY <2>3 DEF Transfer
  <2>5. ledger'[s][Self] = ledger[s][Self] - (IF s = t THEN n - fee ELSE 0)
    <3>1. /\ ledger[s][Self] \in Nat
          /\ ledger'[s][Self] = ledger[s][Self]
               + (IF s = t /\ payee = Self THEN n - fee ELSE 0)
               - (IF s = t /\ Self = Self THEN n - fee ELSE 0)
      BY <1>2, <2>1, <2>2, <2>3, TransferAtSelf
    <3> QED BY <2>1, <2>4, <3>1
  <2>6. OwedIn(balances', s) = OwedIn(balances, s) - (IF s = t THEN n ELSE 0)
    BY <1>3, <2>1, <2>3, OwedAfterDebit
  <2>7. accumulatedFees'[s] = accumulatedFees[s] + (IF s = t THEN fee ELSE 0)
    BY <1>3, <2>1, <2>3
  <2> QED BY <1>1, <2>1, <2>3, <2>5, <2>6, <2>7
<1>8. ASSUME NEW t \in Tokens, NEW n \in Amounts, NEW a \in Players, NEW b \in Players,
             NEW idA, NEW idB, NEW u, CreateGame(a, b, t, n, idA, idB, u)
      PROVE  ledger'[s][Self] = OwedIn(balances', s) + StakedIn(games', s) + accumulatedFees'[s]
  <2> DEFINE paidA == DebitBalance(balances, a, t, n)
             game == [playerA |-> a, playerB |-> b, token |-> t, wager |-> n,
                      status |-> "active", winner |-> NoWinner, createdAt |-> burnHeight]
  <2>1. /\ a # b /\ n \in Nat /\ n <= balances[a][t]
        /\ balances' = DebitBalance(paidA, b, t, n) /\ games' = Append(games, game)
        /\ UNCHANGED <<accumulatedFees, ledger>>
    BY <1>4, <1>8 DEF CreateGame
  <2>2. game \in Game /\ StakeOf(game, s) = IF s = t THEN n * 2 ELSE 0
    BY <2>1 DEF Game, TypeOK, StakeOf
  <2>3. paidA \in [Players -> [Tokens -> Nat]]
    BY <1>3, <2>1, CreditType
  <2>4. OwedIn(paidA, s) = OwedIn(balances, s) - (IF s = t THEN n ELSE 0)
    <3>1. n \in Nat
      BY <2>1
    <3>2. balances \in [Players -> [Tokens -> Nat]]
      BY <1>3
    <3> QED BY ONLY <3>1, <3>2, OwedAfterDebit
  <2> HIDE DEF paidA, game
  <2>5. OwedIn(balances', s) = OwedIn(paidA, s) - (IF s = t THEN n ELSE 0)
    BY <2>1, <2>3, OwedAfterDebit
  <2>6. StakedIn(games', s) = StakedIn(games, s) + StakeOf(game, s)
    BY <2>1, <2>2, StakedByNewGame
  <2> QED BY <1>1, <2>1, <2>2, <2>4, <2>5, <2>6
<1>9. ASSUME NEW i, NEW p \in Players, NEW u, ResolveGame(i, p, u)
      PROVE  ledger'[s][Self] = OwedIn(balances', s) + StakedIn(games', s) + accumulatedFees'[s]
  <2> DEFINE game == games[i]
             ended == [game EXCEPT !.status = "resolved", !.winner = p]
             pot == game.wager * 2
             fee == Fee(pot, feeRate)
  <2>1. /\ game \in Game /\ game.status = "active" /\ Active(i)
        /\ games' = [games EXCEPT ![i] = ended] /\ ended \in Game /\ ended.status = "resolved"
    <3>1. Active(i)
      BY <1>9 DEF ResolveGame
    <3>2. /\ game \in Game /\ game.status = "active"
          /\ games' = [games EXCEPT ![i] = ended] /\ ended \in Game
      BY <1>9, ResolveEffect
    <3>3. ended.status = "resolved"
      BY <3>2 DEF Game
    <3> QED BY <3>1, <3>2, <3>3
  <2>2. /\ balances' = CreditBalance(balances, p, game.token, pot - fee)
        /\ accumulatedFees' = [accumulatedFees EXCEPT ![game.token] = @ + fee]
        /\ ledger' = ledger
    BY <1>9 DEF ResolveGame
  <2>3. pot \in Nat /\ game.token \in Tokens
    BY <2>1 DEF Game
  <2>4. fee \in Nat /\ pot - fee \in Nat
    BY <2>3, FeesInForce
  <2>5. StakeOf(game, s) = IF s = game.token THEN pot ELSE 0
    BY <2>1 DEF StakeOf
  <2> DEFINE t == game.token
             paid == pot - fee
  <2> HIDE DEF ended, pot, fee, t, game, paid
  <2>6. StakedIn(games', s) = StakedIn(games, s) - StakeOf(game, s)
    BY <2>1, StakedByEnd DEF game
  <2>7. OwedIn(balances', s) = OwedIn(balances, s) + (IF s = t THEN paid ELSE 0)
    BY <1>3, <2>2, <2>3, <2>4, OwedAfterCredit DEF t, paid
  <2>8. accumulatedFees'[s] = accumulatedFees[s] + (IF s = t THEN fee ELSE 0)
    BY <1>3, <2>2, <2>3, <2>4 DEF t
  <2>9. paid = pot - fee /\ StakeOf(game, s) = IF s = t THEN pot ELSE 0
    BY <2>5 DEF paid, t
  <2> QED BY <1>1, <2>2, <2>3, <2>4, <2>6, <2>7, <2>8, <2>9
<1>10. ASSUME NEW i, NEW u, CancelGame(i, u)
       PROVE  ledger'[s][Self] = OwedIn(balances', s) + StakedIn(games', s) + accumulatedFees'[s]
  <2> DEFINE game == games[i]
             ended == [game EXCEPT !.status = "cancelled"]
             t == game.token
             fee == Fee(game.wager, withdrawFeeRate)
             refund == game.wager - fee
             paidA == CreditBalance(balances, game.playerA, t, refund)
  <2>1. /\ game \in Game /\ game.status = "active" /\ Active(i)
        /\ games' = [games EXCEPT ![i] = ended] /\ ended \in Game /\ ended.status = "cancelled"
    <3>1. Active(i)
      BY <1>10 DEF CancelGame
    <3>2. /\ game \in Game /\ game.status = "active"
          /\ games' = [games EXCEPT ![i] = ended] /\ ended \in Game
      BY <1>10, CancelEffect
    <3>3. ended.status = "cancelled"
      BY <3>2 DEF Game
    <3> QED BY <3>1, <3>2, <3>3
  <2>2. /\ balances' = CreditBalance(paidA, game.playerB, t, refund)
        /\ accumulatedFees' = [accumulatedFees EXCEPT ![t] = @ + fee * 2]
        /\ ledger' = ledger
    BY <1>10 DEF CancelGame
  <2>3. /\ game.wager \in Nat /\ t \in Tokens /\ game.playerA \in Players
        /\ game.playerB \in Players
    BY <2>1 DEF Game
  <2>4. fee \in Nat /\ refund \in Nat /\ game.wager = refund + fee
    <3>1. fee \in Nat /\ refund \in Nat
      BY <2>3, FeesInForce
    <3> QED BY <2>3, <3>1
  <2>5. StakeOf(game, s) = IF s = t THEN game.wager * 2 ELSE 0
    BY <2>1 DEF StakeOf
  <2>6. paidA \in [Players -> [Tokens -> Nat]]
    <3> HIDE DEF refund, t
    <3> QED BY <1>3, <2>3, <2>4, CreditType
  <2>7. OwedIn(paidA, s) = OwedIn(balances, s) + (IF s = t THEN refund ELSE 0)
    <3>1. refund \in Nat /\ t \in Tokens /\ game.playerA \in Players
      BY <2>3, <2>4
    <3> HIDE DEF refund, t, game
    <3>2. balances \in [Players -> [Tokens -> Nat]]
      BY <1>3
    <3> QED BY ONLY <3>1, <3>2, OwedAfterCredit
  <2>8. StakedIn(games', s) = StakedIn(games, s) - StakeOf(game, s)
    <3> HIDE DEF ended
    <3> QED BY <2>1, StakedByEnd
  <2> HIDE DEF game, ended, t, fee, refund, paidA
  <2>9. OwedIn(balances', s) = OwedIn(paidA, s) + (IF s = t THEN refund ELSE 0)
    BY <2>2, <2>3, <2>4, <2>6, OwedAfterCredit
  <2>10. accumulatedFees'[s] = accumulatedFees[s] + (IF s = t THEN fee * 2 ELSE 0)
    BY <1>3, <2>2, <2>3, <2>4
  <2> QED BY <1>1, <2>2, <2>3, <2>4, <2>5, <2>7, <2>8, <2>9, <2>10
<1>11. ASSUME NEW t \in Tokens, NEW u, SweepFees(t, u)
       PROVE  ledger'[s][Self] = OwedIn(balances', s) + StakedIn(games', s) + accumulatedFees'[s]
  <2>1. /\ Transfer(t, accumulatedFees[t], Self, treasury)
        /\ accumulatedFees' = [accumulatedFees EXCEPT ![t] = 0]
        /\ UNCHANGED <<balances, games>>
    BY <1>11 DEF SweepFees
  <2>2. accumulatedFees[t] \in Nat /\ treasury \in Accounts /\ treasury # Self
    BY <1>2, <1>3 DEF TypeOK
  <2>3. /\ ledger[s][Self] \in Nat
        /\ ledger'[s][Self] = ledger[s][Self]
             + (IF s = t /\ treasury = Self THEN accumulatedFees[t] ELSE 0)
             - (IF s = t /\ Self = Self THEN accumulatedFees[t] ELSE 0)
    BY <1>2, <2>1, <2>2, TransferAtSelf
  <2>4. accumulatedFees'[s] = IF s = t THEN 0 ELSE accumulatedFees[s]
    BY <1>3, <2>1
  <2> QED BY <1>1, <2>1, <2>2, <2>3, <2>4
<1>12. CASE NextBlock
  BY <1>5, <1>12 DEF NextBlock, escrowVars
<1>13. CASE Playing
  <2>1. ASSUME NEW p \in Players, NEW w \in Wallets, NEW id \in AuthIds, RegisterWallet(p, w, id)
        PROVE  UNCHANGED <<balances, games, accumulatedFees, ledger>>
    BY <2>1 DEF RegisterWallet, escrowVars
  <2> QED BY <1>5, <1>6, <1>7, <1>8, <1>13, <2>1 DEF Playing
<1>14. CASE Ending
  BY <1>9, <1>10, <1>14 DEF Ending
<1>15. CASE Administering
  <2>1. ASSUME NEW u, NEW x, NEW r, NEW t,
               \/ SetOracle(x, u) \/ SetTreasury(x, u) \/ SetFeeRate(r, u)
               \/ SetWithdrawFeeRate(r, u) \/ SetTokenWhitelist(t, r, u)
        PROVE  UNCHANGED <<balances, games, accumulatedFees, ledger>>
    BY <2>1 DEF SetOracle, SetTreasury, SetFeeRate, SetWithdrawFeeRate, SetTokenWhitelist,
                escrowVars
  <2> QED BY <1>5, <1>11, <1>15, <2>1 DEF Administering
<1> QED BY <1>12, <1>13, <1>14, <1>15 DEF Next

\* The contract never owes more than it holds, nor holds more than it owes:
\* deposit, withdraw, create-game, resolve-game, cancel-game and sweep-fees keep
\* balances, stakes and fees in step with its tokens, for any fees and amounts.
THEOREM EscrowIsSolvent == Spec => []Solvent
<1>1. Init => Solvent
  <2> SUFFICES ASSUME Init, NEW t \in Tokens
               PROVE  ledger[t][Self] = Owed(t) + Staked(t) + accumulatedFees[t]
    BY DEF Solvent
  <2>1. ledger[t][Self] = 0 /\ accumulatedFees[t] = 0
    BY AccountsAssumption DEF Init, Accounts
  <2>2. Owed(t) = 0
    <3> DEFINE f == [p \in Players |-> balances[p][t]]
    <3>1. DOMAIN f = Players /\ \A p \in Players : f[p] = 0
      BY DEF Init
    <3>2. Owed(t) = SumFunctionOnSet(f, Players)
      BY <3>1 DEF Owed, SumFunction
    <3> HIDE DEF f
    <3> QED BY <3>1, <3>2, AccountsAssumption, SumOfZeros
  <2>3. Staked(t) = 0
    <3> DEFINE f == [i \in DOMAIN games |->
                       IF Active(i) /\ games[i].token = t THEN games[i].wager * 2 ELSE 0]
    <3>1. DOMAIN f = {} /\ IsFiniteSet({})
      BY FS_EmptySet DEF Init
    <3>2. Staked(t) = SumFunctionOnSet(f, {})
      BY <3>1 DEF Staked, SumFunction
    <3> HIDE DEF f
    <3> QED BY <3>1, <3>2, SumOfZeros
  <2> QED BY <2>1, <2>2, <2>3
<1>2. TypeOK /\ Solvent /\ [Next]_vars => Solvent'
  <2> SUFFICES ASSUME TypeOK, Solvent, [Next]_vars
               PROVE  Solvent'
    OBVIOUS
  <2>1. ASSUME NEW t \in Tokens
        PROVE  ledger'[t][Self] = OwedIn(balances', t) + StakedIn(games', t) + accumulatedFees'[t]
    <3>1. CASE Next
      BY <3>1, BooksPerStep
    <3>2. CASE UNCHANGED vars
      BY <3>2, BooksBefore DEF vars, escrowVars, Solvent
    <3> QED BY <3>1, <3>2
  <2>2. ASSUME NEW t \in Tokens
        PROVE  ledger'[t][Self] = Owed(t)' + Staked(t)' + accumulatedFees'[t]
    BY <2>1, BooksAfter
  <2> QED BY <2>2 DEF Solvent
<1> QED BY <1>1, <1>2, WagerTypeCorrect, PTL DEF Spec
=============================================================================
