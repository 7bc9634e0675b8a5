------------------------------ MODULE SimWager ------------------------------
(* The simulations of game-wager-v2: a game that is won, games that are     *)
(* cancelled, the deployer's setters, and refused calls.                    *)
EXTENDS SimSteps

\* The actors of simul-game-wager-v2.js; SP28MP1H... is the oracle at deployment.
WagerActors ==
  [deployer |-> "deployer", oracle |-> "fakfun", token |-> "test-token",
   walletA |-> "test-wallet-a", walletB |-> "test-wallet-b",
   mint |-> 10000000, deposit |-> 1000000, wager |-> 500000, withdraw |-> 400000]
PubA == "pub-a"
PubB == "pub-b"

SpecRegisterWallet(id, wallet) ==
  [topic |-> "register-wallet", authId |-> id, wallet |-> wallet]
SpecWager(id, opponent, token, wager) ==
  [topic |-> "wager", authId |-> id, opponent |-> opponent, token |-> token, wager |-> wager]
SpecWithdraw(id, amount, recipient, token) ==
  [topic |-> "withdraw", authId |-> id, amount |-> amount, recipient |-> recipient,
   token |-> token]

CreateGameCall(by, a, b, token, wager, authA, authB) ==
  Step("create-game", by, [a |-> a, b |-> b, token |-> token, wager |-> wager], <<authA, authB>>)
GameCall(by, op, id) == Call(by, op, [game |-> id])
DepositCall(token, amount, player) ==
  Call("deployer", "deposit", [token |-> token, amount |-> amount, player |-> player])
Mint(token, amount) == Call("deployer", "mint", [token |-> token, amount |-> amount])
Setter(op, value) == Call("deployer", op, [value |-> value])
-----------------------------------------------------------------------------
(* simul-game-wager-v2.js: A wins, both register wallets, A withdraws.      *)

BuildPlayerAOps(pubB) ==
  LET p == WagerActors
  IN  <<SpecRegisterWallet(1, p.walletA), SpecWager(2, pubB, p.token, p.wager),
        SpecWithdraw(3, p.withdraw, p.walletA, p.token)>>
BuildPlayerBOps(pubA) ==
  LET p == WagerActors
  IN  <<SpecRegisterWallet(1, p.walletB), SpecWager(2, pubA, p.token, p.wager)>>
BuildTestBundles ==
  [a |-> BuildSignedBundle(PubA, BuildPlayerAOps(PubB)),
   b |-> BuildSignedBundle(PubB, BuildPlayerBOps(PubA))]

\* Whitelist the token, mint, deposit for both players.
WagerSetup(p) ==
  <<Call("deployer", "set-token-whitelist", [token |-> p.token, enabled |-> TRUE]),
    Mint(p.token, p.mint),
    DepositCall(p.token, p.deposit, PubA), DepositCall(p.token, p.deposit, PubB)>>
WagerGame ==
  LET p == WagerActors
      sig == BuildTestBundles
      Register(wallet, auth) == Relayed("deployer", "register-wallet", [wallet |-> wallet], auth)
  IN  <<CreateGameCall(p.oracle, PubA, PubB, p.token, p.wager, sig.a[2], sig.b[2]),
        Call(p.oracle, "resolve-game", [game |-> 0, winner |-> PubA]),
        Register(p.walletA, sig.a[1]), Register(p.walletB, sig.b[1]),
        Relayed("deployer", "withdraw",
                [token |-> p.token, amount |-> p.withdraw, recipient |-> p.walletA], sig.a[3]),
        See("final")>>
WagerScript == WagerSetup(WagerActors) \o WagerGame
-----------------------------------------------------------------------------
(* simul-game-wager-v2-cancel.js: the oracle cancels a game at once, anybody *)
(* cancels another after GAME_TIMEOUT.                                      *)

CancelActors == [WagerActors EXCEPT !.wager = 100000] @@ [random |-> "owner", advance |-> 150]
CancelBundle(key, opponent) ==
  LET p == CancelActors
  IN  BuildSignedBundle(key, <<SpecWager(1, opponent, p.token, p.wager),
                               SpecWager(2, opponent, p.token, p.wager)>>)
CancelGames ==
  LET p == CancelActors
      a == CancelBundle(PubA, PubB)
      b == CancelBundle(PubB, PubA)
      Create(i) == CreateGameCall(p.oracle, PubA, PubB, p.token, p.wager, a[i], b[i])
  IN  WagerSetup(p) \o
      <<Create(1), GameCall(p.oracle, "cancel-game", 0),
        Create(2), Advance(p.advance, 0), GameCall(p.random, "cancel-game", 1), See("final")>>
\* "each player gets back wager-amount * (1 - withdraw-fee-rate/10000)"; the
\* game nonce is expected to be 2.
CancelChecks(seen) ==
  /\ Len(seen.final.games) = 2
  /\ \A p \in {PubA, PubB} : seen.final.balances[p]["test-token"] = 1000000 - 2 * (100000 - 99000)
-----------------------------------------------------------------------------
(* simul-game-wager-v2-admin.js: rates and their caps, treasury, sweep,     *)
(* the hand-over to another oracle.                                         *)

AdminActors ==
  [CancelActors EXCEPT !.advance = 0]
    @@ [newTreasury |-> "owner", newOracle |-> "new-oracle",
        feeRateLimit |-> 2000, withdrawFeeLimit |-> 1000, newWithdrawFeeRate |-> 200]
AdminExpectedFee == 2 * ((AdminActors.wager * AdminActors.newWithdrawFeeRate) \div 10000)
AdminRates ==
  LET p == AdminActors
  IN  <<Call("deployer", "set-token-whitelist", [token |-> p.token, enabled |-> TRUE]),
        Mint(p.token, p.mint),
        Setter("set-fee-rate", 800),
        Refused(Setter("set-fee-rate", p.feeRateLimit + 1), "u7009"),
        Setter("set-withdraw-fee-rate", p.newWithdrawFeeRate),
        Refused(Setter("set-withdraw-fee-rate", p.withdrawFeeLimit + 1), "u7009"),
        Setter("set-treasury", p.newTreasury)>>
AdminFees ==
  LET p == AdminActors
      SignedBy(key, opponent) ==
        BuildSignedBundle(key, <<SpecWager(1, opponent, p.token, p.wager)>>)[1]
  IN  <<DepositCall(p.token, p.deposit, PubA), DepositCall(p.token, p.deposit, PubB),
        CreateGameCall(p.oracle, PubA, PubB, p.token, p.wager,
                       SignedBy(PubA, PubB), SignedBy(PubB, PubA)),
        GameCall(p.oracle, "cancel-game", 0),
        See("beforeSweep"), Call("deployer", "sweep-fees", [token |-> p.token]), See("afterSweep"),
        Setter("set-oracle", p.newOracle), See("final")>>
AdminScript == AdminRates \o AdminFees
AdminChecks(seen) ==
  LET Reads(view, fees, treasuryBalance) ==
        /\ view.accumulatedFees["test-token"] = fees
        /\ view.ledger["test-token"]["owner"] = treasuryBalance
  IN  /\ Reads(seen.beforeSweep, AdminExpectedFee, 0)
      /\ Reads(seen.afterSweep, 0, AdminExpectedFee)
      /\ seen.final.oracle = AdminActors.newOracle
      /\ seen.final.feeRate = 800 /\ seen.final.withdrawFeeRate = 200
-----------------------------------------------------------------------------
(* simul-game-wager-v2-negative.js: eight calls, seven of them refused.     *)

NegativeActors == CancelActors @@ [unapproved |-> "unapproved-token"]
NegativeSigs ==
  LET p == NegativeActors
      register == SpecRegisterWallet(1, p.walletA)
  IN  [valid |-> SignChallenge(register, PubA),
       wrongRp |-> SignChallengeWithRpId(register, PubA, "example.com"),
       garbage |-> Garbage(SignChallenge(register, PubA)),
       samePlayer |-> SignChallenge(SpecWager(2, PubA, p.token, p.wager), PubA)]
NegativeScript ==
  LET p == NegativeActors
      sig == NegativeSigs
      Register(signed) == Relayed("deployer", "register-wallet", [wallet |-> p.walletA],
                                  SigAuth(1, PubA, signed))
      Create(by, a, b, id) ==
        CreateGameCall(by, a, b, p.token, p.wager,
                       SigAuth(id, a, sig.samePlayer), SigAuth(id, b, sig.samePlayer))
  IN  <<Call("deployer", "set-token-whitelist", [token |-> p.token, enabled |-> TRUE]),
        Mint(p.token, p.mint), Mint(p.unapproved, p.mint),
        DepositCall(p.token, p.deposit, PubA),
        Refused(Register(sig.wrongRp), "u7003"),
        Refused(Register(sig.garbage), "u7003"),
        Register(sig.valid),
        Refused(Register(sig.valid), "u7010"),
        Refused(DepositCall(p.unapproved, p.deposit, PubA), "u7013"),
        Refused(Create(p.random, PubA, PubB, 99), "u7001"),
        Refused(Create(p.oracle, PubA, PubA, 2), "u7012"),
        Refused(Call(p.random, "set-fee-rate", [value |-> 1000]), "u7002")>>
=============================================================================
