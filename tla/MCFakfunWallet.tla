--------------------------- MODULE MCFakfunWallet ---------------------------
(* Small instances of the trading wallet.                                  *)
EXTENDS FakfunWallet, TLC

CONSTANTS alice, bob, rec, dep, reg, a1, a2, a3, a4, h1, h2, h3, h4, m1, x1, r1

Policy1 == [stx |-> 1, sbtc |-> 1, cooldown |-> 1]
NoAmounts == [stx |-> {}, sbtc |-> {}, other |-> {}]
StxAmounts == [stx |-> {2}, sbtc |-> {}, other |-> {}]
TwoStx == [stx |-> 2, sbtc |-> 0, other |-> 0, nft |-> 0, staked |-> 0]
NoFunds == [stx |-> 0, sbtc |-> 0, other |-> 0, nft |-> 0, staked |-> 0]
Exact3 == {<<a1, h1>>, <<a2, h2>>, <<a3, h3>>}
Exact4 == Exact3 \cup {<<a4, h4>>}
\* The gestures are interchangeable: nothing names an assertion or a hash.
Gestures(signs) ==
  {f \in Permutations({s[1] : s \in signs} \cup {s[2] : s \in signs}) :
     \A s \in signs : <<f[s[1]], f[s[2]]>> \in signs}
Gestures3 == Gestures(Exact3)
Gestures4 == Gestures(Exact4)
=============================================================================
