---------------------------- MODULE MCJuiceSafe ----------------------------
(* Small instances of the safe: values a .cfg cannot write.                 *)
EXTENDS JuiceSafeRefinement, TLC

CONSTANTS alice, bob, rec, dep,   \* Users: two admins, the recovery key, the deployer
          a1, a2, a3, h1, h2, h3, m1, m2

Policy1 == [stx |-> 2, sbtc |-> 2, cooldown |-> 1]
Policy2 == [stx |-> 1, sbtc |-> 1, cooldown |-> 2]
TooShort == [stx |-> 1, sbtc |-> 1, cooldown |-> 0]
AliceOnly == {[owner |-> alice, recovery |-> rec, config |-> Policy1]}
AliceOrSelf == AliceOnly \cup {[owner |-> Self, recovery |-> rec, config |-> Policy1],
                           [owner |-> bob, recovery |-> Self, config |-> Policy1]}
OnePolicy == {Policy2}
TwoPolicies == {Policy1, Policy2, TooShort}
ShippedPolicy == [stx |-> 1, sbtc |-> 1, cooldown |-> 1]

MoneyAmounts == [stx |-> {1, 3}, sbtc |-> {1}, other |-> {1}]
LargeWithdrawal == {[amount |-> 2, maxFee |-> 1]}
MoneyFunds == [stx |-> 5, sbtc |-> 4, other |-> 1, nft |-> 1, staked |-> 0]
NoAmounts == [stx |-> {}, sbtc |-> {}, other |-> {}]
StxAmounts == [stx |-> {1, 3}, sbtc |-> {}, other |-> {}]
StxFunds == [stx |-> 5, sbtc |-> 2, other |-> 0, nft |-> 0, staked |-> 0]

\* clarity-5-webauthn-v4: an assertion verifies for the one hash it embeds.
Exact2 == {<<a1, h1>>, <<a2, h2>>}
\* The gestures are interchangeable: nothing names an assertion or a hash.
Gestures == {f \in Permutations({a1, a2, h1, h2}) :
               \A s \in Exact2 : <<f[s[1]], f[s[2]]>> \in Exact2}
\* The user signed hashes twice, and (with the substring match of the helper the
\* comment on used-assertions describes) one assertion carries two hashes.
Overlapping == {<<a1, h1>>, <<a2, h1>>, <<a2, h2>>, <<a3, h2>>, <<a3, h3>>}
=============================================================================
