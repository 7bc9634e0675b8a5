-------------------------- MODULE MCAutostakeSafe --------------------------
(* Small instances of the safe with a keeper.                              *)
EXTENDS AutostakeSafe, TLC

CONSTANTS alice, bob, rec, dep, a1, a2, h1, h2, m1

Policy1 == [stx |-> 1, sbtc |-> 1, cooldown |-> 1]
AliceOnly == {[owner |-> alice, recovery |-> rec, config |-> Policy1]}
StxAmounts == [stx |-> {1}, sbtc |-> {}, other |-> {}]
TwoStx == [stx |-> 2, sbtc |-> 0, other |-> 0, nft |-> 0, staked |-> 0]
Exact2 == {<<a1, h1>>, <<a2, h2>>}
\* The gestures are interchangeable: nothing names an assertion or a hash.
Gestures == {f \in Permutations({a1, a2, h1, h2}) :
               \A s \in Exact2 : <<f[s[1]], f[s[2]]>> \in Exact2}
=============================================================================
