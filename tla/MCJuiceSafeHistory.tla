------------------------- MODULE MCJuiceSafeHistory -------------------------
(* Small instances of the safe with history.                               *)
EXTENDS MCJuiceSafe, JuiceSafeHistory

HalfAndLargeStx == [stx |-> {2, 3}, sbtc |-> {}, other |-> {}]
OneStx == [stx |-> {1}, sbtc |-> {}, other |-> {}]
ManyStx == [stx |-> 6, sbtc |-> 0, other |-> 0, nft |-> 0, staked |-> 0]
=============================================================================
