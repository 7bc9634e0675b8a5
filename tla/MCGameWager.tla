---------------------------- MODULE MCGameWager ----------------------------
(* Small instances of the wager escrow, and its liveness.                  *)
EXTENDS GameWager

CONSTANTS dep, orc, pat, p1, p2, p3, w1, w2, tok

P1Vouched == {<<w1, p1>>}
P1VouchedByBoth == {<<w1, p1>>, <<w2, p1>>}

CONSTANT Horizon   \* bound: the last block in which players, oracle and deployer act

\* Everybody acts as they like up to Horizon, nobody needs to after it; the
\* chain goes on, and a stranger cancels every game the code lets them cancel.
StrangerCancels(i) == \E u \in Users \ {oracle} : CancelGame(i, u)
DesertedNext ==
  \/ NextBlock
  \/ \E i \in 1 .. MaxGames : StrangerCancels(i)
  \/ burnHeight <= Horizon /\ (Playing \/ Ending \/ Administering)
DesertedSpec ==
  /\ Init /\ [][DesertedNext]_vars /\ WF_vars(NextBlock)
  /\ \A i \in 1 .. MaxGames : WF_vars(StrangerCancels(i))

\* No stake is locked for ever: every game ends even if the oracle never acts
\* again (cancel-game after GAME_TIMEOUT).
EveryGameEnds == \A i \in 1 .. MaxGames : Active(i) ~> ~Active(i)
=============================================================================
