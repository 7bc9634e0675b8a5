---------------------------- MODULE MCSimulation ----------------------------
(* The scripts with the constants of the deployed contracts.               *)
EXTENDS Simulation

NoAmounts == [stx |-> {}, sbtc |-> {}, other |-> {}]
NoFunds == [stx |-> 0, sbtc |-> 0, other |-> 0, nft |-> 0, staked |-> 0]
Deployed == [stx |-> 100, sbtc |-> 100000, cooldown |-> 144]
Pool == DOMAIN LifecycleStakers
SeededRouters == {RouterTokens[i].name : i \in DOMAIN RouterTokens}
NamedRouters == SeededRouters \cup {"mock-smart-router"}
=============================================================================
