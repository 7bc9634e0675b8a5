------------------------- MODULE JuiceSafeHistory --------------------------
(***************************************************************************)
(* The safe with history variables: which factors have acted since it was  *)
(* onboarded, what it was onboarded with, and how much STX left unqueued   *)
(* in each block.  They only observe the steps of JuiceSafe.               *)
(***************************************************************************)
EXTENDS JuiceSafe, Functions

VARIABLES
  factors,        \* who has acted: "admin", "passkey", "recovery"
  onboarded,      \* the settings onboard installed
  unqueuedStx,    \* per block, the STX that left without having been queued
  loosest         \* the highest STX threshold and the shortest cooldown so far

history == <<factors, onboarded, unqueuedStx, loosest>>

Settings == [owner |-> owner, recovery |-> recoveryAddress, gas |-> maxGasAmount,
             stx |-> walletConfig.stx, sbtc |-> walletConfig.sbtc,
             cooldown |-> walletConfig.cooldown]

Max2(a, b) == IF a >= b THEN a ELSE b
Limits == [stx |-> walletConfig.stx, cooldown |-> walletConfig.cooldown]

Observe(actor) ==
  /\ factors' = factors \cup {actor}
  /\ UNCHANGED onboarded
  /\ loosest' = [stx |-> Max2(loosest.stx, walletConfig'.stx),
                 cooldown |-> Min2(loosest.cooldown, walletConfig'.cooldown)]
  /\ unqueuedStx' =
       [unqueuedStx EXCEPT ![burnHeight] = @ +
          IF \E i \in DOMAIN pendingOperations : JustExecuted(i) THEN 0 ELSE Drop("stx")]

HInit ==
  /\ Init
  /\ factors = {} /\ onboarded = Settings
  /\ unqueuedStx = [h \in 1 .. MaxHeight |-> 0]
  /\ loosest = Limits

HNext ==
  \/ (NextBlock \/ Unlock) /\ UNCHANGED history
  \/ /\ Onboarding /\ onboarded' = Settings' /\ loosest' = Limits'
     /\ UNCHANGED <<factors, unqueuedStx>>
  \/ /\ Spending \/ Staking \/ Settling \/ PolicyChange \/ Handover
     /\ Observe(IF PasskeySpoke THEN "passkey" ELSE "admin")
  \/ Recovery /\ Observe("recovery")

HSpec == HInit /\ [][HNext]_<<vars, history>>

Both == {"admin", "passkey"} \subseteq factors

\* Neither factor alone changes the owner, the recovery address, the policy or
\* the gas limit, however it orders its calls; only an inactive wallet's owner
\* is replaced without the passkey, by the recovery address.
NeitherFactorAlone ==
  /\ owner # onboarded.owner => Both \/ "recovery" \in factors
  /\ [Settings EXCEPT !.owner = onboarded.owner] # onboarded => Both

\* A passkey alone never makes a queued operation pay: neither those it queued
\* (the now path refuses them) nor any other (there is none to countersign).
PasskeyAloneNeverSettles ==
  factors \subseteq {"passkey"} =>
    \A i \in DOMAIN pendingOperations : ~pendingOperations[i].executed

\* The STX that leaves without queueing in any stretch of one cooldown is at most
\* twice the threshold: the lazily reset counter lets one period end and the next
\* one start inside the stretch, never a third.  Policy changes inside the
\* stretch do not help: a longer cooldown revives an expired period, a shorter
\* one never starts two.
UnqueuedWithinTwoThresholds ==
  \A h \in 1 .. MaxHeight :
    LET stretch == {k \in h .. h + loosest.cooldown : k <= MaxHeight}
    IN  SumFunctionOnSet(unqueuedStx, stretch) <= 2 * loosest.stx
=============================================================================
