----------------------------- MODULE SimMarkets -----------------------------
(* The simulations of what the trading wallet may spend on: extensions and  *)
(* their registry, and the routers of the markets.                          *)
EXTENDS SimTrading
LOCAL INSTANCE SequencesExt

(* simul-v19-registry-swap.js                                               *)

\* One USDCx is counted as a thousand here; the pool gives what suffices.
SwapAmounts ==
  [sbtc |-> 200000, usdcx |-> 20000, fee |-> 20, newFee |-> 100, tooHigh |-> 6000,
   quote |-> 1500, wait |-> 150]
Swap(action, amount, minOut) == [action |-> action, amount |-> amount, minOut |-> minOut]
ToSbtc == Swap("to-sbtc", 10000, 1000)
ToUsdcx == Swap("to-usdcx", 20000, 1)
Undecodable == "undecodable"

TFast(id, extension) == Message("whitelist-fast", id, [extension |-> extension])
TWhitelist(id, op, extension) ==
  Message("whitelist-extension", id, [op |-> op, extension |-> extension])
TExtension(id, extension, payload) ==
  Message("extension-call", id, [extension |-> extension, payload |-> payload])

Registry(by, op, contract) == Call(by, op, [extension |-> contract])
ListFast(id, extension, signedFor) ==
  Passkey(Call("relayer", "whitelist-extension-fast", [extension |-> extension]),
          TFast(id, signedFor))
ListSlowly(extension) == Call("owner", "whitelist-extension", [extension |-> extension])
ExecuteListing(id, op, extension) ==
  Passkey(Call("relayer", "execute-pending-whitelist", [id |-> op]),
          TWhitelist(id, op, extension))
SwapCall(by, payload) ==
  Call(by, "extension-call",
       [extension |-> "swap-v2", payload |-> payload, out |-> SwapAmounts.quote])
SignedSwap(id, payload) ==
  Passkey(SwapCall("relayer", payload), TExtension(id, "swap-v2", payload))
SwapFee(by, op, amount) == Call(by, op, [amount |-> amount])
SwapSponsor(by, op) == Call(by, op, [newSponsor |-> "relayer"])

RegistryBefore ==
  <<See("registry0"), Registry("deployer", "propose-extension", "swap-v2"),
    Refused(Registry("deployer", "confirm-extension", "swap-v2"), "u7103"),
    Refused(Registry("relayer", "propose-extension", "mock"), "u7101"),
    Call("deployer", "propose-owner", [newOwner |-> "relayer"]),
    Refused(Call("relayer", "accept-owner", NoArgs), "u7103")>>
SwapOnboarded ==
  <<OnboardTrading, See("born"), ProposeAdmin(1), AcceptAdmin, Advance(440, 0), ConfirmAdmin(2)>>
RegistryAfter ==
  <<Registry("deployer", "confirm-extension", "swap-v2"), See("confirmed"),
    Registry("deployer", "revoke-extension", "xtrata"), See("revoked"),
    Call("relayer", "accept-owner", NoArgs), See("handedOver"),
    Refused(Registry("deployer", "propose-extension", "mock"), "u7101")>>
ListingFast ==
  <<Call("owner", "remove-extension-whitelist", [extension |-> "swap-v2"]), See("removed"),
    Refused(ListFast(3, "mock", "mock"), "u4034"), ListFast(4, "swap-v2", "swap-v2"),
    See("listed")>>
ListingSlowly == <<ListSlowly("mock"), Refused(ExecuteListing(5, 0, "mock"), "u4017")>>
SwapsBothWays ==
  LET a == SwapAmounts
  IN  <<Fund("sbtc", a.sbtc), Fund("other", a.usdcx), See("swap0"),
        Moving(SignedSwap(6, ToSbtc), [sbtc |-> a.quote - a.fee, other |-> -ToSbtc.amount]),
        Moving(SwapCall("owner", ToUsdcx), [sbtc |-> -ToUsdcx.amount, other |-> a.quote])>>
SwapFeeGovernance ==
  LET a == SwapAmounts
  IN  <<Refused(SwapFee("relayer", "propose-fee", a.newFee), "u305"),
        Refused(SwapFee("deployer", "propose-fee", a.tooHigh), "u308"),
        SwapFee("deployer", "propose-fee", a.newFee),
        Refused(Call("deployer", "confirm-fee", NoArgs), "u307"), Advance(a.wait, 0),
        Call("deployer", "confirm-fee", NoArgs), See("newFee"),
        Moving(SwapCall("owner", ToUsdcx), [sbtc |-> -ToUsdcx.amount, other |-> a.quote])>>
SwapGuards ==
  <<Refused(SwapCall("owner", Swap("to-usdcx", 50, 1)), "u304"),
    Refused(SwapCall("owner", Swap("to-sbtc", 1000, 50)), "u304"),
    Refused(SwapCall("owner", Swap("to-nowhere", 20000, 1000)), "u301"),
    Refused(SwapCall("owner", Swap("to-usdcx", 0, 1000)), "u302"),
    Refused(SwapCall("owner", Swap("to-usdcx", 20000, 0)), "u303")>>
SponsorProposed ==
  <<SwapSponsor("deployer", "propose-sponsor"),
    Refused(Call("deployer", "confirm-sponsor", NoArgs), "u307"),
    Call("deployer", "cancel-sponsor-change", NoArgs), See("cancelled"),
    Call("deployer", "cancel-fee-change", NoArgs),
    Refused(Call("deployer", "confirm-sponsor", NoArgs), "u306"),
    SwapSponsor("deployer", "propose-sponsor")>>
ListingVetoed ==
  <<ExecuteListing(7, 0, "mock"), See("slow"), ListSlowly("swap-v1"), See("queued"),
    VetoCall("owner", 1), Refused(ExecuteListing(8, 1, "swap-v1"), "u4015")>>
NewRegistryOwner ==
  <<Registry("relayer", "propose-extension", "mock"), Registry("relayer", "revoke-pending", "mock"),
    See("unproposed"), Refused(Registry("relayer", "propose-extension", "swap-v2"), "u7104")>>
ListingChecked ==
  <<Refused(ListFast(4, "swap-v2", "swap-v2"), "u4006"),
    Refused(ListFast(9, "swap-v1", "mock"), "u4002"), ListFast(10, "swap-v1", "swap-v1"),
    See("v1Listed"),
    Refused(SwapCall("owner", Swap(Undecodable, 0, 0)), "u300")>>
SponsorConfirmed ==
  LET a == SwapAmounts
  IN  <<Advance(a.wait, 0), Call("deployer", "confirm-sponsor", NoArgs), See("rotated"),
        Refused(SwapFee("deployer", "propose-fee", a.fee), "u305"),
        Moving(SwapCall("owner", ToUsdcx), [sbtc |-> -ToUsdcx.amount, other |-> a.quote])>>
RegistrySwap ==
  RegistryBefore \o SwapOnboarded \o RegistryAfter \o ListingFast \o ListingSlowly
    \o SwapsBothWays \o SwapFeeGovernance \o SwapGuards \o SponsorProposed \o ListingVetoed
    \o NewRegistryOwner \o ListingChecked \o SponsorConfirmed

\* What the labels of its readings expect.
RegistrySwapChecks(seen) ==
  LET Listed(name) == seen[name].extensions
      Approved(name) == seen[name].registry.approved
  IN  /\ {"xtrata", "swap-v1"} \subseteq Approved("registry0") /\ "swap-v2" \notin Approved("registry0")
      /\ {"xtrata", "swap-v2"} \subseteq Listed("born") /\ "swap-v1" \notin Listed("born")
      /\ "swap-v2" \in Approved("confirmed") /\ "xtrata" \notin Approved("revoked")
      /\ seen.handedOver.registry.owner = "relayer"
      /\ "swap-v2" \notin Listed("removed") /\ "swap-v2" \in Listed("listed")
      /\ seen.swap0.swap.fee = SwapAmounts.fee /\ seen.newFee.swap.fee = SwapAmounts.newFee
      /\ seen.cancelled.swap.sponsor = "deployer" /\ seen.rotated.swap.sponsor = "relayer"
      /\ "mock" \in Listed("slow") /\ Len(seen.queued.operations) = 2
      /\ seen.unproposed.registry.pending["mock"] = 0 /\ "swap-v1" \in Listed("v1Listed")
-----------------------------------------------------------------------------
(* simul-v18-smart-swap.js and simul-v18-verify-deployed.js.  The swaps of   *)
(* its extension, which takes no fee, are left out.  Tokens are counted in   *)
(* millions, and a market is taken to give what the script sells next.       *)

RouterAmounts == [stx |-> 3000, sbtc |-> 2000000, usdcx |-> 20, perStx |-> 20, perSbtc |-> 50000]
RouterTokens ==
  <<[name |-> "b-smart-faktory", sell |-> 700000], [name |-> "mia-smart-faktory", sell |-> 500],
    [name |-> "pepe-smart-faktory", sell |-> 500], [name |-> "flatearth-smart-faktory", sell |-> 500],
    [name |-> "fakfun-smart-faktory", sell |-> 700000], [name |-> "leo-smart-faktory", sell |-> 500],
    [name |-> "lwb-smart-faktory", sell |-> 500000], [name |-> "welsh-smart-faktory", sell |-> 500],
    [name |-> "rock-smart-faktory", sell |-> 900000]>>
TSmart(id, op, router, amount) ==
  Message("smart-execute", id, [trade |-> op, router |-> router, amount |-> amount])
SmartTrade(by, op, router, amount, out) ==
  Call(by, op, [router |-> router, amount |-> amount, out |-> out])
\* Buying and selling for sBTC, then for STX.
TokenTrades(t) ==
  LET a == RouterAmounts
      Trade(op, amount, out) == SmartTrade("owner", op, t.name, amount, out)
  IN  <<Moving(Trade("smart-buy-sbtc", a.perSbtc, t.sell), [sbtc |-> -a.perSbtc, other |-> t.sell]),
        Moving(Trade("smart-sell-sbtc", t.sell, 1), [other |-> -t.sell, sbtc |-> 1]),
        Moving(Trade("smart-buy-stx", a.perStx, t.sell), [stx |-> -a.perStx, other |-> t.sell]),
        Moving(Trade("smart-sell-stx", t.sell, 1), [other |-> -t.sell, stx |-> 1])>>
RouterOnboarded ==
  LET a == RouterAmounts
  IN  <<See("routers")>> \o Initialised(1, 2)
        \o <<Fund("stx", a.stx), Fund("sbtc", a.sbtc), Fund("other", a.usdcx)>>
RouterTrades == FlattenSeq([i \in DOMAIN RouterTokens |-> TokenTrades(RouterTokens[i])])
RouterSigned ==
  LET a == RouterAmounts
      call == SmartTrade("relayer", "smart-buy-sbtc", "pepe-smart-faktory", a.perSbtc, 500)
  IN  <<Passkey(call, TSmart(200, "smart-buy-sbtc", "pepe-smart-faktory", a.perSbtc))>>
RouterUnapproved ==
  <<Refused(SmartTrade("owner", "smart-buy-sbtc", "mock-smart-router", RouterAmounts.perSbtc, 1),
            "u4033")>>
SmartSwap == RouterOnboarded \o RouterTrades \o RouterSigned \o RouterUnapproved
SmartSwapChecks(seen) ==
  /\ "pepe-smart-faktory" \in seen.routers.routers
  /\ "mock-smart-router" \notin seen.routers.routers
DeployedOnboarded == RouterOnboarded
DeployedTrades == RouterTrades
DeployedSigned == RouterSigned \o RouterUnapproved
DeployedSmartSwap == DeployedOnboarded \o DeployedTrades \o DeployedSigned
DeployedChecks(seen) == SmartSwapChecks(seen)
=============================================================================
