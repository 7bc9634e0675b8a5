SPECIFICATION Spec
CONSTANTS
  alice = alice  bob = bob  rec = rec  dep = dep
  a1 = a1 a2 = a2 a3 = a3 h1 = h1 h2 = h2 h3 = h3 m1 = m1 m2 = m2
  Nobody = Nobody  Self = Self  NoKey = NoKey  NoGas = NoGas
  Deployer = dep
  DefaultConfig <- ShippedPolicy
  MinCooldown = 1
  MaxCooldown = 2
  Users = {alice, bob, rec, dep}
  Assertions = {a1, a2, a3}
  Hashes = {h1, h2, h3}
  Signs <- Overlapping
  GasFees = {}
  Memos = {m1}
  Amounts <- NoAmounts
  Withdrawals = {}
  Stakes = {}
  Onboardings <- AliceOrSelf
  Configs <- OnePolicy
  GasAmounts = {2}
  Candidates = {alice, bob, Self, Nobody}
  InitialFunds <- StxFunds
  InitialMaxGas = 1
  MaxGasCeiling = 2
  GasCalls = 2
  Inactivity = 1
  MaxHeight = 6
  MaxOps = 2
INVARIANTS OneSeat OneGestureOneCall
PROPERTIES PasskeyFollowsOwner EveryCallIsActivity
CHECK_DEADLOCK FALSE
