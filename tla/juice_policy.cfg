SPECIFICATION HSpec
CONSTANTS
  alice = alice  bob = bob  rec = rec  dep = dep
  a1 = a1 a2 = a2 a3 = a3 h1 = h1 h2 = h2 h3 = h3 m1 = m1 m2 = m2
  Nobody = Nobody  Self = Self  NoKey = NoKey  NoGas = NoGas
  Deployer = dep
  DefaultConfig <- ShippedPolicy
  MinCooldown = 1
  MaxCooldown = 2
  Users = {alice, rec, dep}
  Assertions = {a1, a2}
  Hashes = {h1, h2}
  Signs <- Exact2
  GasFees = {}
  Memos = {m1}
  Amounts <- HalfAndLargeStx
  Withdrawals = {}
  Stakes = {}
  Onboardings <- AliceOnly
  Configs <- TwoPolicies
  GasAmounts = {2, 3}
  Candidates = {rec}
  InitialFunds <- ManyStx
  InitialMaxGas = 1
  MaxGasCeiling = 2
  GasCalls = 2
  Inactivity = 2
  MaxHeight = 4
  MaxOps = 1
SYMMETRY Gestures
INVARIANTS PolicyLegal NeitherFactorAlone PasskeyAloneNeverSettles UnqueuedWithinTwoThresholds
PROPERTIES PaymentsKeepPromise PolicyIsTimelocked GasLimitIsTimelocked
CHECK_DEADLOCK FALSE
