SPECIFICATION Spec
CONSTANTS
  alice = alice  bob = bob  rec = rec  dep = dep
  a1 = a1 a2 = a2 a3 = a3 h1 = h1 h2 = h2 h3 = h3 m1 = m1 m2 = m2
  Nobody = Nobody  Self = Self  NoKey = NoKey  NoGas = NoGas
  Deployer = dep
  DefaultConfig <- ShippedPolicy
  MinCooldown = 1
  MaxCooldown = 2
  Users = {alice, rec, dep}
  Assertions = {a1, a2}
  Hashes = {h1, h2}
  Signs <- Exact2
  GasFees = {1}
  Memos = {m1}
  Amounts <- MoneyAmounts
  Withdrawals <- LargeWithdrawal
  Stakes = {1}
  Onboardings <- AliceOnly
  Configs = {}
  GasAmounts = {}
  Candidates = {}
  InitialFunds <- MoneyFunds
  InitialMaxGas = 1
  MaxGasCeiling = 2
  GasCalls = 1
  Inactivity = 3
  MaxHeight = 3
  MaxOps = 1
SYMMETRY Gestures
INVARIANTS TypeOK
PROPERTIES OutflowAccounted LockHoldsPasskey GasFuse PaymentsKeepPromise
CHECK_DEADLOCK FALSE
