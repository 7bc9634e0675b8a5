SPECIFICATION RecoverySpec
CONSTANTS
  alice = alice  bob = bob  rec = rec  dep = dep
  a1 = a1 h1 = h1 m1 = m1
  juice = juice  good = good
  Nobody = Nobody  Self = Self  NoKey = NoKey  NoGas = NoGas
  Deployer = dep
  DefaultConfig <- Policy1
  MinCooldown = 1
  MaxCooldown = 1
  Users = {alice, bob, rec, dep}
  Assertions = {a1}
  Hashes = {h1}
  Signs <- OneGesture
  GasFees = {}
  Memos = {m1}
  Amounts <- NoAmounts
  Withdrawals <- OneWithdrawal
  Stakes = {}
  Onboardings <- AliceOnly
  Configs = {}
  GasAmounts = {0}
  Candidates = {bob}
  InitialFunds <- SomeFunds
  InitialMaxGas = 0
  MaxGasCeiling = 0
  GasCalls = 1
  Inactivity = 1
  MaxHeight = 3
  MaxOps = 1
  Template = juice
  CodeHash <- Code
  CodeHashes = {}
  NoHash = NoHash
  Successors = {dep, rec}
  CoreDeployer = dep
  AdminCooldown = 1
PROPERTIES UnlistedSafeOnlyWithdraws AdminIsTimelocked RecoveryTakesOver
CHECK_DEADLOCK FALSE
