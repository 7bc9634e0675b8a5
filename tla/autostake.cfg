SPECIFICATION ASpec
CONSTANTS
  alice = alice  bob = bob  rec = rec  dep = dep
  a1 = a1 a2 = a2 h1 = h1 h2 = h2 m1 = m1
  Nobody = Nobody  Self = Self  NoKey = NoKey  NoGas = NoGas
  Deployer = dep
  DefaultConfig <- Policy1
  MinCooldown = 1
  MaxCooldown = 1
  Users = {alice, bob, rec, dep}
  Assertions = {a1, a2}
  Hashes = {h1, h2}
  Signs <- Exact2
  GasFees = {}
  Memos = {m1}
  Amounts <- StxAmounts
  Withdrawals = {}
  Stakes = {1}
  Onboardings <- AliceOnly
  Configs = {}
  GasAmounts = {}
  Candidates = {alice, bob}
  InitialFunds <- TwoStx
  InitialMaxGas = 1
  MaxGasCeiling = 1
  GasCalls = 1
  Inactivity = 1
  MaxHeight = 4
  MaxOps = 1
  Keepers = {bob}
  DefaultKeeper = dep
  NumCycles = 2
  MaxCycle = 4
SYMMETRY Gestures
INVARIANTS ATypeOK LeavingSafeLeaves KeeperIsOfPresentOwner KeeperIsNoActivity
CHECK_DEADLOCK FALSE
