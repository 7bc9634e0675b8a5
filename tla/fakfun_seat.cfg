SPECIFICATION FSpec
CONSTANTS
  alice = alice  bob = bob  rec = rec  dep = dep  reg = reg
  a1 = a1 a2 = a2 a3 = a3 a4 = a4 h1 = h1 h2 = h2 h3 = h3 h4 = h4
  m1 = m1 x1 = x1 r1 = r1
  Nobody = Nobody  Self = Self  NoKey = NoKey  NoGas = NoGas
  Deployer = dep
  DefaultConfig <- Policy1
  MinCooldown = 1
  MaxCooldown = 1
  Users = {alice, bob, rec, dep}
  Assertions = {a1, a2, a3, a4}
  Hashes = {h1, h2, h3, h4}
  Signs <- Exact4
  GasFees = {}
  Memos = {m1}
  Amounts <- NoAmounts
  Withdrawals = {}
  Stakes = {}
  Onboardings = {}
  Configs = {}
  GasAmounts = {}
  Candidates = {alice, bob, rec}
  InitialFunds <- NoFunds
  InitialMaxGas = 0
  MaxGasCeiling = 0
  GasCalls = 1
  Inactivity = 0
  MaxHeight = 3
  MaxOps = 0
  ExtensionContracts = {}
  SeedExtensions = {}
  ListedExtensions = {}
  Routers = {}
  ListedRouters = {}
  RegistryOwner = dep
  Successors = {}
  RegistryCooldown = 1
  PubkeyCooldown = 0
  InitAdmins = {alice}
  TradeAmounts = {}
  Expiries = {}
  MaxBalance = 0
SYMMETRY Gestures4
INVARIANTS OwnerIsAdmin
CHECK_DEADLOCK FALSE
