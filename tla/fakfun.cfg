SPECIFICATION FSpec
CONSTANTS
  alice = alice  bob = bob  rec = rec  dep = dep  reg = reg
  a1 = a1 a2 = a2 a3 = a3 a4 = a4 h1 = h1 h2 = h2 h3 = h3 h4 = h4
  m1 = m1 x1 = x1 r1 = r1
  Nobody = Nobody  Self = Self  NoKey = NoKey  NoGas = NoGas
  Deployer = dep
  DefaultConfig <- Policy1
  MinCooldown = 1
  MaxCooldown = 1
  Users = {alice, bob, dep, reg}
  Assertions = {a1, a2, a3}
  Hashes = {h1, h2, h3}
  Signs <- Exact3
  GasFees = {}
  Memos = {m1}
  Amounts <- StxAmounts
  Withdrawals = {}
  Stakes = {}
  Onboardings = {}
  Configs = {}
  GasAmounts = {}
  Candidates = {bob}
  InitialFunds <- TwoStx
  InitialMaxGas = 0
  MaxGasCeiling = 0
  GasCalls = 1
  Inactivity = 4
  MaxHeight = 3
  MaxOps = 1
  ExtensionContracts = {x1}
  SeedExtensions = {}
  ListedExtensions = {}
  Routers = {r1}
  ListedRouters = {r1}
  RegistryOwner = reg
  Successors = {dep}
  RegistryCooldown = 1
  PubkeyCooldown = 1
  InitAdmins = {alice}
  TradeAmounts = {2}
  Expiries = {2}
  MaxBalance = 2
SYMMETRY Gestures3
PROPERTIES FirstOwnerAccepted ExtensionNeedsTwo QueueKeepsPromise ApprovalIsTimelocked
CHECK_DEADLOCK FALSE
