SPECIFICATION SimSpec
CONSTANTS
  Nobody = "nobody"  Self = "self"  NoKey = "no-key"  NoGas = NoGas
  Deployer = "fakfun"
  Users = {"deployer", "fakfun", "owner", "recovery", "random", "relayer", "new-owner",
           "rescued", "new-oracle", "recipient"}
  Assertions = {}  Hashes = {}  Signs = {}  GasFees = {}
  Memos = {"none"}
  Amounts <- NoAmounts
  Withdrawals = {}  Stakes = {}  Onboardings = {}  Configs = {}  GasAmounts = {}
  Candidates = {}
  InitialFunds <- NoFunds
  InitialMaxGas = 1000
  DefaultConfig <- Deployed
  MinCooldown = 144
  MaxCooldown = 4032
  MaxGasCeiling = 10000
  GasCalls = 25
  Inactivity = 52560
  MaxHeight = 100000
  MaxOps = 20
  Keepers = {}
  DefaultKeeper = "deployer"
  NumCycles = 96
  MaxCycle = 1
  ExtensionContracts = {"swap-v1", "swap-v2", "xtrata", "mock"}
  SeedExtensions = {"swap-v2", "xtrata"}  ListedExtensions = {"swap-v1", "xtrata"}
  Routers <- NamedRouters  ListedRouters <- SeededRouters
  RegistryOwner = "deployer"  Successors = {"relayer"}
  RegistryCooldown = 144
  PubkeyCooldown = 432
  InitAdmins = {"owner"}
  TradeAmounts = {}  Expiries = {}
  MaxBalance = 100000000
  Unpaid = Unpaid  NoFee = NoFee
  PoolStakers <- Pool
  GameTokens = {"test-token", "unapproved-token"}
  Wallets = {"test-wallet-a", "test-wallet-b"}
PROPERTY RunsAsSimulated
