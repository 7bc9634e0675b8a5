SPECIFICATION Spec
CONSTANTS
  dep = dep  orc = orc  pat = pat
  p1 = p1 p2 = p2 p3 = p3 w1 = w1 w2 = w2 tok = tok
  Players = {p1, p2, p3}
  Users = {dep}
  Wallets = {}
  Vouches = {}
  Self = Self  NoWallet = NoWallet  NoWinner = NoWinner
  Deployer = dep
  FirstOracle = dep
  Tokens = {tok}
  AuthIds = {1, 2}
  Amounts = {15}
  InitialTokens = 45
  FeeBasis = 10
  FeeRates = {2}
  WithdrawFeeRates = {1}
  MaxFeeRate = 2
  MaxWithdrawFeeRate = 1
  InitialFeeRate = 1
  InitialWithdrawFeeRate = 0
  GameTimeout = 1
  MaxHeight = 1
  Horizon = 3
  MaxGames = 2
INVARIANTS Solvent TwoSignaturesPerGame
CHECK_DEADLOCK FALSE
