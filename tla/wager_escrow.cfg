SPECIFICATION DesertedSpec
CONSTANTS
  dep = dep  orc = orc  pat = pat
  p1 = p1 p2 = p2 p3 = p3 w1 = w1 w2 = w2 tok = tok
  Players = {p1, p2}
  Users = {dep, pat}
  Wallets = {w1, w2}
  Vouches <- P1VouchedByBoth
  Self = Self  NoWallet = NoWallet  NoWinner = NoWinner
  Deployer = dep
  FirstOracle = dep
  Tokens = {tok}
  AuthIds = {1}
  Amounts = {15}
  InitialTokens = 15
  FeeBasis = 10
  FeeRates = {2, 3}
  WithdrawFeeRates = {1}
  MaxFeeRate = 2
  MaxWithdrawFeeRate = 1
  InitialFeeRate = 1
  InitialWithdrawFeeRate = 0
  GameTimeout = 1
  MaxHeight = 4
  Horizon = 2
  MaxGames = 1
INVARIANTS TypeOK
PROPERTIES PotGoesToPlayers PayoutFollowsRegistration EveryGameEnds
CHECK_DEADLOCK FALSE
