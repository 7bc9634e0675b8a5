SPECIFICATION Spec
CONSTANTS
  s1 = s1  s2 = s2  adm = adm  heir = heir
  Stakers = {s1, s2}
  Users = {adm, heir}
  NoFee = NoFee  Unpaid = Unpaid
  Cycles = {1}
  Tranches = {0, 1}
  ShareAmounts = {1, 2}
  Rewards = {5}
  Fees = {1, 3}
  MaxBips = 4
  MaxFeeBips = 2
  FeeCooldown = 1
  FirstAdmin = adm
  MaxHeight = 3
SYMMETRY Interchangeable
INVARIANTS TypeOK EverySatAccounted RecordedMeansPaid PaidWithinPot
PROPERTIES SweepTakesOnlyDust FeeIsTimelocked
CHECK_DEADLOCK FALSE
