CONSTANTS
  R = R  A = A  B = B  C = C
  Ids = {R, A, B, C}
  Committee = {R}
  Posts = {"p","q","s"}
  Names = {"n"}
  GenesisKarma = 30
  Supply = 50
  KarmaMinimum = 1
  DecayAmount = 2
  StaleThreshold = 8
  DecayInterval = 2
  ThreadPrice = 1
  ReplyPrice = 2
  ReplyShare = 1
  LikeCost = 1
  BurnPrice = 1
  VouchAmount = 1
  LikesPerPayout = 2
  VestPerLikes = 1
  BondMin = 2
  BondMax = 10
  BondAmounts = {2, 4}
  Probation = 6
  Cooldown = 2
  CastWindow = 0
  BarMultiplier = 2
  LikesMultiplier = 1
  MaxEscrowReturns = 2
  MaxLapses = 4
  MaxBondSettlements = 1
  MaxHeight = 12
  MaxBody = 2
  MaxTxs = 3
  Scopes <- MCScopes
  EmissionTotal = 90
  InitialReward = 42
  Reduction = 21
  FixedRateBlocks = 3
  EpochBlocks = 2
  RewardDelay = 1
  TreasuryPct = 5
  BackerPct = 35
  BonusPct = 25
  MinerFloorPct = 35
  BonusK = 5
  BackerSupply = 7
  BackerTable <- MCBackerTable
  UnstakeMinPct = 1
  Charge = 4
  MinValue = 2
  RentPeriod = 1
  Validator = C
  Payees = {A}
  YoungHeight = 4
  TransferAmounts = {5}
  Fees = {0, 3}
  Locks = {0}
SPECIFICATION MCSpec
INVARIANT RecordsExact
INVARIANT KarmaConserved
INVARIANT SpendsWithinEffective
INVARIANT CreditsSound
PROPERTY LapsedStakesLeave
PROPERTY MinerFloorHeld
CHECK_DEADLOCK FALSE
