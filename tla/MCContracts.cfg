SPECIFICATION ContractsSpec
CONSTANTS
  g1 = g1
  g2 = g2
  g3 = g3
  g4 = g4
  g5 = g5
  g6 = g6
  nft = nft
  vendor = vendor
  bidder = bidder
  rival = rival
  Address <- Six
  Size = 5
  Quorum = 3
  Lists <- FourLists
  Amounts <- SomeAmounts
  Locks <- SomeLocks
  Rates <- SomeRates
  Wealth = 6
  U32Max = 2
  MaxEpoch = 1
  MaxStray = 5
  Nobody = Nobody
  Persons <- ThreePersons
  Lots <- OneLot
  Coins = 2
  Starts = {1}
  Prices = {2}
  Fees = {1}
  Durations = {1}
  SnipeWindow = 1
  SnipeExtension = 1
  Horizon = 2
  Traders <- TwoTraders
  TraderCoins = 2
  Bps = 4
  SwapRates = {0, 1}
  LpRates = {0, 2}
  Penalty = 1
  MinHolding = 1
  LastLedger = 1
  Funds = 3
  WholeRate = 4
  LoanRates = {0, 1}
  MaxGift = 1
  Scale = 2
  Points = 4
  LpCharge = 1
  OrderPrices = {1, 2}
  Depths = {1, 2}
  Tolerances = {2}
  MaxOrders = 3
  MaxHeld = 3
  provider = provider
  Providers = {provider}
  Spans <- TwoSpans
  Spacing = 2
  WordSize = 2
  StartTick = 1
  Unit = 1
  Portions = {1, 2}
  Earnings = {0, 2}
  MaxGross = 3
  MaxPaid = 2
  a1 = a1
  a2 = a2
  a3 = a3
  a4 = a4
  swap = swap
  deposit = deposit
  zoe = zoe
  yan = yan
  i1 = i1
  i2 = i2
  People <- Four
  Ops <- TwoOps
  Founders <- Distinct
  MaxSigs = 3
  MaxAdmins = 3
  Embedded = TRUE
  Voters <- TwoUsers
  Units = {1, 5}
  MinUnits = 1
  Identities <- TwoIdentities
  Zero = zero
  IdentityRequired = FALSE
  Executors <- TwoUsers
  Threshold = 2
  MaxApprovers = 2
  Windows = {1}
  MaxProposals = 1
  VotingHorizon = 1
  Stakers <- TwoUsers
  StakerCoins = 2
  RewardPot = 20
  InitialRate = 2
  Decay = 2
  EpochLength = 2
  StartBlock = 1
  LastBlock = 3
  WholePenalty = 2
  Penalties = {0, 1}
  Borrowers <- TwoUsers
  Collateral <- SomeCollateral
  Full = 10
  PriceScale = 1
  LedgersPerYear = 1
  OraclePrices = {1, 2}
  Volatilities = {0, 1, 2}
  MinRatio = 15
  Incentive = 5
  BaseRate = 5
  Slope1 = 2
  Slope2 = 4
  Optimal = 5
  LowVolatility = 0
  HighVolatility = 2
  BaseFloor = 15
  MaxFloor = 20
  MaxRequest = 1
  CdpHorizon = 2
INVARIANTS  MoneyFollows AuctionsSettled VaultBacked BookSound RangesSound
           FeesCovered QuorumPossible IdentityIsOnes FairTally 
PROPERTIES KeepsPromise  
SYMMETRY Sym
CHECK_DEADLOCK FALSE
