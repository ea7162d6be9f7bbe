SPECIFICATION PipelineSpec
CONSTANTS
  btc = btc
  eth = eth
  o1 = o1
  o2 = o2
  o3 = o3
  o4 = o4
  NoBatch = NoBatch
  Markets = {btc, eth}
  Orders = {o1, o2, o3, o4}
  MarketOf <- TwoMarkets
  Terms <- TwoTerms
  Replaces <- NoReplaces
  MaxMishaps = 0
  PriceScale = 1
  RateScale = 10
  TakerFee = 2
  MakerRebate = 1
  InsuranceFee = 0
  InitialRate = 2
  MaxLeverage = 4
  MaintenanceRate = 1
INVARIANT RootsAgree
CHECK_DEADLOCK FALSE
