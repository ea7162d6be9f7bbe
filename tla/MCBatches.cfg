SPECIFICATION PartsSpec
CONSTANTS
  btc = btc
  eth = eth
  o1 = o1
  o2 = o2
  o3 = o3
  o4 = o4
  NoBatch = NoBatch
  Markets = {btc}
  Orders = {o1, o2, o3}
  MarketOf <- MCMarket
  Terms <- MCTerms
  Replaces <- MCReplaces
  MaxMishaps = 1
  PriceScale = 1
  RateScale = 10
  TakerFee = 4
  MakerRebate = 1
  InsuranceFee = 1
  InitialRate = 2
  MaxLeverage = 4
  MaintenanceRate = 1
  j1 = j1
  p1 = p1
  p2 = p2
  Jobs = {j1}
  Processes = {p1, p2}
  BatchOf <- MCBatchOf
  Books <- MCBooks
  AttemptLimit = 2
  MaxView = 1
  MaxCrashes = 1
  MaxFailures = 1
INVARIANTS StoreFollowsChain TreeIsPrefix SettledIsCommitted ResultIsProved MatchIsFair
PROPERTIES CrossedMarketsTrade PollsEnd
CHECK_DEADLOCK FALSE
