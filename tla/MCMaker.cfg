CONSTANTS
  o1 = o1
  lp = lp
  None = None
  Orders = {o1}
  Terms <- Terms_MC
  Outs = {2}
  MaxMishaps = 1
  Owners = {lp}
  MaxSeries = 0
  MaxBalance = 10
  MaxShares = 4
  AllocationLimits = {5000}
  Capital = 4
  Requests = {2}
  MinimumReady = 1
  MaxEpoch = 2
  PriceScale = 5
  RateScale = 10
  TakerFee = 0
  MakerRebate = 0
  InsuranceFee = 0
  InitialRate = 2
  MaxLeverage = 4
  MaintenanceRate = 1
SPECIFICATION FairSpec
INVARIANTS ReservedOnce AllocationsAreAccounted
CHECK_DEADLOCK FALSE
PROPERTY RedemptionIsServed
