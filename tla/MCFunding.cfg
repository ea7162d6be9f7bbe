CONSTANTS
    Circuits = {"funding"}
    Verifiers = {"funding"}
    Risc0Verifiers = {}
    CircuitOf <- MCCircuitOf
    Authorities <- MCAuthorities
    Keys = {"k"}
    Provable <- MCProvable
    InitialProofs <- MCInitialProofs
    NoKey = NoKey
    Administration = {}
    m1 = m1
    m2 = m2
    Markets = {m1}
    Prices = {1}
    NoPrice = NoPrice
    FundingIndices <- MCIndices
    FirstIndex = 0
    FundingCircuit = "funding"
    Interval = 2
    SampleInterval = 1
    MinimumSamples = 1
    SampleRetention = 2
    RateCap = 1
    RateScale = 1
    FixedRates = {}
    SampledRates <- MCRates
    NoRate = NoRate
    MaxTime = 3
    MaxListings = 2
    AnswersAreLost = TRUE
    Operator = {"advance", "update", "contracts"}
    Parts = {"engine", "feeds", "marks", "chart"}
    FeedMarkets = {f1, f2}
    Browsers = {b1, b2}
    NoMarket = NoMarket
    MaxPrice = 1
    MarkMarkets = {k1}
    MarkBrowsers = {w1, w2}
    NoMark = NoMark
    MarkPolls = {1, 2}
    MaxAge = 1
    MaxClock = 4
    Width = 3
    MaxTick = 6
    Limit = 2
    MaxQueued = 2
SPECIFICATION PartsSpec
CONSTRAINT NoHands
CHECK_DEADLOCK FALSE
INVARIANTS
    FundingIsOneWalk
    PeriodsChargedOnce
    StreamIsKept
    MarksAgree
    ChartKeepsUp
