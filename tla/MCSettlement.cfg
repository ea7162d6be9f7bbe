CONSTANTS
    Circuits = {"batch-match", "deposit-note", "withdraw"}
    Verifiers = {"batch-verifier", "deposit-verifier", "withdraw-verifier"}
    Risc0Verifiers = {"batch-verifier"}
    CircuitOf <- MCCircuitOf
    Authorities <- MCAuthorities
    key = key
    Keys = {key}
    Provable <- MCProvable
    InitialProofs <- MCProvable
    NoKey = NoKey
    Administration = {"setup", "migration"}
    u = u
    t = t
    r = r
    q = q
    x = x
    Intents <- MCIntents
    payload = payload
    Payloads = {payload}
    NoPayload = NoPayload
    NoIntent = NoIntent
    MaxSequence = 3
    Nullifiers = {"n1", "n2", "n3", "n4"}
    c1 = c1
    c2 = c2
    Commitments = {c1, c2}
    NoCommitment = NoCommitment
    DepositCircuit = "deposit-note"
    WithdrawCircuit = "withdraw"
    MaxPoolBalance = 2
    Positions = {"maker position", "taker position"}
    PositionNullifiers = {}
    NoPosition = NoPosition
    PositionWriters = {"batch-settlement"}
    TreeCapacity = 4
    MaxAppendItems = 8
    b1 = b1
    b2 = b2
    Batches = {b1, b2}
    NoBatch = NoBatch
    BatchCircuit = "batch-match"
    MaxPublicItems = 8
    FeeConfig = "epoch-1"
    PriceScale = 1
    RateScale = 10
    TakerFee = 4
    MakerRebate = 1
    InsuranceFee = 1
    InitialRate = 2
    MaxLeverage = 4
    MaintenanceRate = 1
    Reserve = 3
    LeverageScale = 2
    MaxFills = 2
    Tickets <- MCTickets
    Wallets <- MCWallets
SPECIFICATION PartsSpec
CHECK_DEADLOCK FALSE
INVARIANTS
    ResidualLedger
    ReceiptsHold
    OnePlaceOneOrder
    FeesAreKept
    SizedOrdersTrade
PROPERTIES
    OrdersKeepTheirPromise
