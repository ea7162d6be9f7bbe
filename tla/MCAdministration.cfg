CONSTANTS
    Circuits = {"batch-match", "deposit-note"}
    Verifiers = {"batch-verifier", "deposit-verifier", "new-deposit-verifier"}
    Risc0Verifiers = {"batch-verifier"}
    CircuitOf <- MCCircuitOf
    Authorities <- MCAuthorities
    k1 = k1
    k2 = k2
    Keys = {k1, k2}
    Provable <- MCProvable
    InitialProofs <- MCInitialProofs
    NoKey = NoKey
    Administration = {"verifiers", "writers"}
    m = m
    t = t
    Intents = {m, t}
    payload = payload
    Payloads = {payload}
    NoPayload = NoPayload
    NoIntent = NoIntent
    MaxSequence = 2
    Nullifiers = {"n1", "n2"}
    c1 = c1
    Commitments = {c1}
    NoCommitment = NoCommitment
    DepositCircuit = "deposit-note"
    WithdrawCircuit = "withdraw"
    MaxPoolBalance = 1
    Positions = {"maker position", "taker position"}
    PositionNullifiers = {}
    NoPosition = NoPosition
    PositionWriters = {"batch-settlement"}
    TreeCapacity = 4
    MaxAppendItems = 8
    b1 = b1
    Batches = {b1}
    NoBatch = NoBatch
    BatchCircuit = "batch-match"
    MaxPublicItems = 8
    FeeConfig = "epoch-1"
    d1 = d1
    g1 = g1
    g2 = g2
    Deposits = {d1}
    DepositAmount <- MCDepositAmount
    Groups = {g1, g2}
    Margin <- MCMargin
    NoOrder = NoOrder
    MaxAttempts = 2
    MaxOperations = 4
    MaxTasks = 2
    MaxLoads = 1
    MaxMishaps = 2
    p1 = p1
    p2 = p2
    p3 = p3
    Publishers = {p1, p2, p3}
    Admin = p1
    Times = {0, 400}
    Feed <- MCFeed
    Rounds = {1, 2}
    Committees <- MCCommittees
    MaxRecords = 2
    MaxSubmissions = 3
    MaxAge = 300
    TwapRecords = 2
    OracleUnit = 10
    MarketUnit = 1
SPECIFICATION PartsSpec
SYMMETRY Symmetric
CHECK_DEADLOCK FALSE
INVARIANTS
    RotationRevokes
    ServerFollowsPool
    MoneyStaysInReach
    MarkRestsOnFreshQuotes
    RoundsDecide
