CONSTANTS
    Circuits = {"close", "liquidation", "trigger", "funding"}
    Verifiers = {"close", "liquidation", "trigger", "funding"}
    Risc0Verifiers = {}
    CircuitOf <- MCCircuitOf
    Authorities <- MCAuthorities
    Keys = {"k"}
    Provable <- MCProvable
    InitialProofs <- MCInitialProofs
    NoKey = NoKey
    Administration = {"pause", "migration"}
    a = a
    b = b
    z = z
    a1 = a1
    b1 = b1
    na = na
    na2 = na2
    nb = nb
    nz = nz
    na1 = na1
    nb1 = nb1
    Positions = {a, b, z, a1, b1}
    PositionNullifiers = {na, na2, nb, nz, na1, nb1}
    RhoOf <- MCRhoOf
    RhoIn <- MCRhoIn
    NoPosition = NoPosition
    PositionWriters = {"batch-settlement", "position-close", "liquidation"}
    TreeCapacity = 5
    MaxAppendItems = 8
    Openings <- MCOpenings
    Registrations <- MCRegistrations
    m1 = m1
    m2 = m2
    Markets = {m1, m2}
    Prices = {1}
    NoPrice = NoPrice
    FundingIndices = {0}
    FirstIndex = 0
    FundingCircuit = "funding"
    CloseIds = {"c1", "c2", "c3"}
    Outputs = {"o1", "o2", "o3"}
    NoRecord = NoRecord
    CloseCircuit = "close"
    LiquidationCircuit = "liquidation"
    TriggerCircuit = "trigger"
    PriceScale = 2
    RateScale = 4
    MaintenanceRate = 1
    EndMarks = {1, 3, 4, 6, 8}
    EndIndexes <- MCEndIndexes
    EndOpenings <- MCEndOpenings
    EndOrders <- MCEndOrders
    Amounts = {0, 1, 2}
    Batches = {1, 2}
    Rates <- MCRates
    Elapsed = {1, 3}
    Interval = 2
    FundingScale = 2
    Caps = {0, 1}
    OldIndexes <- MCOldIndexes
    Depth = 3
    NoteDepth = 2
    MostAppended = 3
    Notes = {11, 12, 13, 14}
SPECIFICATION PartsSpec
CHECK_DEADLOCK FALSE
INVARIANTS
    EndsInPlace
    ConditionalClosesAsOrdered
    PositionsCanEnd
    ClosedAtItsTrigger
    AcceptedIsProvable
    TreesAgree
PROPERTIES
    KeepsTheBook
