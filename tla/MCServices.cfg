CONSTANTS
    alice = alice
    bob = bob
    Owners = {alice, bob}
    MaxSeries = 2
    MaxBalance = 4
    MaxShares = 3
    AllocationLimits = {1, 5000}
    old = old
    new = new
    o1 = o1
    o2 = o2
    Servers = {old, new}
    Operations = {o1, o2}
    Throwing = {o2}
    Samples = {o2}
    Fields = {"orders", "positions"}
    Retention = 1
    Deletions <- MCDeletions
    LegacyPayload = {o1}
    Connected = {old}
    MaxSaves = 2
    MaxStarts = 1
    Circuits <- MCCircuits
    CollateralToken = TRUE
    VaultOperators = {"first", "second"}
    Attempts = 2
    MaxFaults = 3
    MaxDeploys = 2
    t1 = t1
    t2 = t2
    a = a
    b = b
    q = q
    Tabs = {t1, t2}
    Opened = {q}
    MaxKeys = 3
    BrowserOf <- MCBrowserOf
    sx = sx
    sy = sy
    nm = nm
    srv = srv
    tool = tool
    Statements = {sx, sy}
    Names = {nm}
    NameOf <- MCNameOf
    Processes = {srv, tool}
    Server = srv
    Absent = none
    h1 = h1
    h2 = h2
    Scanners = {h1, h2}
    PageLimit = 2
    Margin = 1
    MaxLedger = 3
    MaxTransfers = 3
SPECIFICATION PartsSpec
CHECK_DEADLOCK FALSE
INVARIANTS
    VaultIsSound
    RestartFindsAll
    DeployedIsWired
    OpeningsInReach
    AcceptedIsProved
    HistoryIsKept
PROPERTIES
    SharePriceKept
