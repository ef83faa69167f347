CONSTANTS
    u1 = u1
    u2 = u2
    Users = {u1, u2}
    Conns = {c1, c2}
    PoolSize = 1
    Dbs = {"a", "b"}
    Home = "a"
    MaxItems <- Bounds
    Tries = 2
    MaxFaults = 1
    Slots = {1}
    Columns <- Fields
    Values = {"v"}
    Texts = {1, 3}
    MaxRows = 1
    MaxRuns = 2
    r1 = r1
    r2 = r2
    r3 = r3
    Clients = {d1, d2}
    Redises = {r1, r2, r3}
    TypeOf <- Types
    Attempts = 2
    MaxCalls = 2
    MaxCuts = 1
    m_size = 2
    Jobs = {j1, j2, j3}
SPECIFICATION Spec
INVARIANTS
    PoolsSound
    WorkKept
    StmtHonest
    PoolDeals
CHECK_DEADLOCK FALSE
