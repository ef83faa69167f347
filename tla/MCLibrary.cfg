CONSTANTS
    NearBits = 1
    LevelBits = 2
    Levels = 2
    Delays <- Distances
    Objs = {o1, o2}
    NodeSize = 2
    Items <- Written
    MaxSize = 5
    MaxItems = 2
    Alpha = {"m", "d", "x"}
    ItemMap = {"m", "d"}
    Tokens <- Phrases
    MaxTokens = 4
    LogNames = {"root", "a"}
    Docs <- Documents
    LineLevels = {1, 2}
    Daemon = FALSE
    BadFormats = {"%q"}
    NoDef = NoDef
    Writers = {t1}
    MaxReloads = 3
    MaxDiskFaults = 1
    Names <- Keys
    Contents <- Files
    Legal = {"a", "b"}
    Values <- Chosen
    Bad = Bad
    Broken = Broken
    Initial = Initial
    Loaders = {l1, l2}
    Listeners = {k1}
    MaxEdits = 1
    MaxSets = 2
    Fibers = {u1, u2}
    NumFds = 2
    MaxOpens = 3
    Ids = {"a", "b"}
    Recurring = {"b"}
    Pollers = {p1, p2}
    Periods = {1, 2}
    MAX_TIMEOUT = 2
    Hour = 3
    MaxTime = 2
    MaxResets = 1
    Numbers = {1, 2}
    Times = {5}
    MaxOpened = 3
SPECIFICATION LibSpec
INVARIANTS
    OnTime
    BufferSound
    LogSound
    ConfigSettles
    SocketSound
\* The timer thread ends, and the bounds are reached.
CHECK_DEADLOCK FALSE
