CONSTANTS
    a = a
    b = b
    a1 = a1
    a2 = a2
    b1 = b1
    s1 = s1
    s2 = s2
    s3 = s3
    Modules = {a, b}
    Ids = {a1, a2, b1}
    Sims = {s1, s2, s3}
    None = None
    IdsOf <- Identifiers
    FirstSlot <- OneSim
    Shy = {b}
    Locked = {s3}
    MaxPaths = 2
    MaxPlugs = 2
    MaxSwaps = 1
    MaxReports = 1
    MaxMMRestarts = 1
    MaxCrashes = 1
    MaxBusFaults = 1
    MaxDeletes = 1
    MaxMoves = 4
    EventCap = 2
SPECIFICATION Spec
INVARIANTS ListedIsOnline UnlistedIsOffline FiledWhereMeasured RoutesLeadHome
CHECK_DEADLOCK FALSE
