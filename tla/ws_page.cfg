CONSTANTS
    Conns = {k1, k2}
    Slots = {f1}
    Modems = {m1}
    Sims = {s1}
    Tables <- MCTables
    None = None
    HubCap = 1
    OutCap = 1
    MaxChanges = 2
    MaxActs = 1
SPECIFICATION FairSpec
INVARIANTS SingleSocket StatusIsTrue 
PROPERTIES ConnectionEnds PageReconnects
CHECK_DEADLOCK FALSE
