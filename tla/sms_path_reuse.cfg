CONSTANTS
    Msgs = {m1, m2}
    Outbound = {}
    a = a
    b = b
    Peer <- OwnPeer
    Body <- OwnBody
    Stamp <- OwnStamp
    Peers = {a}
    Bodies = {b}
    Stamps = {m1, m2}
    Sims = {}
    None = None
    MaxPaths = 2
    MaxModems = 1
    MaxMMRestarts = 1
    MaxCrashes = 0
    MaxBusFaults = 0
    MaxDbFaults = 0
    MaxDeletes = 0
    EventCap = 2
SPECIFICATION Spec
PROPERTY HistoryIsAlwaysKept
CHECK_DEADLOCK FALSE
