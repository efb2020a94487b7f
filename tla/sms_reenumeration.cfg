CONSTANTS
    Msgs = {m1, m2}
    Outbound = {}
    a = a
    b = b
    Peer <- OwnPeer
    Body <- OwnBody
    Stamp <- OwnStamp
    Peers = {a}
    Bodies = {b}
    Stamps = {m1, m2}
    Sims = {s1}
    None = None
    MaxPaths = 3
    MaxModems = 2
    MaxMMRestarts = 0
    MaxCrashes = 0
    MaxBusFaults = 0
    MaxDbFaults = 0
    MaxDeletes = 0
    EventCap = 1
SPECIFICATION Spec
SYMMETRY Symmetry
INVARIANTS NotifiedAtMostOnce ShownOnce
PROPERTY HistoryIsKept
CHECK_DEADLOCK FALSE
