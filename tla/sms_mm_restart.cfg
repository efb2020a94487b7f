CONSTANTS
    Msgs = {m1, o1}
    Outbound = {o1}
    a = a
    b = b
    Peer <- OwnPeer
    Body <- OwnBody
    Stamp <- Undated
    Peers = {a}
    Bodies = {b}
    Stamps = {}
    Sims = {}
    None = None
    MaxPaths = 2
    MaxModems = 1
    MaxMMRestarts = 1
    MaxCrashes = 0
    MaxBusFaults = 0
    MaxDbFaults = 0
    MaxDeletes = 0
    EventCap = 1
SPECIFICATION Spec
SYMMETRY Symmetry
INVARIANT SourceKeysUnique
CHECK_DEADLOCK FALSE
