CONSTANTS
    Msgs = {m1, m2}
    Outbound = {}
    a = a
    b = b
    Peer <- OwnPeer
    Body <- OwnBody
    Stamp <- OwnStamp
    Peers = {a}
    Bodies = {b}
    Stamps = {m1, m2}
    Sims = {}
    None = None
    MaxPaths = 2
    MaxModems = 1
    MaxMMRestarts = 0
    MaxCrashes = 1
    MaxBusFaults = 1
    MaxDbFaults = 1
    MaxDeletes = 1
    EventCap = 1
SPECIFICATION Spec
SYMMETRY Symmetry
ACTION_CONSTRAINT AnyTwo
INVARIANT NotifiedIsInHistory
PROPERTIES DeletesTheMessageShown ImplementsInbox
CHECK_DEADLOCK FALSE
