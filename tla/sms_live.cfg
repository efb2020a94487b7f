CONSTANTS
    Msgs = {m1, m2}
    Outbound = {}
    a = a
    b = b
    Peer <- OwnPeer
    Body <- OwnBody
    Stamp <- OwnStamp
    Peers = {a}
    Bodies = {b}
    Stamps = {m1, m2}
    Sims = {}
    None = None
    MaxPaths = 2
    MaxModems = 1
    MaxMMRestarts = 0
    MaxCrashes = 1
    MaxBusFaults = 0
    MaxDbFaults = 0
    MaxDeletes = 0
    EventCap = 8
SPECIFICATION FairSpec
PROPERTIES NewMessageIsAnnounced ListedMessageIsFiled
CHECK_DEADLOCK FALSE
