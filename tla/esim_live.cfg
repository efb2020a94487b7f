CONSTANTS
    Reqs = {r1, r2}
    Impatient = {}
    p1 = p1
    p2 = p2
    c1 = c1
    c2 = c2
    Profiles = {p1}
    Cards = {c1, c2}
    Home <- TwoCards
    None = None
    MaxLpacFaults = 1
    MaxBusFaults = 1
    MaxSwaps = 1
SPECIFICATION FairSpec
PROPERTIES ModemGivenBack RequestsEnd
CHECK_DEADLOCK FALSE
