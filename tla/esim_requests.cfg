CONSTANTS
    Reqs = {r1, r2}
    Impatient = {r1}
    p1 = p1
    p2 = p2
    c1 = c1
    c2 = c2
    Profiles = {p1, p2}
    Cards = {c1}
    Home <- OneCard
    None = None
    MaxLpacFaults = 1
    MaxBusFaults = 1
    MaxSwaps = 0
SPECIFICATION Spec
INVARIANTS LpacAlone ReleasedAfterUse RowsMatchChip DeletesDisabledOnly
PROPERTIES SuccessIsReal RolledBack
CHECK_DEADLOCK FALSE
