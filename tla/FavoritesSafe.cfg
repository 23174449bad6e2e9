SPECIFICATION Spec
CONSTANTS
    Devices = {d1, d2}
    Products = {p1, p2}
    Screens = {s1, s2}
    Calls = {c1, c2, c3}
    Publications = {}
    Nothing = Nothing
    MaxFavorites = 2
    MaxDenied = 0
    MaxFaults = 0
SYMMETRY Symmetry
INVARIANTS
    FavTypeOK
    HeartTellsTruth
PROPERTIES
    NodeKept
CHECK_DEADLOCK FALSE
