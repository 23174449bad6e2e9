SPECIFICATION FairSpec
CONSTANTS
    Devices = {d1}
    Products = {p1}
    Screens = {s1}
    Calls = {c1, c2}
    Publications = {b1}
    Nothing = Nothing
    MaxFavorites = 2
    MaxDenied = 1
    MaxFaults = 1
PROPERTIES
    NodeKept
    SuccessIsTrue
    JobsEnd
    HeartLearns
CHECK_DEADLOCK FALSE
