CONSTANTS
    Devices = {d1}
    Products = {p1, p2}
    Users = {u1}
    Categories = {c1}
    NoCategory = NoCategory
    Screens = {s1, s2}
    MaxDenied = 0
    MaxFaults = 1
SYMMETRY Symmetry
SPECIFICATION ScreenSpec
INVARIANTS
    ScreenTypeOK
    PictureFirst
    DismissedMeansRecorded
    RetryPublishesOnce
\* Every screen comes to rest, and then nothing is left to do.
CHECK_DEADLOCK FALSE
