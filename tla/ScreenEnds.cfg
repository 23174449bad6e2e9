CONSTANTS
    Devices = {d1}
    Products = {p1, p2}
    Users = {u1}
    Categories = {c1}
    NoCategory = NoCategory
    Screens = {s1}
    MaxDenied = 1
    MaxFaults = 1
SPECIFICATION FairScreenSpec
INVARIANTS
    DismissedMeansRecorded
PROPERTIES
    SpinnerEnds
    PublicationEnds
\* Every screen comes to rest, and then nothing is left to do.
CHECK_DEADLOCK FALSE
