CONSTANTS
    Devices = {d1, d2}
    Products = {p1, p2}
    Users = {u1}
    Categories = {c1}
    NoCategory = NoCategory
    MaxDenied = 1
    MaxFaults = 0
SYMMETRY Symmetry
SPECIFICATION Spec
INVARIANTS
    RecordFirst
    UnsharedKeepsAll
\* Every publication comes to an end, and then nothing is left to do.
CHECK_DEADLOCK FALSE
