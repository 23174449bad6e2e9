CONSTANTS
    Devices = {d1, d2}
    Products = {p1, p2}
    Users = {u1, u2}
    Categories = {c1, c2}
    NoCategory = NoCategory
    MaxDenied = 0
    MaxFaults = 0
SYMMETRY Symmetry
SPECIFICATION Spec
INVARIANTS
    TypeOK
    FiledCorrectly
    NoDuplicates
PROPERTIES
    CatalogueKept
\* Every publication comes to an end, and then nothing is left to do.
CHECK_DEADLOCK FALSE
