SPECIFICATION Spec
CONSTANTS
    Devices = {d1, d2}
    Products = {p1}
    Users = {u1, u2}
    Categories = {}
    NoCategory = NoCategory
    Emails = {e1, e2}
    Attempts = {a1, a2}
    NoEmail = NoEmail
    MaxDenied = 1
    MaxFaults = 0
SYMMETRY Symmetry
INVARIANTS
    AccountTypeOK
    SignedInHasNode
    DefaultsAreTheSessions
    UsersListed
PROPERTIES
    ProductsStay
    DirectoryKept
CHECK_DEADLOCK FALSE
