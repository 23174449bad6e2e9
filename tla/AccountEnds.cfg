SPECIFICATION FairSpec
CONSTANTS
    Devices = {d1}
    Products = {p1}
    Users = {u1}
    Categories = {}
    NoCategory = NoCategory
    Emails = {e1}
    Attempts = {a1, a2}
    NoEmail = NoEmail
    MaxDenied = 0
    MaxFaults = 1
INVARIANTS
    SignedInHasNode
PROPERTIES
    AttemptsEnd
CHECK_DEADLOCK FALSE
