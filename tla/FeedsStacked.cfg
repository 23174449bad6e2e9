SPECIFICATION FairSpec
CONSTANTS
    Products = {p1, p2}
    Lists = {list1, list2}
    ProductsNode = ProductsNode
    MaxValues = 2
    MaxSubscriptions = 3
INVARIANTS
    FeedTypeOK
    NewestAtRest
    ResultsOfLastSearch
    CellsMatch
PROPERTIES
    NeverBackwards
    ScreenCatchesUp
CHECK_DEADLOCK FALSE
