SPECIFICATION FairSpec
CONSTANTS
    s1 = s1
    b1 = b1
    NoOrder = NoOrder
    NoList = NoList
    NoCount = NoCount
    MaxOrders = 2
    PageSize = 1
    MaxRequests = 2
    Lists = {s1}
    Badges = {b1}
    Targets = {"paid", "completed"}
    Ops = {"create", "status", "remove", "click"}
    MaxInFlight = 2
    MaxFetches = 2
    MaxOpen = 1
    MaxDrops = 1
    MayFail = TRUE
INVARIANT TypeOK
INVARIANT ListIsRight
INVARIANT BadgeIsRight
PROPERTY NewOrderIsShown
CHECK_DEADLOCK FALSE
