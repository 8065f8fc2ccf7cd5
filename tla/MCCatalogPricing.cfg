SPECIFICATION Spec
CONSTANTS
    c1 = c1
    NoList = NoList
    NoPrice = NoPrice
    NoProduct = NoProduct
    Readers = {c1}
    MaxRequests = 2
    MaxInFlight = 2
    MaxTime = 2
    Keys = {"products:pos"}
    Sizes = {"large"}
    SameId = {}
    Prices = {10, 20}
    Firsts = {0, 1}
    Lasts = {1, 2}
    Standing = 2
    Offers = {"cheap"}
    OfferPrice <- MCOfferPrice
    Ops = {"create", "update", "remove", "removeMany", "promote", "change", "withdraw", "toggle"}
    MayFail = TRUE
INVARIANT RepricedAsCreated
CHECK_DEADLOCK FALSE
