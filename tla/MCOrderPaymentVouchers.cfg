SPECIFICATION Spec
CONSTANTS
    r1 = r1
    r2 = r2
    r3 = r3
    g1 = g1
    g2 = g2
    NoCustomer = NoCustomer
    NoVoucher = NoVoucher
    NoOrder = NoOrder
    NoRequest = NoRequest
    Unit = 100
    Discount <- MCDiscount
    Levels <- MCLevels
    o1 = o1
    o2 = o2
    c1 = c1
    v1 = v1
    v2 = v2
    Orders = {o1}
    Customers = {}
    Vouchers = {v1, v2}
    Clients = {r1, r2}
    Deliveries = {g1}
    Prices <- MCVoucherPrices
    Tenders <- MCVoucherTenders
    Ops = {"create", "items", "remove", "status", "cash", "online", "ipn"}
    Targets = {"completed", "canceled"}
    MaxInFlight = 3
    MayFail = TRUE
SYMMETRY MCSymmetry
INVARIANT ChangeMatchesQuote
INVARIANT FinalFollowsOriginal
CHECK_DEADLOCK FALSE
