SPECIFICATION FairSpec
CONSTANTS
    r1 = r1
    r2 = r2
    r3 = r3
    g1 = g1
    g2 = g2
    NoCustomer = NoCustomer
    NoVoucher = NoVoucher
    NoOrder = NoOrder
    NoRequest = NoRequest
    Unit = 100
    Discount <- MCDiscount
    Levels <- MCLevels
    o1 = o1
    o2 = o2
    c1 = c1
    v1 = v1
    v2 = v2
    Orders = {o1}
    Customers = {c1}
    Vouchers = {}
    Clients = {r1, r2, r3}
    Deliveries = {g1, g2}
    Prices = {10000}
    Tenders = {10000}
    Ops = {"create", "cash", "status", "online", "ipn"}
    Targets = {"completed", "canceled"}
    MaxInFlight = 3
    MayFail = FALSE
PROPERTY ChargeIsSettled
PROPERTY PaidOrderIsInvoiced
CHECK_DEADLOCK FALSE
