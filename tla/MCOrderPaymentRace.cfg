SPECIFICATION Spec
CONSTANTS
    r1 = r1
    r2 = r2
    r3 = r3
    g1 = g1
    g2 = g2
    NoCustomer = NoCustomer
    NoVoucher = NoVoucher
    NoOrder = NoOrder
    NoRequest = NoRequest
    Unit = 100
    Discount <- MCDiscount
    Levels <- MCLevels
    o1 = o1
    o2 = o2
    c1 = c1
    v1 = v1
    v2 = v2
    Orders = {o1}
    Customers = {c1}
    Vouchers = {v1}
    Clients = {r1, r2}
    Deliveries = {g1}
    Prices <- MCPrices
    Tenders <- MCTenders
    Ops = {"create", "items", "update", "remove", "status", "cash", "online", "ipn"}
    Targets = {"paid", "completed", "canceled"}
    MaxInFlight = 3
    MayFail = TRUE
SYMMETRY MCSymmetry
INVARIANT TypeOK
INVARIANT DetailBelongsToOrder
INVARIANT VoucherBoughtDiscount
INVARIANT InvoiceIsStored
INVARIANT GatewayStoppedForReason
INVARIANT OnlineDetailIsCollected
INVARIANT PointsAreBacked
INVARIANT PointsAreComplete
PROPERTY PaymentStaysAttached
PROPERTY LedgerIsKept
CHECK_DEADLOCK FALSE
