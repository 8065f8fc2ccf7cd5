SPECIFICATION Spec
CONSTANTS
    u1 = u1
    u2 = u2
    p1 = p1
    p2 = p2
    p3 = p3
    v1 = v1
    v2 = v2
    NoUser = NoUser
    NoPhone = NoPhone
    NoVoucher = NoVoucher
    Users = {u1, u2}
    Phones = {p1, p2, p3}
    Vouchers = {v1, v2}
    Rich = {u1}
    MaxRequests = 3
    MaxInFlight = 2
    Ops = {"password", "phone", "security", "face", "vouchers", "exchange", "group"}
    MayFail = TRUE
INVARIANT TypeOK
INVARIANT CodeIsGoodOnce
INVARIANT FaceFindsOwner
INVARIANT VoucherKeepsOwner
SYMMETRY Symmetry
CHECK_DEADLOCK FALSE
