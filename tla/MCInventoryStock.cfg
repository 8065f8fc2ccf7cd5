SPECIFICATION Spec
CONSTANTS
    r1 = r1
    r2 = r2
    r3 = r3
    r4 = r4
    NoRow = NoRow
    NoAmount = NoAmount
    NoRequest = NoRequest
    Requests = {r1, r2, r3, r4}
    Amounts = {1, 2}
    Imports <- MCImports
    LastDay = 2
    MaxInFlight = 2
    MayFail = TRUE
    Ops = {"create", "import", "update", "remove", "reset", "record"}
SYMMETRY MCSymmetry
INVARIANT TypeOK
INVARIANT BalanceAgrees
INVARIANT RemainIsBacked
CHECK_DEADLOCK FALSE
