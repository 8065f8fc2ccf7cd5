SPECIFICATION Spec
CONSTANTS
    o1 = o1
    o2 = o2
    NoOrder = NoOrder
    Orders = {o1, o2}
    Targets = {"completed", "canceled"}
    MaxEdits = 1
    MaxCompletions = 2
    MaxFaults = 1
SYMMETRY MCSymmetry
INVARIANT TypeOK
INVARIANT WorkIsDue
INVARIANT RowsFollowCompletion
INVARIANT NoEventIsLost
PROPERTY ConsumptionAtLeastOnce
CHECK_DEADLOCK FALSE
