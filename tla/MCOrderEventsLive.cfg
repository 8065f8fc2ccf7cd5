SPECIFICATION FairSpec
CONSTANTS
    o1 = o1
    o2 = o2
    NoOrder = NoOrder
    Orders = {o1, o2}
    Targets = {"completed"}
    MaxEdits = 0
    MaxCompletions = 2
    MaxFaults = 1
PROPERTY EventsAreHandled
PROPERTY HealthyCompletionIsConsumed
CHECK_DEADLOCK FALSE
