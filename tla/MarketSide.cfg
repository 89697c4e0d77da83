CONSTANTS
    MaxTicks = 2
    MaxLots = 2
    MaxId = 5
SPECIFICATION Spec
INVARIANTS
    TypeOK
    LevelsSummariseOrders
PROPERTIES
    PriorityIsKept
    ImplementsPriceTime
CHECK_DEADLOCK FALSE
