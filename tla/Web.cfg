CONSTANTS
    MaxRequests = 3
    Urls <- SmallUrls
    Names <- SmallNames
    Values <- SmallValues
    AccntName <- AccntHeader
    PermName <- PermHeader
    MaxUrl = 4
    MaxField = 3
    MaxValue = 3
    MaxHeaders = 3
    ShrinkThreshold = 3
    Chunks = {1, 2}
    MaxBody = 2
    MaxWaiting = 2
    Paths <- SmallPaths
    Bodies <- SmallBodies
    MaxParts = 2
    MaxExecs = 2
    MaxConns = 3
    MaxAsks = 2
    MaxFills = 1
    MaxFaults = 1
    LastTime = 15
    SecondsInDay = 5
    Offset = 2
SPECIFICATION Spec
INVARIANTS
    AnswersAreInOrder
    MessagesAreMeant
    BodiesAreMeant
    RequestsCallTheirOwn
    RowsHaveInstr
PROPERTIES
    ConversionsAgree
CHECK_DEADLOCK FALSE
