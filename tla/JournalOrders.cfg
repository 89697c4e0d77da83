CONSTANTS
    a1 = a1
    a2 = a2
    r1 = r1
    Accnts = {a1}
    NoAccnt = NoAccnt
    Refs = {}
    NoRef = NoRef
    MarketStates = {0}
    MaxExecs = 2
    MaxIds = 1
    Faults = {}
    MinLots = {1}
    MaxTicks = 1
    MaxLots = 2
    MaxDay = 1
    QueueIsFile = FALSE
    DbFaults = TRUE
    MaxQueue = 3
    Ops = {"create", "change"}
    MaxId = 4
    Markets <- OneMarket
    SettlDay <- NeverSettles
    BaseOf <- OwnInstrs
    IdLists <- SingleIds
VIEW JView
SPECIFICATION JSpec
INVARIANTS
    OrdersSurvive
    HistoryIsNewestFirst
