CONSTANTS
    a1 = a1
    a2 = a2
    r1 = r1
    Accnts = {a1, a2}
    NoAccnt = NoAccnt
    Refs = {}
    NoRef = NoRef
    MarketStates = {0}
    MaxExecs = 2
    MaxIds = 1
    Faults = {}
    MinLots = {1}
    MaxTicks = 1
    MaxLots = 1
    MaxDay = 1
    QueueIsFile = FALSE
    DbFaults = FALSE
    MaxQueue = 3
    Ops = {"create", "change"}
    MaxId = 3
    Markets <- TwoMarkets
    SettlDay <- NeverSettles
    BaseOf <- OwnInstrs
    IdLists <- SingleIds
SYMMETRY Symmetry
VIEW JView
SPECIFICATION JSpec
INVARIANTS
    OrdersAreJournalled
