CONSTANTS
    a1 = a1
    a2 = a2
    r1 = r1
    Accnts = {a1, a2}
    NoAccnt = NoAccnt
    Refs = {}
    NoRef = NoRef
    Markets <- OneMarket
    SettlDay <- NeverSettles
    MarketStates = {0}
    MaxExecs = 1
    MaxIds = 1
    IdLists <- RepeatedIds
    Faults = {}
    Ops = {"create", "change"}
    MinLots = {1}
    MaxTicks = 1
    MaxLots = 1
    MaxId = 4
    MaxDay = 1
VIEW View
SPECIFICATION Spec
INVARIANTS
    CommitsFindTheirOrders
CHECK_DEADLOCK FALSE
