CONSTANTS
    Parts = {"Sweep", "Manual", "Markets"}
    a1 = a1
    a2 = a2
    r1 = r1
    Accnts = {a1, a2}
    NoAccnt = NoAccnt
    Refs = {r1}
    NoRef = NoRef
    Markets <- TwoMarkets
    SettlDay <- FirstSettles
    MarketStates = {0}
    MaxExecs = 1
    MaxIds = 1
    IdLists <- RepeatedIds
    Faults = {"queue", "memory"}
    Ops = {"create", "change", "trade"}
    MinLots = {1}
    MaxTicks = 2
    MaxLots = 2
    MaxId = 7
    MaxDay = 2
SYMMETRY Symmetry
VIEW BareView
SPECIFICATION PartsSpec
INVARIANTS
    MarketsAndSessionsAgree
PROPERTIES
    PositionsBalance
    PositionsFollowTrades
    FailureChangesNothing
CHECK_DEADLOCK FALSE
