CONSTANTS
    Parts = {"Book", "Sweep"}
    a1 = a1
    a2 = a2
    r1 = r1
    Accnts = {a1, a2}
    NoAccnt = NoAccnt
    Refs = {}
    NoRef = NoRef
    Markets <- OneMarket
    SettlDay <- NeverSettles
    MarketStates = {0}
    MaxExecs = 1
    MaxIds = 1
    IdLists <- ShortLists
    Faults = {"queue", "memory"}
    Ops = {"create", "change"}
    MinLots = {1}
    MaxTicks = 2
    MaxLots = 2
    MaxId = 7
    MaxDay = 1
SYMMETRY Symmetry
VIEW PartsView
SPECIFICATION PartsSpec
INVARIANTS
    TypeOK
    NotCrossed
    BooksAreInOrder
    LotsAddUp
PROPERTIES
    MatchesAreFair
    JournalTellsOrders
CHECK_DEADLOCK FALSE
