CONSTANTS
    Urls <- MCUrls
    Names <- MCNames
    Values <- MCValues
    AccntName <- MCAccnt
    PermName <- MCPerm
    MaxUrl = 3
    MaxField = 3
    MaxValue = 3
    MaxHeaders = 0
SPECIFICATION Spec
INVARIANTS
    IdsAreMeant
