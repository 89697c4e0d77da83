CONSTANTS
    Users = {u1, u2}
    NoUser = NoUser
    Fds = {f1, f2}
    MaxSid = 3
    reactor = reactor
    Readers = {c1}
    Writers = {p1}
    NoMsg = NoMsg
    QueueSize = 4
    MaxPosted = 9
    MaxIds = 2
    MaxItems = 4
    MaxBatches = 3
    Words = {m1, m2}
    FileSize = 2
    MaxWritten = 5
    MaxCrashes = 2
    Workers = {y1, y2}
    Sizes = {64, 100, 128}
    MaxSize = 3
    MaxTag = 3
SYMMETRY Symmetry
SPECIFICATION SysSpec
INVARIANTS
    BlocksHaveOneOwner
    BlocksAreLargeEnough
    QueueKeepsMessages
PROPERTIES
    CallsAreCurrent
CHECK_DEADLOCK FALSE
