CONSTANTS
    Followed = 2
    MaxQueue = 2
    MaxSignals = 2
    Signals = {"HUP", "TERM"}
    Failures = {"journal", "reactor"}
    reactor = reactor
    c1 = c1
    NoMsg = NoMsg
    h1 = h1
    l1 = l1
    Timers = {t1, t2}
    NoTimer = NoTimer
    Intervals = {0, 1}
    Delays = {1, 2}
    MaxTime = 3
SPECIFICATION ProgressSpec
INVARIANTS
    DeadAreCounted
    PollSeesTimers
    DaemonEndsInOrder
PROPERTIES
    DaemonProgresses
    BatchesArrive
    TimersFire
    TimersArePolled
    HandledIsAnswered
    ClientCatchesUp
CHECK_DEADLOCK FALSE
