SPECIFICATION GateSpec
CONSTANTS
    Names = {n1}
    Workers = {w1, w2}
    IdReuse = FALSE
    MaxAccounts = 2
    MaxVersion = 2
    MaxCookies = 2
    Threads = {loop}
    Clients = {a, b}
    Limit <- MCLimit
    Window <- MCWindow
    Interval = 2
    PerSecond = 2
    MaxTime = 5
SYMMETRY GateSymmetry
INVARIANTS
    TypeOK
    SessionHasCurrentPassword
    LimiterTypeOK
    WindowLimit
PROPERTIES
    RevocationEndsEverySession
    ActsAsStore
    ActsAsSlidingWindow
    IdleBucketsGo
    SweepKeepsLiveHits
CHECK_DEADLOCK FALSE
