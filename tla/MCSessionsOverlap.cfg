CONSTANTS
    Names = {n1}
    Workers = {w1, w2}
    IdReuse = FALSE
    MaxAccounts = 2
    MaxVersion = 2
    MaxCookies = 2
SPECIFICATION Spec
INVARIANT OlderSessionsStayEnded
CHECK_DEADLOCK FALSE
