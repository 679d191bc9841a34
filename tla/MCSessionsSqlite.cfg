CONSTANTS
    Names = {n1}
    Workers = {w1, w2}
    IdReuse = TRUE
    MaxAccounts = 2
    MaxVersion = 2
    MaxCookies = 2
SPECIFICATION Spec
INVARIANT NoTokenOutlivesItsUser
CHECK_DEADLOCK FALSE
