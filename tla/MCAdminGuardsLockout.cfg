SPECIFICATION MCSpec
CONSTANTS
    Users = {root, u1}
    BuiltIn = root
    Workers = {w1}
    Pinned <- Unpinned
    KeyIds = {k1}
    Handlers = {w1}
    IdReuse = TRUE
    MaxAccounts = 1
INVARIANT LocalLoginOffOnlyWithOidcAdmin
CHECK_DEADLOCK FALSE
