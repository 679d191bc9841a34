SPECIFICATION Spec
CONSTANTS
    Names = {n1, n2}
    NoAccount = none
    Users = {u}
    Super = root
    Zones = {z, c}
    Catalogues = {c}
    Workers = {w1, w2}
    IdReuse = TRUE
    MaxAccounts = 2
PROPERTY ZonesPointToAccounts
CHECK_DEADLOCK FALSE
