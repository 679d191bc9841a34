SPECIFICATION Spec
CONSTANTS
    Names = {n1, n2}
    NoAccount = none
    Users = {u}
    Super = root
    Zones = {z1, z2}
    Catalogues = {z1, z2}
    Workers = {w1, w2}
    IdReuse = TRUE
    MaxAccounts = 2
SYMMETRY MCSymmetry
INVARIANTS
    TypeOK
    ZonesKeepTheirAccount
    MembersKeepTheirAccount
CHECK_DEADLOCK FALSE
