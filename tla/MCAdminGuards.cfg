SPECIFICATION MCSpec
CONSTANTS
    Users = {root, u1, u2}
    BuiltIn = root
    Workers = {w1, w2}
    Pinned <- Unpinned
    KeyIds = {k1, k2}
    Handlers = {w1, w2}
    IdReuse = TRUE
    MaxAccounts = 2
SYMMETRY MCSymmetry
INVARIANTS
    MCTypeOK
    SuperAdminRemains
    OidcOnlyKeepsItsAdmin
    KeysNameTheirOwner
CHECK_DEADLOCK FALSE
