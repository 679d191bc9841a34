SPECIFICATION Spec
CONSTANTS
    Handlers = {h1, h2}
    Browsers = {b1, b2}
    Providers = {p, q}
    Subjects = {s}
    Names = {n}
    None = None
    MaxFlows = 2
    MaxPuts = 1
    MaxKey = 1
SYMMETRY MCSymmetry
INVARIANTS
    TypeOK
    FlowSignsInOnce
    RefusedForAReason
    CachesFollowSettings
PROPERTY
    ActsAsSignIns
CHECK_DEADLOCK FALSE
