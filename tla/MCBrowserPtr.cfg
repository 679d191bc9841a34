CONSTANTS
    None = None
    MaxCalls = 2
    MaxEdits = 2
    MaxFaults = 1
    Ids = {row}
    Versions = {v1, v2}
    Questions = {q1, q2}
    InitialTables <- FewTables
    Names = {n1, n2}
    Values = {v1, v2}
    InitialSets <- FewSets
    Files <- FewFiles
    Dot = Dot
    Labels <- Octets
    Lower <- SameOctet
    Depth = 2
    ReverseSets <- FewReverseSets
    Zones = {n1, n2}
    Accounts = {v1, v2}
    InitialOwners <- FewOwners
    MaxFlight = 3
    MaxOpenings = 2
    MaxVersions = 2
    MaxSignOuts = 2
    MaxPending = 3
SPECIFICATION Spec
INVARIANT AskedZoneIsMostSpecific
\* The bounds let every part stop.
CHECK_DEADLOCK FALSE
