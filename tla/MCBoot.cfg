SPECIFICATION Spec
CONSTANTS
    Workers = {w1, w2}
    MaxStarts = 4
INVARIANTS
    TypeOK
    AllSignAlike
    NoStartCollides
    ShownPasswordWorks
PROPERTIES
    ImplementsWriteOnce
    EveryStartEnds
CHECK_DEADLOCK FALSE
