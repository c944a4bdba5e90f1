SPECIFICATION FairSpec
CONSTANTS
    Conns = {c1, c2}
    Instances = {r1, r2}
    MaxVersion = 2
    None = None
INVARIANTS
    MappedOpen
    Accounted
PROPERTIES
    GetReturns
    DroppedCloses
CHECK_DEADLOCK FALSE
