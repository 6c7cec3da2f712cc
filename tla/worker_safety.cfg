SPECIFICATION Spec
CONSTANTS
    Workers = {w1, w2}
    Items = {i1, i2, i3}
    NoItem = NoItem
    MaxAttempts = 2
    Faults = {"db", "ack", "disk", "crash", "late"}
SYMMETRY Symmetry
INVARIANTS
    TypeOK
    ChainIntact
    NoSilentLoss
    DrainAccounting
    FifoPerProcess
PROPERTIES
    ImplementsTrail
