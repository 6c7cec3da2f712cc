SPECIFICATION Spec
CONSTANTS
    Processes = {p1, p2}
    Keys = {k1, k2, k3}
    NoKey = NoKey
    SerialFirstUse = FALSE
    MaxCrashes = 0
INVARIANTS
    IssuedKeepVerifying
CHECK_DEADLOCK FALSE
