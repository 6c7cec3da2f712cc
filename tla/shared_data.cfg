SPECIFICATION FairSpec
CONSTANTS
    Processes = {p1, p2}
    Keys = {k1, k2, k3}
    NoKey = NoKey
    Roots = {r1, r2}
    Nonces = {0, 1, 2}
    MaxFailures = 2
    MaxTokens = 2
INVARIANTS
    TypeOK
    UpIsMigrated
    BornUnforked
    IssuedVerifies
    IssuedKeepVerifying
    TokenServesOne
    AcceptedIsFresh
PROPERTIES
    EventuallyUp
CHECK_DEADLOCK FALSE
