SPECIFICATION FairGatewaySpec
CONSTANTS
    Workers = {w1}
    Items = {i1, i2}
    NoItem = NoItem
    NoWorker = NoWorker
    MaxAttempts = 2
    Faults = {"db", "ack", "disk", "crash", "late"}
INVARIANTS
    GatewayTypeOK
    StopLeavesNothing
    TardyWasLeft
    CleanStopKeepsAnswered
PROPERTIES
    EventuallySettled
    AskedIsRecorded
    ShutdownCompletes
