SPECIFICATION FairSpec
CONSTANTS
    HoursPerDay = 2
    LastHour = 4
    MaxRows = 2
    MaxDelay = 0
    MaxCrashes = 2
    Window = 2
    UtcOffset = 0
    S3Enabled = FALSE
    Failures = {}
    Manual = FALSE
    Tamper = TRUE
INVARIANTS
    StatusTruthful
PROPERTIES
    EventuallySealed
CHECK_DEADLOCK FALSE
