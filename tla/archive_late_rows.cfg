SPECIFICATION Spec
CONSTANTS
    HoursPerDay = 2
    LastHour = 4
    MaxRows = 2
    MaxDelay = 1
    MaxCrashes = 1
    Window = 2
    UtcOffset = 0
    S3Enabled = TRUE
    Failures = {}
    Manual = FALSE
    Tamper = FALSE
INVARIANTS
    BackfillClears
CHECK_DEADLOCK FALSE
