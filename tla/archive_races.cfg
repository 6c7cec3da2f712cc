SPECIFICATION Spec
CONSTANTS
    HoursPerDay = 2
    LastHour = 2
    MaxRows = 2
    MaxDelay = 1
    MaxCrashes = 1
    Window = 2
    UtcOffset = 0
    S3Enabled = TRUE
    Failures = {"tsa", "keys", "s3"}
    Manual = TRUE
    Tamper = FALSE
INVARIANTS
    TypeOK
    ArchivedIffSealed
    SealHasObject
    SealHasNoHole
    BackfillOnlyClosedDays
PROPERTIES
    ImplementsSeals
CHECK_DEADLOCK FALSE
