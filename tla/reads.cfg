SPECIFICATION Spec
CONSTANTS
    a = a
    b = b
    Entries <- MCEntries
    Forged = Forged
    MaxRows = 5
    PageSize = 2
    ExportMax = 3
    Filters <- MCFilters
INVARIANTS
    TypeOK
    NoFalseAlarm
    FindsAltered
    CoversTotal
    ExportExact
    TruncatedIsTrue
