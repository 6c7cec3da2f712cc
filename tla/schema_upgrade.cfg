SPECIFICATION Spec
CONSTANTS
    Processes = {p1, p2}
    Dialects = {"postgresql"}
    Bases <- Forked
    MaxFailures = 0
INVARIANTS
    UpHasColumn
CHECK_DEADLOCK FALSE
