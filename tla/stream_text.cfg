SPECIFICATION Spec
CONSTANTS
    MaxEvents = 2
    Streams <- MCStreams
    Numbers <- MCNumbers
    Names <- MCNames
    NoIndex = NoIndex
    n0 = n0
    n1 = n1
    s0 = s0
INVARIANTS
    RecordedIsRead
CHECK_DEADLOCK FALSE
