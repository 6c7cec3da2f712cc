SPECIFICATION FairSpec
CONSTANTS
    MaxEvents = 3
    Streams <- MCStreams
    Numbers <- MCNumbers
    Names <- MCNames
    NoIndex = NoIndex
    n0 = n0
    n1 = n1
    s0 = s0
INVARIANTS
    TypeOK
    NoDestructiveDelivered
    BlockedBeforeFinish
    RecordCoversDelivered
PROPERTIES
    EventuallyRecorded
CHECK_DEADLOCK FALSE
