SPECIFICATION Spec
CONSTANTS
    Partitions = {0, 1}
    MaxHigh = 1
    Late <- MCLate
    Requests = {r1}
    r1 = r1
    Ops <- MCOps
    Topic = "topic"
    AnyPartition = AnyPartition
    NoOffset = NoOffset
    MaxInitial = 1
INVARIANTS
    TimestampKeepsAll
CHECK_DEADLOCK FALSE
