SPECIFICATION MCSpec
CONSTANTS
    Partitions = {0, 1}
    MaxHigh = 2
    Late = {}
    Topic = "topic"
    AnyPartition = AnyPartition
    Requests <- MCRequests
    BatchMax = 2
    Matching <- MCMatching
    Asked <- MCAsked
    NoMessage = NoMessage
    MaxInitial = 1
INVARIANTS
    TypeOK
    TailFollows
    FormTypeOK
    FormFaithful
PROPERTIES
    HitStreamImplemented
    DisconnectEndsTail
CHECK_DEADLOCK FALSE
