SPECIFICATION FairSpec
CONSTANTS
    Partitions = {0, 1}
    MaxHigh = 2
    Late <- MCLate
    Topic = "topic"
    AnyPartition = AnyPartition
    Specs <- MCSpecs
    MaxScan = 3
    BatchMax = 2
    Content <- MCContent
    Index <- MCIndex
    Nowhere = Nowhere
    MaxInitial = 2
INVARIANTS
    TypeOK
    BudgetExact
    EndOfWindowComplete
    FilterExact
PROPERTIES
    HitStreamImplemented
    Terminates
CHECK_DEADLOCK FALSE
