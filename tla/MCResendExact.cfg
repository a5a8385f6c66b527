SPECIFICATION FormSpec
CONSTANTS
    Partitions = {0, 1}
    MaxHigh = 3
    Late = {}
    Asked <- MCAsked
    NoMessage = NoMessage
    MaxInitial = 2
INVARIANTS
    PrefillIsRequested
CHECK_DEADLOCK FALSE
