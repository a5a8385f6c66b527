SPECIFICATION PageFairSpec
CONSTANTS
    Partitions = {0, 1}
    MaxHigh = 2
    Matching <- MCMatching
    Limit = 2
    MaxResults = 2
    MaxSearches = 2
    MaxDrops = 2
INVARIANTS
    PageTypeOK
    ShowsOneStream
PROPERTIES
    ScanSettles
CHECK_DEADLOCK FALSE
