SPECIFICATION FairSpec
CONSTANTS
    Canonical <- MCCanonical
    GoodNames <- MCGoodNames
    Unset = "unset"
    Blank = ""
    t1 = t1
    t2 = t2
    Tabs = {t1, t2}
    Address <- MCAddress
    Described <- MCDescribed
    Deployed <- MCDeployed
    Callers <- MCCallers
    NoToken = NoToken
    NoCluster = NoCluster
    MaxRestarts = 1
INVARIANTS
    TypeOK
    OwnCluster
    WritesEntitled
    ConfigSound
PROPERTIES
    PersistentUserSucceeds
CHECK_DEADLOCK FALSE
