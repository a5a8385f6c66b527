SPECIFICATION MCSpec
CONSTANTS
    Requests = {r1, r2}
    r1 = r1
    r2 = r2
    t = t
    sys = sys
    k1 = k1
    k2 = k2
    v = v
    Names = {t, sys}
    Internal = {sys}
    Keys = {k1, k2}
    Values = {v}
    Default = Default
    Keep = Keep
    Ops <- MCOps
    MaxParts = 2
    MaxHigh = 1
    MaxGens = 2
SYMMETRY AdminSymmetry
INVARIANTS
    TypeOK
    OkMeansDone
    ChangesAccounted
    CountsTruthful
PROPERTIES
    SavesOnlyItsForm
CHECK_DEADLOCK FALSE
