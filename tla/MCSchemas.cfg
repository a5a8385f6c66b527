SPECIFICATION Spec
CONSTANTS
    Workers = {w1, w2}
    w1 = w1
    w2 = w2
    Registries = {g1, g2}
    g1 = g1
    g2 = g2
    Ids = {i1, i2}
    i1 = i1
    i2 = i2
    Avro = {a1, a2}
    a1 = a1
    a2 = a2
    Others = {j1}
    j1 = j1
    None = None
    Unasked = Unasked
    MaxDecodes = 3
SYMMETRY SchemasSymmetry
INVARIANTS
    TypeOK
    CacheTruthful
    RegistryNotHammered
    ReadWithItsId
CHECK_DEADLOCK FALSE
