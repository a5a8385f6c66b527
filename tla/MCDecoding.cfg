SPECIFICATION MCSpec
CONSTANTS
    Workers = {w1}
    w1 = w1
    Registries = {g1}
    g1 = g1
    Ids = {1, 40}
    Avro = {}
    Others = {p1}
    Protobuf = {p1}
    p1 = p1
    None = None
    Unasked = Unasked
    MaxDecodes = 1
    Base = 16
    MaxGroups = 3
    Wires = 8
    Wide = 3
    Narrow = 2
    IdBytes = 2
    Characters <- MCCharacters
    Printable <- MCPrintable
    Blanks <- MCBlanks
    MaxId = 40
    Fields <- MCFields
    MaxFields = 2
    Paths <- MCPaths
INVARIANTS
    ShownIsSent
CHECK_DEADLOCK FALSE
