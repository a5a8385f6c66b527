SPECIFICATION MCSpec
CONSTANTS
    Requests = {r1, r2}
    r1 = r1
    r2 = r2
    Forms <- MCForms
    Texts <- TwoTexts
    NoText = NoText
    MaxSchemas = 2
INVARIANTS
    OkMeansWritten
    WritesAccounted
    WrittenIsReadable
    TypeOK
PROPERTIES
    EverySendAnswered
CHECK_DEADLOCK FALSE
