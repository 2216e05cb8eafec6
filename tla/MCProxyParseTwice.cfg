SPECIFICATION Spec
CONSTANTS
    a = a
    b = b
    none = none
    q1 = q1
    q2 = q2
    bad = bad
    int4 = int4
    date = date
    NoSQL = NoSQL
    NoOID = NoOID
    NoName = NoName
    Unnamed = none
    Names <- MCNames
    SQLs <- MCSQLs
    OIDs <- MCOIDs
    Decodes <- MCDecodes
    ParamTypes <- MCParamTypes
    ColumnTypes <- MCColumnTypes
    BadSQLs = {bad}
    Scripts <- Repeating
    Leavers = {}
    DiskFills = FALSE
    Killable = FALSE
    MaxDeclines = 1
    MaxChunk = 1
INVARIANTS
    RecordedIsWhatRan
\* The client falls silent when its script ends.
CHECK_DEADLOCK FALSE
