SPECIFICATION Spec
CONSTANTS
    a = a
    b = b
    none = none
    q1 = q1
    q2 = q2
    bad = bad
    int4 = int4
    date = date
    NoSQL = NoSQL
    NoOID = NoOID
    NoName = NoName
    Unnamed = none
    Names <- MCNames
    SQLs <- MCSQLs
    OIDs <- MCOIDs
    Decodes <- MCDecodes
    ParamTypes <- MCParamTypes
    ColumnTypes <- MCColumnTypes
    BadSQLs = {bad}
    Scripts <- Leaving
    Leavers = {"client", "server"}
    DiskFills = TRUE
    Killable = TRUE
    MaxDeclines = 1
    MaxChunk = 2
INVARIANTS
    TraceHasNoHoles
    OneChunkIsLost
PROPERTIES
    KeepsItsContract
    BindsAreRecorded
    GoroutinesEnd
\* The client falls silent when its script ends.
CHECK_DEADLOCK FALSE
