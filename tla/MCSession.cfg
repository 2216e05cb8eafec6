SPECIFICATION Spec
CONSTANTS
    a = a
    none = none
    q1 = q1
    q2 = q2
    int4 = int4
    date = date
    json = json
    NoSQL = NoSQL
    NoOID = NoOID
    Unnamed = none
    Names <- MCNames
    SQLs <- MCSQLs
    OIDs <- MCOIDs
    Decodes <- MCDecodes
    FrontMsgs <- MCFrontMsgs
    BackMsgs <- MCBackMsgs
    MaxMessages = 5
INVARIANTS
    HistoryTypeOK
    BindNamesOpenStatement
    AnsweredInOrder
    DecodedOnlyAsDescribed
\* The bound on the messages handled ends the run.
CHECK_DEADLOCK FALSE
