SPECIFICATION FairSpec
CONSTANTS
    Streams <- MCStreams
INVARIANTS
    TypeOK
    BufferIsUnread
    WaitsOnlyIfMalformed
PROPERTIES
    CutsMakeNoDifference
    EveryMessageArrives
\* The stream ends.
CHECK_DEADLOCK FALSE
