SPECIFICATION FairSpec
CONSTANTS
    k1 = k1
    k2 = k2
    acme = acme
    globex = globex
    yes = yes
    no = no
    Empty = Empty
    Keep = Keep
    NoRow = NoRow
    NoKey = NoKey
    NoConn = NoConn
    NoTx = NoTx
    NoAnswer = NoAnswer
    NoRows <- MCNoRows
    Answers <- MCAnswers
    NoQuery = NoQuery
    Unset = Unset
    Super = Super
    Conns = {c1, c2}
    Keys <- MCKeys
    Tenants <- MCTenants
    Contents <- AnyContents
    Queries <- MCQueries
    MaxConflictRetries = 3
    MaxQueries = 2
INVARIANTS
    TypeOK
    JudgedOnEvidence
    LeakIsForeign
    SafeIsOwn
    SafeAnswerIsOwn
    OneCollisionResolves
PROPERTIES
    NothingIsWritten
    MeetsContract
    EveryQueryIsJudged
\* The bound on the queries replayed ends the run.
CHECK_DEADLOCK FALSE
