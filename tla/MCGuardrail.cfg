SPECIFICATION Spec
CONSTANTS
    acme = acme
    globex = globex
    empty = empty
    null = null
    printed = printed
    latin = latin
    mangled = mangled
    EmptyText = empty
    NullText = null
    Absent = Absent
    NoCall = NoCall
    Texts <- MCTexts
    Utf8 <- MCUtf8
    GoText <- MCGoText
    Relations <- MCRelations
    Names <- MCNames
    Columns <- MCColumns
    CandidateColumns <- MCCandidates
    EndsWith <- MCEndsWith
    Databases <- MCDatabases
    Migrations <- MCMigrations
    Statements <- MCStatements
    Arguments <- MCArguments
    Contexts <- MCContexts
    MaxMigrations = 1
INVARIANTS
    TypeOK
    TenantedRowsAreClaimed
    NoOtherTenantIsNamed
    TiersAgree
    TraceKeepsWhatIsKnown
