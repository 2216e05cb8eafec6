SPECIFICATION Spec
CONSTANTS
    users = users
    orders = orders
    acme = acme
    shared = shared
    canaryA = canaryA
    canaryB = canaryB
    CanaryA = canaryA
    CanaryB = canaryB
    Relations <- MCRelations
    Values <- MCValues
    Targets <- MCTargets
    Policies <- MCPolicies
    Queries <- MCQueries
    Ceiling <- OneThird
    MaxQueries = 3
INVARIANTS
    TypeOK
    JudgedByASoundOracle
    AbortsSayWhy
    ProbeIsDropped
    ReportAddsUp
    
\* The process exits.
CHECK_DEADLOCK FALSE
