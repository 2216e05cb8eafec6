SPECIFICATION Spec
CONSTANTS
    users = users
    orders = orders
    acme = acme
    shared = shared
    canaryA = canaryA
    canaryB = canaryB
    CanaryA = canaryA
    CanaryB = canaryB
    Relations <- MCRelations
    Values <- MCValues
    Targets <- SimpleTargets
    Policies <- BothScoped
    Queries <- MCQueries
    Ceiling <- OneThird
    MaxQueries = 1
INVARIANTS
    RoleIsDropped
\* The process exits.
CHECK_DEADLOCK FALSE
