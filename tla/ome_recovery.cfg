SPECIFICATION Spec
CONSTANTS
    server = server
    backfill = backfill
    facts = facts
    cluster = cluster
    reflect = reflect
    Engine <- Both
    Recovers <- OnlyServer
    Strategy <- FactsReflect
    Routes <- FactsAndReflect
    ChildRoutes <- One
    Waits <- Reflectors
    MaxRetries = 1
    Slots = 2
    MaxRecords = 2
    LateRestart = TRUE
    MaxEvents = 1
    MaxRuns = 3
    MaxCrashes = 2
    MaxFaults = 1
INVARIANTS
    TypeOK
    OneRunPerTask
    NoGhosts
    ActiveCounts
CHECK_DEADLOCK FALSE
