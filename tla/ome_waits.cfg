SPECIFICATION FairSpec
CONSTANTS
    server = server
    backfill = backfill
    facts = facts
    cluster = cluster
    reflect = reflect
    Engine <- OnlyServer
    Recovers <- OnlyServer
    Strategy <- FactsReflect
    Routes <- Reflect
    ChildRoutes <- One
    Waits <- Reflectors
    MaxRetries = 1
    Slots = 1
    MaxRecords = 2
    LateRestart = FALSE
    MaxEvents = 1
    MaxRuns = 3
    MaxCrashes = 1
    MaxFaults = 1
PROPERTIES
    Delivers
    Settles
CHECK_DEADLOCK FALSE
