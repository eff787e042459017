SPECIFICATION FairSpec
CONSTANTS
    server = server
    cli = cli
    p1 = p1
    p2 = p2
    l1 = l1
    l2 = l2
    l3 = l3
    Path <- OnePath
    Server = server
    Cli = {}
    Lane <- ServerLane
    Owner <- ServerOwns
    BatchSize = 1
    Watcher = TRUE
    Commands = {}
    Exclusive = TRUE
    StoreFaults = 0
    MaxCrashes = 1
    MaxVersion = 2
    TotalRetries = 1
    InlineRetries = 1
PROPERTIES
    Converges
CHECK_DEADLOCK FALSE
