SPECIFICATION Spec
CONSTANTS
    server = server
    cli = cli
    p1 = p1
    p2 = p2
    l1 = l1
    l2 = l2
    l3 = l3
    Path <- OnePath
    Server = server
    Cli <- OneCli
    Lane <- ThreeLanes
    Owner <- ServerOwnsTwoCliOne
    BatchSize = 1
    Watcher = TRUE
    Commands <- AllCommands
    Exclusive = TRUE
    StoreFaults = 0
    MaxCrashes = 1
    MaxVersion = 2
    TotalRetries = 2
    InlineRetries = 1
SYMMETRY LaneSymmetry
INVARIANTS
    DoneMeansIndexed
    NoOrphanClaim
    OneHandlerPerPath
    RetryBudget
PROPERTIES
    Projects
CHECK_DEADLOCK FALSE
