SPECIFICATION Spec
CONSTANTS
    server = server
    cli = cli
    p1 = p1
    p2 = p2
    l1 = l1
    l2 = l2
    l3 = l3
    Path <- TwoPaths
    Server = server
    Cli <- OneCli
    Lane <- ThreeLanes
    Owner <- ServerOwnsTwoCliOne
    BatchSize = 2
    Watcher = FALSE
    Commands = {"fix"}
    Exclusive = FALSE
    StoreFaults = 1
    MaxCrashes = 0
    MaxVersion = 1
    TotalRetries = 1
    InlineRetries = 0
SYMMETRY PathSymmetry
CONSTRAINTS
    Uncrossed
    OneTrouble
INVARIANTS
    TrueUnlessCrossed
CHECK_DEADLOCK FALSE
