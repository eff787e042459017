SPECIFICATION Spec
CONSTANTS
    p1 = p1
    p2 = p2
    r1 = r1
    c1 = c1
    c2 = c2
    c3 = c3
    k1 = k1
    None = None
    Pipes <- TwoPipes
    Reflectors <- OneReflector
    Cells <- ThreeCells
    Watched <- Last
    Clusters <- OneCluster
    MaxEntries = 4
    MaxTries = 2
    MaxMerges = 2
    MaxFaults = 1
    MayCollide = FALSE
INVARIANTS
    
    NothingForgotten
    DeprecationsArrive

    
SYMMETRY Alike
CHECK_DEADLOCK FALSE
