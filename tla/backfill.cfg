SPECIFICATION Spec
CONSTANTS
    i1 = i1
    i2 = i2
    case = case
    poor = poor
    k = k
    None = None
    Rows <- TwoRows
    HasSubject <- OneSubject
    Memories <- TwoCases
    Cases <- TwoCases
    Poor <- PoorCases
    Clusters <- OneCluster
    MaxText = 2
    MaxRuns = 2
    MaxStarts = 1
    MaxFaults = 2
INVARIANTS
    PrimariesEmbedded
    EventsKept
    SkillsFindable
PROPERTIES
    TextsAdvance
CHECK_DEADLOCK FALSE
