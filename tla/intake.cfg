SPECIFICATION FairSpec
CONSTANTS
    r1 = r1
    r2 = r2
    None = None
    Slots <- TwoSlots
    Sessions <- Days
    ClientBatches <- Hub
    MaxCells = 2
    MaxBatch = 2
    MaxLines = 2
    MaxDay = 1
    MaxCalls = 1
    MaxFaults = 1
INVARIANTS
    TypeOK
    Retained
    OnceWithoutFaults
    EpisodesFollow
PROPERTIES
    Uploads
    Uploaded
CHECK_DEADLOCK FALSE
