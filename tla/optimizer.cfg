SPECIFICATION FairSpec
CONSTANTS
    episode = episode
    Kind = {episode}
    AlertThreshold = 5
    ConflictBackoffs = 3
INVARIANTS
    OneMaintainer
    StopIsQuiet
PROPERTIES
    PrunesGoOn
    StuckIsReported
CHECK_DEADLOCK FALSE
