SPECIFICATION FairSpec
CONSTANTS
    server = server
    command = command
    episode = episode
    case = case
    episode_tokens = episode_tokens
    intent_tokens = intent_tokens
    approach_tokens = approach_tokens
    w1 = w1
    w2 = w2
    rebuilder = rebuilder
    pruner = pruner
    Command <- Commands
    Table <- Tables
    Column <- Columns
    Fields <- FieldsOf
    Watched = episode
    Writer <- Writers
INVARIANTS
    MarkersTrue
    Serves
PROPERTIES
    NoWedge
    Atomic
CHECK_DEADLOCK FALSE
