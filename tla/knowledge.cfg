SPECIFICATION Spec
CONSTANTS
    a = a
    b = b
    old = old
    new = new
    None = None
    Categories <- TwoCategories
    Texts <- TwoTexts
    Patient = TRUE
    MaxDepth = 1
    MaxCalls = 3
    MaxFaults = 1
INVARIANTS
    TypeOK
    NeverLost
    NoGhosts
    Truthful
    
SYMMETRY Alike
CHECK_DEADLOCK FALSE
