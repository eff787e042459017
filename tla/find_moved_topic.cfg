SPECIFICATION Spec
CONSTANTS
    a = a
    b = b
    old = old
    new = new
    None = None
    Categories <- TwoCategories
    Texts <- TwoTexts
    Patient = TRUE
    MaxDepth = 1
    MaxCalls = 2
    MaxFaults = 0
INVARIANT Searchable
SYMMETRY Alike
CHECK_DEADLOCK FALSE
