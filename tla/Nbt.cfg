SPECIFICATION Spec
CONSTANTS
    Names = {"a", "b"}
    Files <- MCFiles
    MaxTags = 4
    MaxCursor = 2
    STACK_CAP = 4
INVARIANTS
    WritesTheTree
    
    CutsAreNoticed
    SnbtSaysTheTree
CHECK_DEADLOCK FALSE
