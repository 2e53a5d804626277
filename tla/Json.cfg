SPECIFICATION Spec
CONSTANTS
    Keys <- MCKeys
    Hash <- MCHash
    DEFAULT_CAP = 2
    Documents <- MCDocuments
    JSON_MAX_NESTING = 3
    MaxNodes = 4
    MaxTokens = 24
INVARIANTS
    ParseIsExact
    PrintsBack
    TablesFreedOnce
    TokensInStep
PROPERTY ParseEnds
CHECK_DEADLOCK FALSE
