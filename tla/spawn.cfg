SPECIFICATION FairSpec
CONSTANTS
    NENV = 4
    NPAGES = 10
    Image <- MCImage
    MAXARGS = 2
    Lines <- MCLines
    MaxLines = 4
INVARIANTS
    StartedWhole
    LeftBehind
PROPERTY PromptReturns
CHECK_DEADLOCK FALSE
