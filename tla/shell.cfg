SPECIFICATION FairSpec
CONSTANTS
    NENV = 3
    MaxGen = 2
    NFRAMES = 7
    PGSIZE = 2
    Commands <- MCCommands
    Lines <- MCLines
    MaxLines = 3
INVARIANTS
    
    ArgsAsTyped
 
CHECK_DEADLOCK FALSE
