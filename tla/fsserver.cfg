SPECIFICATION FairSpec
CONSTANTS
    c1 = c1
    c2 = c2
    Client = {c1, c2}
    First = c1
    MAXOPEN = 1
    MAXFD = 2
    p1 = p1
    Path = {p1}
    NFILE = 1
    MaxOpens = 2
    MaxKills = 1
    None = None
INVARIANTS OpenEntryKept 
PROPERTY TakenIsAnswered
CHECK_DEADLOCK FALSE
