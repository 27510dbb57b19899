SPECIFICATION Spec
CONSTANTS
    NBLOCKS = 11
    WORD = 2
    BLKSIZE = 2
    BLKFILES = 3
    NDIRECT = 2
    NINDIRECT = 2
    f1 = f1
    f2 = f2
    Names = {f1, f2}
    Motd = Motd
    None = None
    Sizes = {0, 2, 5}
    Writes <- MCWrites
    MaxOps = 3
    MaxCrashes = 1
    CrashLong = FALSE
SYMMETRY Clients
INVARIANTS  DiskSound Durable 
CHECK_DEADLOCK FALSE
